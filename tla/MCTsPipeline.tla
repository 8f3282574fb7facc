---------------------------- MODULE MCTsPipeline ----------------------------
(* Frames smaller than, as large as and larger than a buffer's rest, so    *)
(* that a buffer holds several frames, one, or part of one; four of them   *)
(* make a backlog.  A buffer is cut into two packets or more and every     *)
(* third packet goes through the event loop, so that batches end inside    *)
(* and between buffers.  The tables come in between.  The two times lie    *)
(* on both sides of a slice; the sink begins with and without room.        *)
EXTENDS TsPipeline
=============================================================================
