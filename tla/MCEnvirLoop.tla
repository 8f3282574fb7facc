---------------------------- MODULE MCEnvirLoop ----------------------------
(* Two calling threads and three calls of run(): a call can overlap the    *)
(* move, wait for another caller's lock, and come from a running function. *)
EXTENDS EnvirLoop
=============================================================================
