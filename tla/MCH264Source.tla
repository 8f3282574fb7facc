---------------------------- MODULE MCH264Source ----------------------------
(* Three sources and two triggers: one source gets no id while the others  *)
(* hold theirs, an id is used again when its source goes, and two triggers *)
(* can await the round robin at once.  Two frames make a backlog in one    *)
(* source, or work for two; one of them may be larger than the reader's    *)
(* buffer.                                                                 *)
EXTENDS H264Source
=============================================================================
