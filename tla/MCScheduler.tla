---------------------------- MODULE MCScheduler ----------------------------
(* Two tasks with delays of up to two: due at the same time, one after the *)
(* other, one put before the other, one removed from before the other.     *)
(* Two sockets, both ready, moved onto each other's number, one cleared    *)
(* and registered again while the other is handled.  Handlers take longer  *)
(* than any delay, and the clock is set back once.                         *)
EXTENDS Scheduler
=============================================================================
