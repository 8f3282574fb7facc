---------------------------- MODULE MCByteBuffer ----------------------------
(* Two handles, and a third block for what reserve() allocates; one of the   *)
(* words that are written reads as "one handle" when taken for the counter.  *)
EXTENDS ByteBuffer, TLC

Symmetry == Permutations(Handles) \cup Permutations(Blocks)
=============================================================================
