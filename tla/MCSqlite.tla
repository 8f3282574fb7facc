------------------------------ MODULE MCSqlite ------------------------------
(* Two statement objects and room for two handles: a connection is opened    *)
(* again while statements of the old one are still open, and one handle's    *)
(* reader or transaction is in the way of the other's.                       *)
EXTENDS Sqlite, TLC

AddressSymmetry ==
    Permutations(Stmts) \cup Permutations(Handles) \cup Permutations(Addresses)
=============================================================================
