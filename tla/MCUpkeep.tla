------------------------------ MODULE MCUpkeep ------------------------------
(* Small instances of Upkeep. *)
EXTENDS Upkeep, TLC

CONSTANTS p1, p2, c1, c2, e1, e2

Alike == Permutations(Process) \cup Permutations(Entry)
=============================================================================
