-------------------------- MODULE MCRegistryMutex --------------------------
(* Small instances of the registry mutex for TLC. *)
EXTENDS RegistryMutex, TLC

CONSTANTS c1, c2, c3, c4, Foreign

\* The calls of Foreign run on another machine than the rest.
MCHostOf == [c \in Call |-> IF c \in Foreign THEN "elsewhere" ELSE "here"]

Symmetry == Permutations(Call \ (Doctors \cup Foreign))
=============================================================================
