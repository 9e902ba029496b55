------------------------------ MODULE MCSessions ------------------------------
(* Small instances of Sessions: processes p1 and p2, of two actors or of one. *)
EXTENDS Sessions, TLC

CONSTANTS a1, a2, p1, p2

OneEach == p1 :> a1 @@ p2 :> a2
Shared  == p1 :> a1 @@ p2 :> a1

\* Ids are random and stand for nothing, and two actors with a process each can change
\* places.
Ids == Permutations(Session) \cup Permutations(Token)
IdsAndActors == Ids \cup {a1 :> a2 @@ a2 :> a1 @@ p1 :> p2 @@ p2 :> p1}
=============================================================================
