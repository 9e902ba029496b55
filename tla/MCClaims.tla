------------------------------ MODULE MCClaims ------------------------------
(* Small instances of Claims. *)
EXTENDS Claims, TLC

CONSTANTS s1, s2, s3, c1, c2, c3, m1, m2, a1, a2

\* s1 and s2 share a machine; s3 works from another one.
Machines == s1 :> "here" @@ s2 :> "here" @@ s3 :> "there"
OneMachine == s1 :> "here" @@ s2 :> "here"
TwoMachines == s1 :> "here" @@ s2 :> "there"

\* One pattern that everybody wants, or two with nothing in common.
OnePattern == {{a1}}
TwoPatterns == {{a1}, {a2}}
OnlyTheFirst == {{a1}}

Interchangeable == Permutations(Card) \cup Permutations(Message)

\* So are the paths, as long as nobody excludes one of them.
WithPaths == Interchangeable \cup Permutations({a1, a2})

\* With everybody on one machine the sessions are interchangeable too.
AllInterchangeable == Interchangeable \cup Permutations(Session)

=============================================================================
