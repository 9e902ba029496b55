------------------------------- MODULE Mutex -------------------------------
(* What the registry mutex promises its callers (mutex.With): each call waits, *)
(* then either runs its function exactly once or returns an error without      *)
(* running it, and no two calls ever run their functions at the same time.     *)
CONSTANT Call

VARIABLE phase

Init == phase = [c \in Call |-> "waiting"]

\* The call starts its function: only when no other function is running.
Enter(c) ==
    /\ phase[c] = "waiting"
    /\ \A d \in Call : phase[d] # "running"
    /\ phase' = [phase EXCEPT ![c] = "running"]

\* The function is over: it returned, or its process died.
Leave(c) ==
    /\ phase[c] = "running"
    /\ phase' = [phase EXCEPT ![c] = "returned"]

\* The call ends without having run its function (E_MUTEX_TIMEOUT, a crash).
Fail(c) ==
    /\ phase[c] = "waiting"
    /\ phase' = [phase EXCEPT ![c] = "returned"]

Next == \E c \in Call : Enter(c) \/ Leave(c) \/ Fail(c)

Spec == Init /\ [][Next]_phase
=============================================================================
