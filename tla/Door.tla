-------------------------------- MODULE Door --------------------------------
(* What the cards on the door promise to those who read them (fridge claim,     *)
(* handoff, accept, release): a card goes up once, in nobody's way, moves only  *)
(* to the one it is offered to, and comes down for good.                        *)
CONSTANTS Session, Card, None,
          Work,          \* what a card can be about
          Collide(_, _)  \* two works that two sessions cannot both do

VARIABLES
    up,   \* of each card that is up: its owner, its work, and whom it is offered to
    over  \* the cards that were up

vars == <<up, over>>

Init == up = [c \in {} |-> None] /\ over = {}

\* A card that was never up goes up, in nobody's way but its owner's.
Take(c, s, w) ==
    /\ c \notin DOMAIN up \cup over
    /\ \A d \in DOMAIN up : up[d].owner # s => ~Collide(w, up[d].work)
    /\ up' = [d \in DOMAIN up \cup {c} |->
                 IF d = c THEN [owner |-> s, work |-> w, to |-> None] ELSE up[d]]
    /\ UNCHANGED over

\* The card is about other work from now on, which is in the way only of cards that it
\* was in the way of already.
Widen(c, w) ==
    /\ c \in DOMAIN up
    /\ \A d \in DOMAIN up :
          up[d].owner # up[c].owner /\ Collide(w, up[d].work) => Collide(up[c].work, up[d].work)
    /\ up' = [up EXCEPT ![c].work = w]
    /\ UNCHANGED over

\* The card is offered to somebody, or to nobody any more.
Offer(c, to) ==
    /\ c \in DOMAIN up
    /\ up' = [up EXCEPT ![c].to = to]
    /\ UNCHANGED over

\* It changes hands: nobody but the one it is offered to can get it.
Accept(c) ==
    /\ c \in DOMAIN up /\ up[c].to # None
    /\ up' = [up EXCEPT ![c] = [owner |-> @.to, work |-> @.work, to |-> None]]
    /\ UNCHANGED over

\* Cards come down, and are over.
End(S) ==
    /\ S \subseteq DOMAIN up
    /\ up' = [c \in DOMAIN up \ S |-> up[c]]
    /\ over' = over \cup S

Next ==
    \/ \E S \in SUBSET DOMAIN up : End(S)
    \/ \E c \in Card \ (DOMAIN up \cup over), s \in Session, w \in Work : Take(c, s, w)
    \/ \E c \in DOMAIN up :
        \/ Accept(c)
        \/ \E to \in Session \cup {None} : Offer(c, to)
        \/ \E w \in Work : Widen(c, w)

Spec == Init /\ [][Next]_vars
=============================================================================
