------------------------------- MODULE Claims -------------------------------
(* The cards on the door: .fridge/claims, leases, inbox and archive, and the      *)
(* commands of internal/commands (claims.go, coord.go) that change them through   *)
(* internal/store. Every command is a process of its own; what it writes it       *)
(* writes inside the registry mutex, which RegistryMutex models and this module   *)
(* takes as given: a command is one step, except where it reads something before  *)
(* it takes the mutex (accept, decline), where time may pass inside (claim), and  *)
(* where the process dies between two of its writes.                              *)
(*                                                                                *)
(* A directory of records is a function whose domain is the set of files in it.   *)
(* A pattern is the set of the paths it can match. Clocks are kept as "how far    *)
(* past its expiry" each card is; the environment ages cards. Notes, tokens, the  *)
(* waiting list and the rendered views are not here.                              *)
EXTENDS Naturals

CONSTANTS Session, Card, Message,
          Pattern,    \* the path patterns in use, each a set of paths
          Excludable, \* those of them that are given to --exclude
          Modes,    \* the claim modes in use, out of AllModes
          HostOf,   \* the machine each session runs on
          None,
          MayForce,    \* whether --force is in use: {FALSE} or BOOLEAN
          Runners,  \* the sessions that use "fridge run"
          Mortal,   \* the sessions that may go away for good
          Faults    \* what may go wrong (see AllFaults)

AllModes  == {"exclusive", "shared", "advisory"}
AllFaults ==
    { "crash",  \* a process dies between two writes of a command
      "lapse" } \* a card crosses an expiry between two reads of one claim

ASSUME ModesAssumption  == Modes \subseteq AllModes
ASSUME ForceAssumption  == MayForce \subseteq BOOLEAN
ASSUME ScopeAssumption  == Excludable \subseteq Pattern
ASSUME NoneAssumption   == None \notin Session \cup Message
ASSUME FaultsAssumption == Faults \subseteq AllFaults

VARIABLES
    door,     \* claims/: the cards that are up
    lease,    \* leases/: whose session wrote the lease of a card
    closed,   \* archive/: how each card ended; "open" when it has no record there
    inbox,    \* inbox/: the offers that lie there
    filed,    \* archive/messages/: how each offer ended; "open" when not there
    answers,  \* the accepts and declines that have read an offer, and not yet acted
    holder,   \* the claim that has swept, and still holds the mutex
    running,  \* the card each "fridge run" works under
    gone      \* the sessions that are never heard of again

cardVars  == <<door, lease, closed>>
offerVars == <<inbox, filed>>
vars == <<cardVars, offerVars, answers, holder, running, gone>>

\* offer and to are None on an active card and set on a handoff-offered one; handed
\* says that handoffHistory is not empty; proc is the process of the record: a
\* command, a "fridge run", or one that has ended; age is 0 until the effective
\* expiry, 1 up to graceMs past it, and 2 later.
Scope      == [include: SUBSET Pattern, exclude: SUBSET Excludable]
CardRecord == [owner: Session, mode: Modes, scope: Scope,
               offer: Message \cup {None}, to: Session \cup {None},
               handed: BOOLEAN, proc: {"command", "run", "ended"}, age: 0..2]
Offer      == [card: Card, to: Session]
Answer     == [who: Session, msg: Message, card: Card, verb: {"accept", "decline"}]
CardEnds   == {"released", "revoked", "expired"}
OfferEnds  == {"accepted", "declined", "withdrawn", "expired"}

TypeOK ==
    /\ DOMAIN door \subseteq Card /\ door \in [DOMAIN door -> CardRecord]
    /\ DOMAIN lease \subseteq Card /\ lease \in [DOMAIN lease -> Session]
    /\ closed \in [Card -> CardEnds \cup {"open"}]
    /\ DOMAIN inbox \subseteq Message /\ inbox \in [DOMAIN inbox -> Offer]
    /\ filed \in [Message -> OfferEnds \cup {"open"}]
    /\ answers \subseteq Answer
    /\ holder \in Session \cup {None}
    /\ running \in [Session -> Card \cup {None}]
    /\ gone \subseteq Session

Init ==
    /\ door = [c \in {} |-> None] /\ lease = [c \in {} |-> None]
    /\ closed = [c \in Card |-> "open"]
    /\ inbox = [m \in {} |-> None]
    /\ filed = [m \in Message |-> "open"]
    /\ answers = {} /\ holder = None
    /\ running = [s \in Session |-> None]
    /\ gone = {}

-----------------------------------------------------------------------------
(* Directories, and the writes of a command. *)

Put(dir, x, rec) == [y \in DOMAIN dir \cup {x} |-> IF y = x THEN rec ELSE dir[y]]
Remove(dir, S)   == [x \in DOMAIN dir \ S |-> dir[x]]

\* How many of its n writes a command gets to make: all, unless the process dies.
Writes(n) == IF "crash" \in Faults THEN 1..n ELSE {n}

\* A process of s takes the mutex and finds nobody in it.
Enter(s) == s \notin gone /\ holder = None

Up          == DOMAIN door
Offered(c)  == door[c].offer # None
OwnCards(s) == {c \in Up : door[c].owner = s}

-----------------------------------------------------------------------------
(* Expiry (store.Decorate), as a process of session s computes it. *)

Expired(c) == door[c].age > 0

OwnerProvablyDead(c, s) ==
    HostOf[door[c].owner] = HostOf[s] /\ door[c].proc = "ended"

\* Mutant of Stale: without the pid's verdict a card never falls off, however old.
StaleOnlyIfDead(c, s) == Expired(c) /\ OwnerProvablyDead(c, s)

Stale(c, s) ==
    \/ door[c].age = 2
    \/ Expired(c) /\ OwnerProvablyDead(c, s)

\* WriteLease on the cards of S: they run again, on a lease in the name of s.
WriteLease(S, s) ==
    /\ lease' = [c \in DOMAIN lease \cup S |-> IF c \in S THEN s ELSE lease[c]]
    /\ door' = [c \in Up |-> IF c \in S THEN [door[c] EXCEPT !.age = 0] ELSE door[c]]

-----------------------------------------------------------------------------
(* Taking cards down (store.ArchiveClaim, store.ReapStale). *)

AllOf(S) == [archived |-> S, down |-> S, done |-> S]

\* Mutant of Torn: the claim is unlinked before its record is in archive/.
TornUnlinkedFirst(S) ==
    IF "crash" \in Faults
    THEN {t \in [archived: SUBSET S, down: SUBSET S, done: SUBSET S] :
             /\ t.done \subseteq t.archived /\ t.archived \subseteq t.down
             /\ \A c, d \in t.down \ t.done : c = d}
    ELSE {AllOf(S)}

\* ArchiveClaim writes archive/, unlinks the claim, then its lease; several cards
\* go one after another. Torn(S) is what of that is done when the process stops:
\* the cards archived, those of them unlinked, and those whose lease is too.
Torn(S) ==
    IF "crash" \in Faults
    THEN {t \in [archived: SUBSET S, down: SUBSET S, done: SUBSET S] :
             /\ t.done \subseteq t.down /\ t.down \subseteq t.archived
             /\ \A c, d \in t.archived \ t.done : c = d}
    ELSE {AllOf(S)}

ArchiveClaims(t, end) ==
    /\ closed' = [c \in Card |-> IF c \in t.archived THEN end[c] ELSE closed[c]]
    /\ door' = Remove(door, t.down)
    /\ lease' = Remove(lease, t.done)

\* Mutant of FallenCards: a card that is offered is spared.
FallenCardsUnoffered(s, force) ==
    {c \in Up : ~Offered(c) /\ (Stale(c, s) \/ (force /\ Expired(c)))}

\* What ReapStale sweeps; with force, what has merely expired too.
FallenCards(s, force) == {c \in Up : Stale(c, s) \/ (force /\ Expired(c))}

ReapStale(t) == ArchiveClaims(t, [c \in Card |-> "expired"])

\* reap and reap --force.
Reap(s, force) ==
    /\ Enter(s)
    /\ \E t \in Torn(FallenCards(s, force)) : ReapStale(t)
    /\ UNCHANGED <<offerVars, answers, holder, running, gone>>

\* How a card ends that s takes down: forcing somebody else's is recorded.
EndBy(s) == [c \in Card |-> IF c \in Up /\ door[c].owner # s THEN "revoked" ELSE "released"]

\* release <id>...: one bad id and nothing is released. With --force anybody's card
\* goes (from another machine with --allow-multihost too, which force stands for).
MayRelease(s, c, force) == force \/ (door[c].owner = s /\ ~Stale(c, s))
Release(s, S, force) ==
    /\ Enter(s)
    /\ S # {} /\ \A c \in S : MayRelease(s, c, force)
    /\ \E t \in Torn(S) : ArchiveClaims(t, EndBy(s))
    /\ UNCHANGED <<offerVars, answers, holder, running, gone>>

\* release --all takes down one's own cards, fallen ones included.
ReleaseAll(s) ==
    /\ Enter(s)
    /\ \E t \in Torn(OwnCards(s)) : ArchiveClaims(t, EndBy(s))
    /\ UNCHANGED <<offerVars, answers, holder, running, gone>>

-----------------------------------------------------------------------------
(* Claiming: sweep, then decide, in one stay inside the mutex. *)

\* (A claim that dies in its sweep has done what a reap that dies does.)
SweepToClaim(s) ==
    /\ Enter(s)
    /\ ReapStale(AllOf(FallenCards(s, FALSE)))
    /\ holder' = s
    /\ UNCHANGED <<offerVars, answers, running, gone>>

ModesCollide(requested, existing) ==
    /\ "advisory" \notin {requested, existing}
    /\ ~(requested = "shared" /\ existing = "shared")

\* ScopesOverlap: two patterns intersect, and neither side excludes the whole of
\* the other's.
Excluded(scope, pattern) == \E e \in scope.exclude : pattern \subseteq e
Overlap(scope, other) ==
    \E p \in scope.include, q \in other.include :
        p \cap q # {} /\ ~Excluded(scope, q) /\ ~Excluded(other, p)

\* Mutant of HeldStates: an offered card no longer holds its slot.
HeldStatesUnoffered == {"active"}

HeldStates == {"active", "handoff-offered"}

State(c)  == IF Offered(c) THEN "handoff-offered" ELSE "active"
IsHeld(c) == State(c) \in HeldStates

Existing(s) == {c \in Up : ~Stale(c, s) /\ IsHeld(c)}

Conflicts(s, mode, scope) ==
    {c \in Existing(s) : /\ door[c].owner # s
                         /\ ModesCollide(mode, door[c].mode)
                         /\ Overlap(scope, door[c].scope)}

MineOverlapping(s, mode, scope) ==
    {c \in Existing(s) : /\ door[c].owner = s /\ door[c].mode = mode
                         /\ Overlap(scope, door[c].scope)}

\* Somebody already has that chore: nothing is written.
Denied(s, mode, scope) ==
    /\ holder = s
    /\ Conflicts(s, mode, scope) # {}
    /\ holder' = None
    /\ UNCHANGED <<cardVars, offerVars, answers, running, gone>>

\* Nobody else is in the way and the session has a card there (the oldest such; any
\* of them here): its patterns are joined by the request's, but its own --exclude
\* stays and the request's is dropped. Its lease is the second write. A "run" goes
\* on under that card.
Merge(s, mode, scope, c, run) ==
    /\ holder = s
    /\ Conflicts(s, mode, scope) = {}
    /\ c \in MineOverlapping(s, mode, scope)
    /\ \E k \in Writes(2) :
         /\ door' = [door EXCEPT ![c].scope.include = @ \cup scope.include,
                                 ![c].age = IF k = 2 THEN 0 ELSE @]
         /\ lease' = IF k = 2 THEN Put(lease, c, s) ELSE lease
         /\ running' = IF run /\ k = 2 THEN [running EXCEPT ![s] = c] ELSE running
    /\ holder' = None
    /\ UNCHANGED <<closed, offerVars, answers, gone>>

\* A card with a new id: no file ever had it.
Fresh(c) == c \notin Up /\ closed[c] = "open"

\* It goes up if nobody is in the way and there is nothing to merge into, or --strict.
TakeCard(s, mode, scope, c, strict, run) ==
    /\ holder = s
    /\ Conflicts(s, mode, scope) = {}
    /\ strict \/ MineOverlapping(s, mode, scope) = {}
    /\ Fresh(c)
    /\ \E k \in Writes(2) :
         /\ door' = Put(door, c, [owner |-> s, mode |-> mode, scope |-> scope,
                                  offer |-> None, to |-> None, handed |-> FALSE, age |-> 0,
                                  proc |-> IF run THEN "run" ELSE "command"])
         /\ lease' = IF k = 2 THEN Put(lease, c, s) ELSE lease
         /\ running' = IF run /\ k = 2 THEN [running EXCEPT ![s] = c] ELSE running
    /\ holder' = None
    /\ UNCHANGED <<closed, offerVars, answers, gone>>

Decide(s) ==
    \E mode \in Modes, scope \in {x \in Scope : x.include # {}} :
        \/ Denied(s, mode, scope)
        \/ \E c \in Card, run \in BOOLEAN :
             /\ run => s \in Runners /\ running[s] = None
             /\ \/ Merge(s, mode, scope, c, run)
                \/ \E strict \in BOOLEAN :
                      (run => ~strict) /\ TakeCard(s, mode, scope, c, strict, run)

\* The claim ends with an error (a scope that cannot be built or compared), or its
\* process dies and the lock is broken for it: nothing but the sweep is written.
ClaimFails(s) ==
    /\ holder = s
    /\ holder' = None
    /\ UNCHANGED <<cardVars, offerVars, answers, running, gone>>

-----------------------------------------------------------------------------
(* Renewing. *)

\* heartbeat: of the cards asked for, one stale card and none is renewed. (A process
\* that dies half way has renewed fewer of them: a heartbeat for a smaller S.)
Heartbeat(s, S) ==
    /\ Enter(s)
    /\ S # {} /\ S \subseteq OwnCards(s)
    /\ \A c \in S : ~Stale(c, s)
    /\ WriteLease(S, s)
    /\ UNCHANGED <<closed, offerVars, answers, holder, running, gone>>

\* Any command renews the cards of its session that are still good and whose lease
\* is more than half used up: the expired ones, and perhaps others.
RenewOwnLeases(s) ==
    /\ Enter(s)
    /\ \E S \in SUBSET {c \in OwnCards(s) : ~Stale(c, s)} :
         /\ \A c \in OwnCards(s) : Expired(c) /\ ~Stale(c, s) => c \in S
         /\ WriteLease(S, s)
    /\ UNCHANGED <<closed, offerVars, answers, holder, running, gone>>

\* extend asks who owns the card, and not whether it has fallen off.
Extend(s, c) ==
    /\ Enter(s)
    /\ c \in OwnCards(s)
    /\ WriteLease({c}, s)
    /\ UNCHANGED <<closed, offerVars, answers, holder, running, gone>>

\* Mutant of RunHeartbeat: it does not look whether the card is still there.
RunHeartbeatUnread(s) ==
    /\ Enter(s)
    /\ running[s] # None
    /\ WriteLease({running[s]}, s)
    /\ UNCHANGED <<closed, offerVars, answers, holder, running, gone>>

\* The ticker of "fridge run" asks only whether the card is there.
RunHeartbeat(s) ==
    /\ Enter(s)
    /\ running[s] \in Up
    /\ WriteLease({running[s]}, s)
    /\ UNCHANGED <<closed, offerVars, answers, holder, running, gone>>

\* The child is done and the ticker stopped: the card is released as release would,
\* or it stays, with --keep-on-failure or because release refuses or gets no mutex.
RunEnds(s) ==
    /\ s \notin gone
    /\ running[s] # None
    /\ \/ /\ holder = None
          /\ running[s] \in Up /\ MayRelease(s, running[s], FALSE)
          /\ \E t \in Torn({running[s]}) : ArchiveClaims(t, EndBy(s))
       \/ UNCHANGED cardVars
    /\ running' = [running EXCEPT ![s] = None]
    /\ UNCHANGED <<offerVars, answers, holder, gone>>

-----------------------------------------------------------------------------
(* Handing over: handoff, accept, decline. *)

\* ArchiveMessage writes archive/messages/, then deletes the offer from the inbox.
FileOffer(m, end, k) ==
    /\ filed' = [filed EXCEPT ![m] = end]
    /\ inbox' = IF k = 2 THEN Remove(inbox, {m}) ELSE inbox

\* Mutant of Prior: a second offer leaves the first one lying in its inbox.
PriorForgotten(c) == {}

\* The offer that is open on c, as FindMessage finds it (at most one).
Prior(c) == {m \in {door[c].offer} \cap DOMAIN inbox : inbox[m].to = door[c].to}

\* A message with a new id.
NewMessage(m) == m \notin DOMAIN inbox /\ filed[m] = "open" /\ \A a \in answers : a.msg # m

\* handoff: the card is read again inside the mutex and still the caller's (or
\* --force). Writes: withdraw the prior offer (two), deliver the new one, offer.
Handoff(s, c, m, to, force) ==
    /\ Enter(s)
    /\ c \in Up /\ (force \/ door[c].owner = s)
    /\ NewMessage(m)
    /\ \E k \in Writes(4) :
         /\ Prior(c) = {} => k > 2
         /\ filed' = [p \in Message |-> IF p \in Prior(c) THEN "withdrawn" ELSE filed[p]]
         /\ inbox' = LET kept == IF k = 1 THEN inbox ELSE Remove(inbox, Prior(c))
                     IN IF k > 2 THEN Put(kept, m, [card |-> c, to |-> to]) ELSE kept
         /\ door' = IF k = 4 THEN [door EXCEPT ![c].offer = m, ![c].to = to] ELSE door
    /\ UNCHANGED <<lease, closed, answers, holder, running, gone>>

\* accept and decline find the offer before they ask for the mutex.
FindOffer(s, m, verb) ==
    /\ s \notin gone
    /\ m \in DOMAIN inbox /\ inbox[m].to = s
    /\ answers' = answers \cup {[who |-> s, msg |-> m, card |-> inbox[m].card, verb |-> verb]}
    /\ UNCHANGED <<cardVars, offerVars, holder, running, gone>>

Acts(a) == Enter(a.who) /\ a \in answers /\ answers' = answers \ {a}

\* Mutant of OfferIsLive: the card is offered, to somebody; nothing is asked.
OfferIsLiveForAnybody(c, m, s) == c \in Up /\ Offered(c)

\* Only the card says which offer is open, and to whom.
OfferIsLive(c, m, s) == c \in Up /\ door[c].offer = m /\ door[c].to = s

\* The card changes hands: claim, lease, and then the offer is filed.
Accept(a) ==
    /\ Acts(a) /\ a.verb = "accept"
    /\ OfferIsLive(a.card, a.msg, a.who)
    /\ \E k \in Writes(4) :
         /\ door' = [door EXCEPT ![a.card].owner = a.who, ![a.card].proc = "command",
                                 ![a.card].offer = None, ![a.card].to = None,
                                 ![a.card].handed = TRUE,
                                 ![a.card].age = IF k > 1 THEN 0 ELSE @]
         /\ lease' = IF k > 1 THEN Put(lease, a.card, a.who) ELSE lease
         /\ IF k > 2 THEN FileOffer(a.msg, "accepted", k - 2) ELSE UNCHANGED offerVars
    /\ UNCHANGED <<closed, holder, running, gone>>

\* The card is gone, or that offer is no longer open.
AcceptTooLate(a) ==
    /\ Acts(a) /\ a.verb = "accept"
    /\ ~OfferIsLive(a.card, a.msg, a.who)
    /\ \E k \in Writes(2) : FileOffer(a.msg, "expired", k)
    /\ UNCHANGED <<cardVars, holder, running, gone>>

\* decline clears the card only if the offer on it is the one declined; the offer
\* is filed as declined either way.
Decline(a) ==
    /\ Acts(a) /\ a.verb = "decline"
    /\ IF a.card \in Up /\ door[a.card].offer = a.msg
       THEN \E k \in Writes(3) :
              /\ door' = [door EXCEPT ![a.card].offer = None, ![a.card].to = None]
              /\ IF k > 1 THEN FileOffer(a.msg, "declined", k - 1) ELSE UNCHANGED offerVars
       ELSE (\E k \in Writes(2) : FileOffer(a.msg, "declined", k)) /\ UNCHANGED door
    /\ UNCHANGED <<lease, closed, holder, running, gone>>

-----------------------------------------------------------------------------
(* The environment. *)

\* Time passes between commands, and inside a claim only under "lapse".
Idle == holder = None \/ "lapse" \in Faults

\* A card crosses its expiry, or the end of its grace.
AgeCard(c) ==
    /\ Idle
    /\ c \in Up /\ door[c].age < 2
    /\ door' = [door EXCEPT ![c].age = @ + 1]
    /\ UNCHANGED <<lease, closed, offerVars, answers, holder, running, gone>>

\* The process whose pid the card records is over: a command is, as soon as it has
\* answered; a run, when its child is.
ProcessEnds(c) ==
    /\ Idle
    /\ c \in Up
    /\ \/ door[c].proc = "command"
       \/ door[c].proc = "run" /\ \A s \in Session : running[s] # c
    /\ door' = [door EXCEPT ![c].proc = "ended"]
    /\ UNCHANGED <<lease, closed, offerVars, answers, holder, running, gone>>

\* A session is never heard of again, whatever it was doing.
Vanish(s) ==
    /\ s \in Mortal \ gone
    /\ gone' = gone \cup {s}
    /\ holder' = IF holder = s THEN None ELSE holder
    /\ answers' = {a \in answers : a.who # s}
    /\ running' = [running EXCEPT ![s] = None]
    /\ UNCHANGED <<cardVars, offerVars>>

-----------------------------------------------------------------------------

Claiming(s) == SweepToClaim(s) \/ Decide(s) \/ ClaimFails(s)

TakingDown(s) ==
    \/ \E force \in MayForce : Reap(s, force)
    \/ \E S \in SUBSET Up, force \in MayForce : Release(s, S, force)
    \/ ReleaseAll(s)
    \/ RunEnds(s)

Renewing(s) ==
    \/ \E S \in SUBSET Up : Heartbeat(s, S)
    \/ RenewOwnLeases(s)
    \/ \E c \in Up : Extend(s, c)
    \/ RunHeartbeat(s)

Offering(s) ==
    \/ \E c \in Up, m \in Message, to \in Session, force \in MayForce :
           Handoff(s, c, m, to, force)
    \/ \E m \in DOMAIN inbox, verb \in {"accept", "decline"} : FindOffer(s, m, verb)

Commands == \E s \in Session : Claiming(s) \/ TakingDown(s) \/ Renewing(s) \/ Offering(s)

Answers == \E a \in answers : Accept(a) \/ AcceptTooLate(a) \/ Decline(a)

Environment ==
    \/ \E c \in Up : AgeCard(c) \/ ProcessEnds(c)
    \/ \E s \in Session : Vanish(s)

Next == Commands \/ Answers \/ Environment

Spec == Init /\ [][Next]_vars

\* Time passes whatever the commands do; a claim inside the mutex goes on to its
\* decision; a child comes to its end; and the housemates that stay keep working,
\* so that now and then one of them sweeps.
Fairness ==
    /\ \A c \in Card : SF_vars(c \in Up /\ AgeCard(c))
    /\ \A s \in Session : WF_vars(Decide(s) \/ ClaimFails(s)) /\ WF_vars(RunEnds(s))
    /\ \A s \in Session \ Mortal : WF_vars(Reap(s, FALSE))

FairSpec == Spec /\ Fairness

-----------------------------------------------------------------------------
(* What the door promises. *)

\* Two cards that are up and cannot both be: another owner, modes that collide,
\* and scopes that overlap.
Clash(c, d) ==
    /\ door[c].owner # door[d].owner
    /\ ModesCollide(door[c].mode, door[d].mode)
    /\ Overlap(door[c].scope, door[d].scope)

\* Invariant I4 as the protocol states it: no two cards of different sessions
\* overlap, unless their modes tolerate each other (ModesCollide, cmdClaim).
NoTwoOwners == \A c, d \in Up : ~Clash(c, d)

\* What cmdClaim makes of it: of two cards that clash, one came to its owner by a
\* handoff. A claim, a merge, a late sweep and a crash never put two side by side.
NoTwoOwnersUnlessHanded ==
    \A c, d \in Up : Clash(c, d) => door[c].handed \/ door[d].handed

\* While a claim decides, it has everybody's stale cards behind it: the cards it
\* leaves out of its conflict check are not there (ReapStale before the listing).
NothingStaleInsideClaim ==
    holder # None => \A c \in Up : ~Stale(c, holder)

\* The inductive invariant behind NoTwoOwnersUnlessHanded.
ClaimsInv == TypeOK /\ NothingStaleInsideClaim /\ NoTwoOwnersUnlessHanded

\* Nothing is lost when a process dies: a card that left a lease behind is up or in
\* archive/, and the offer a card names is in an inbox or has its end on record
\* (ArchiveClaim, ArchiveMessage and cmdHandoff write before they unlink).
NothingLost ==
    /\ \A c \in DOMAIN lease : c \in Up \/ closed[c] # "open"
    /\ \A c \in Up : Offered(c) =>
           door[c].offer \in DOMAIN inbox \/ filed[door[c].offer] # "open"

\* A lease without a card is never left behind, nor a card without a lease: no
\* heartbeat recreates a lease after the release (cmdRun, RenewOwnLeases).
LeasesMatchCards == DOMAIN lease = Up

\* A card that is up is offered exactly when its offer lies in the inbox of the one
\* it names, and no other offer of it lies anywhere (cmdHandoff withdraws the prior
\* one; cmdAccept and cmdDecline clear the card together with the message).
OneOpenOffer ==
    \A c \in Up :
        {m \in DOMAIN inbox : inbox[m].card = c}
          = {m \in {door[c].offer} : m # None /\ inbox[m].to = door[c].to}

\* Why that is so as long as no process dies: an offer in an inbox has no end on record,
\* and is the one its card names, if the card is up; a card that is not up yet was never
\* offered; and an answer under way is to the offer that still has its message.
OffersInv ==
    /\ TypeOK /\ LeasesMatchCards
    /\ \A c \in Up : Offered(c) =>
           /\ door[c].offer \in DOMAIN inbox
           /\ inbox[door[c].offer] = [card |-> c, to |-> door[c].to]
    /\ \A m \in DOMAIN inbox :
           /\ filed[m] = "open" /\ ~Fresh(inbox[m].card)
           /\ inbox[m].card \in Up => door[inbox[m].card].offer = m
    /\ \A a \in answers :
           a.msg \in DOMAIN inbox => inbox[a.msg] = [card |-> a.card, to |-> a.who]

\* A card changes hands only by an offer that lies unanswered in the inbox of the
\* new owner, and that offer is used up by it: an old invitation cannot move the
\* card a second time (cmdAccept).
HandsChangeByOpenOffer ==
    [][\A c \in Up \cap Up' : door'[c].owner # door[c].owner =>
            \E m \in DOMAIN inbox \ DOMAIN inbox' :
                /\ inbox[m] = [card |-> c, to |-> door'[c].owner]
                /\ filed[m] = "open" /\ filed'[m] = "accepted"]_vars

\* The record of how an offer ended is written once (store.ArchiveMessage).
OfferEndsOnce ==
    [][\A m \in Message : filed[m] # "open" => filed'[m] = filed[m]]_vars

\* The card of a session that never comes back does not stay its card: somebody
\* else's command takes it down, or it is handed over (ReapStale, no daemon).
Abandoned(c) == c \in Up /\ door[c].owner \in gone
AbandonedCardsFall == \A c \in Card : Abandoned(c) ~> ~Abandoned(c)

\* The door as those see it who do not know how its files are written: the cards that are
\* up, and those that ended.
Works == {[mode |-> m, scope |-> x] : m \in Modes, x \in Scope}
WorksCollide(v, w) == ModesCollide(v.mode, w.mode) /\ Overlap(v.scope, w.scope)
Seen ==
    [c \in Up |-> [owner |-> door[c].owner, to |-> door[c].to,
                   work |-> [mode |-> door[c].mode, scope |-> door[c].scope]]]
Ended == {c \in Card \ Up : closed[c] # "open"}

Abstract == INSTANCE Door WITH Work <- Works, Collide <- WorksCollide, up <- Seen, over <- Ended

\* The commands, interleaved and cut short at any write, are the door of Door: a claim that
\* leaves stale cards out of its conflict check has swept them, a card moves only to the
\* one it is offered to last, and none comes back (cmdClaim, cmdAccept, ArchiveClaim).
ImplementsDoor == Abstract!Spec

=============================================================================
