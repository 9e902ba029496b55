------------------------------- MODULE Upkeep -------------------------------
(* What keeps the door tidy: the sweep, the waiting list, the rendered view        *)
(* DOOR.md and doctor --fix (internal/store, internal/render, internal/commands),  *)
(* on the files of .fridge/ as they are, damaged records included. Commands run as *)
(* the list of the steps that are left of them, and doctor adds the repairs of     *)
(* what it found to its own: between the two anything may happen. Who owns a card, *)
(* and what it covers, is in Claims; the mutex is atomic here (RegistryMutex).     *)
EXTENDS Naturals, Sequences, FiniteSets, SequencesExt

CONSTANTS Process, Card, Entry, None,
          MaxNotes   \* no command starts once so many notes and leases were written

ASSUME NoneAssumption == None \notin Process \cup Card \cup Entry \cup {"recent", "dead"}
ASSUME ProcessAssumption == "recent" \notin Process /\ "dead" \notin Process
\* A directory lists finitely many files.
ASSUME FilesAssumption == IsFiniteSet(Card) /\ IsFiniteSet(Entry)

VARIABLES
    claim,   \* claims/: of each card, its file
    lease,   \* leases/: the same
    queue,   \* queue/: of each entry, the card it waits for
    notes,   \* how often something else that DOOR.md shows was written
    door,    \* DOOR.md: the snapshot it was rendered from
    junk,    \* tmp/ holds files of writes that never ended
    mutex,   \* the process that holds the registry mutex; "dead" when it is gone and the lock
             \* can be broken, "recent" as long as that cannot be told (no owner.json, or the
             \* one of another machine)
    proc,    \* what each process has in memory
    \* ... and what is only here to state the properties:
    kept,    \* the cards whose owner has reason to think that it has them
    stray,   \* the entries that the end of their card will not clear any more
    behind,  \* DOOR.md is out of date, and it is known why
    alone    \* a doctor that has had the workspace to itself so far

vars == <<claim, lease, queue, notes, door, junk, mutex, proc, kept, stray, behind, alone>>
files == <<claim, lease, queue, notes, door, junk>>

\* A record is "old" once the expiry in it is past and its grace too. A card that was up
\* is "down", in archive/, or "moved", in quarantine/: its id is not used again.
Readable == {"fresh", "old"}
ClaimFile == Readable \cup {"torn", "unused", "down", "moved"}
LeaseFile == Readable \cup {"torn", "none"}

There(c) == claim[c] \in Readable \cup {"torn"}
Up(c) == claim[c] \in Readable

\* Decorate: the lease decides, if it can be read, or else the card's first expiry.
Stale(c) == Up(c) /\ (IF lease[c] \in Readable THEN lease[c] ELSE claim[c]) = "old"

\* ListClaimsStrict refuses to answer.
Unreadable == \E c \in Card : claim[c] = "torn"

\* Snapshot, StateKeyOf: what DOOR.md shows, and what its state key is a hash of.
Snapshot ==
    [ cards |-> {c \in Card : Up(c) /\ ~Stale(c)}, torn |-> {c \in Card : claim[c] = "torn"},
      waiting |-> Cardinality(DOMAIN queue), notes |-> notes ]

Snapshots == [cards : SUBSET Card, torn : SUBSET Card, waiting : 0..Cardinality(Entry), notes : Nat]

Verb == { "lock", "unlock", "sweep", "reap", "decide", "save", "lease", "pin", "join", "leave", "snap",
          "door", "check", "read", "down", "drop", "clear", "renew", "beat", "scan", "moveclaim",
          "movelease", "mend", "orphan", "tmp", "break", "report" }
Memory == [ todo : Seq(Verb \X (Card \cup {None})), seen : Snapshots \cup {None}, staged : BOOLEAN,
            tries : Nat, rounds : Nat, entry : Entry \cup {None} ]

TypeOK ==
    /\ claim \in [Card -> ClaimFile] /\ lease \in [Card -> LeaseFile]
    /\ DOMAIN queue \subseteq Entry /\ queue \in [DOMAIN queue -> Card]
    /\ notes \in Nat /\ door \in Snapshots \cup {None} /\ junk \in BOOLEAN
    /\ mutex \in Process \cup {None, "recent", "dead"}
    /\ proc \in [Process -> Memory]
    /\ kept \subseteq Card /\ stray \subseteq Entry
    /\ behind \in BOOLEAN /\ alone \in Process \cup {None}

Idle == [todo |-> <<>>, seen |-> None, staged |-> FALSE, tries |-> 0, rounds |-> 0, entry |-> None]

\* Whatever crashes, hands and disks have made of the workspace: torn records, leases
\* without a card, cards without a lease, staged files, a lock nobody holds.
Init ==
    /\ claim \in [Card -> {"unused", "fresh", "old", "torn", "down"}] /\ lease \in [Card -> LeaseFile]
    /\ \A c \in Card : claim[c] = "unused" => lease[c] = "none"
    /\ queue = [e \in {} |-> None] /\ notes = 0
    /\ door = None /\ junk \in BOOLEAN
    /\ mutex \in {None, "recent", "dead"}
    /\ proc = [p \in Process |-> Idle]
    /\ kept = {} /\ stray = {} /\ behind = TRUE /\ alone = None

-----------------------------------------------------------------------------
(* Commands, as the steps they take. *)

A(verb) == <<verb, None>>

\* A step for each of some cards, in an order of its own.
ForEach(verb, cards) ==
    LET order == SetToSeq(cards) IN [i \in 1..Len(order) |-> <<verb, order[i]>>]

Render == << A("snap"), A("door"), A("check") >>

\* Mutant of Archive: the waiting list is cleared before the card is gone.
ArchiveClearFirst(c) == << <<"clear", c>>, <<"down", c>>, <<"drop", c>>, A("pin") >>

Archive(c) == << <<"down", c>>, <<"drop", c>>, <<"clear", c>>, A("pin") >>

\* Mutant of TakeSteps: the lease is written before the card is.
TakeStepsLeaseFirst(c) == << <<"lease", c>>, <<"save", c>>, A("pin"), A("unlock") >> \o Render

TakeSteps(c) == << <<"save", c>>, <<"lease", c>>, A("pin"), A("unlock") >> \o Render
DeniedSteps == << A("unlock"), A("pin") >> \o Render
QueuedSteps(c) == << A("unlock"), A("pin"), <<"join", c>>, A("pin") >> \o Render

HeartbeatSteps(c) == << A("lock"), <<"renew", c>>, A("unlock") >> \o Render
RenewSteps(c) == << A("lock"), <<"renew", c>> >> \o Render \o << A("unlock") >>
RunBeatSteps(c) == << A("lock"), <<"beat", c>>, A("unlock") >>
ClaimSteps == << A("lock"), A("sweep"), A("decide") >>
ReleaseSteps(c) == << A("lock"), <<"read", c>> >> \o Archive(c) \o << A("unlock") >> \o Render

\* Mutant of SweepSteps: the sweep runs outside of the mutex.
SweepStepsUnlocked == << A("sweep") >>

SweepSteps == << A("lock"), A("sweep"), A("unlock") >>
ReapSteps == SweepSteps \o Render
PinSteps == << A("pin") >> \o Render
WaitSteps(c) == << <<"join", c>>, A("leave") >>

Busy(p) == proc[p].todo # <<>>

\* What a command does before it has the mutex changes nothing here: it starts with it.
Begin(p, steps) ==
    /\ ~Busy(p) /\ notes < MaxNotes
    /\ IF Head(steps) = A("lock")
       THEN mutex \in {None, "dead"} /\ mutex' = p /\ proc' = [proc EXCEPT ![p].todo = Tail(steps)]
       ELSE UNCHANGED mutex /\ proc' = [proc EXCEPT ![p].todo = steps]
    /\ UNCHANGED <<files, kept, stray>>

Command(p) ==
    \/ Begin(p, ClaimSteps) \/ Begin(p, ReapSteps) \/ Begin(p, PinSteps)
    \/ \E c \in Card :
        \/ claim[c] # "unused" /\ \E steps \in {ReleaseSteps(c), HeartbeatSteps(c), RunBeatSteps(c)} :
              Begin(p, steps)
        \/ Up(c) /\ \E steps \in {RenewSteps(c), WaitSteps(c)} : Begin(p, steps)

\* Mutant of DoctorPasses: one round of repairs.
DoctorPassesOnce == 1

\* Repairing one thing uncovers the next: four rounds of doctor --fix.
DoctorPasses == 4

Doctor(p) ==
    /\ ~Busy(p) /\ notes < MaxNotes
    /\ proc' = [proc EXCEPT ![p] = [Idle EXCEPT !.todo = << A("scan") >>, !.rounds = DoctorPasses + 1]]
    /\ UNCHANGED <<files, mutex, kept, stray>>

-----------------------------------------------------------------------------
(* The steps of the commands. *)

Takes(p, verb, c) == Busy(p) /\ Head(proc[p].todo) = <<verb, c>>
Rest(p) == Tail(proc[p].todo)

\* The process goes on with mem in its memory: with nothing, at its end.
GoesOn(p, mem) == proc' = [proc EXCEPT ![p] = IF mem.todo = <<>> THEN Idle ELSE mem]
GoesTo(p, todo) == GoesOn(p, [proc[p] EXCEPT !.todo = todo])
Done(p) == GoesTo(p, Rest(p))

\* An error: the deferred unlock is all that still happens.
Fails(p) == GoesTo(p, IF mutex = p THEN << A("unlock") >> ELSE <<>>)

Lock(p) ==
    /\ Takes(p, "lock", None) /\ Done(p) /\ mutex \in {None, "dead"}
    /\ mutex' = p
    /\ UNCHANGED <<files, kept, stray>>

Unlock(p) ==
    /\ Takes(p, "unlock", None) /\ Done(p)
    /\ mutex' = None
    /\ UNCHANGED <<files, kept, stray>>

\* ReapStale: what is stale now, is archived card by card.
Sweep(p) ==
    /\ Takes(p, "sweep", None)
    /\ IF Unreadable THEN Fails(p) ELSE GoesTo(p, ForEach("reap", {c \in Card : Stale(c)}) \o Rest(p))
    /\ UNCHANGED <<files, mutex, kept, stray>>

Reap(p, c) ==
    /\ Takes(p, "reap", c) /\ GoesTo(p, Archive(c) \o Rest(p))
    /\ UNCHANGED <<files, mutex, kept, stray>>

\* claim takes a card of a new id, or is denied by one, and queues for that one or not.
Decide(p) ==
    /\ Takes(p, "decide", None)
    /\ \E c \in Card :
        \/ claim[c] = "unused" /\ GoesTo(p, TakeSteps(c))
        \/ Up(c) /\ ~Stale(c) /\ \E steps \in {DeniedSteps, QueuedSteps(c)} : GoesTo(p, steps)
    /\ UNCHANGED <<files, mutex, kept, stray>>

\* ... or it fails, with a sweep behind it: a name that is none, an overlap that cannot be
\* decided, a list of cards that cannot be read.
ClaimFails(p) ==
    /\ Takes(p, "decide", None) /\ Fails(p)
    /\ UNCHANGED <<files, mutex, kept, stray>>

SaveClaim(p, c) ==
    /\ Takes(p, "save", c) /\ Done(p)
    /\ claim' = [claim EXCEPT ![c] = "fresh"]
    /\ UNCHANGED <<lease, queue, notes, door, junk, mutex, kept, stray>>

\* The owner has written its lease, or doctor has done so for it.
WriteLease(c) ==
    /\ lease' = [lease EXCEPT ![c] = "fresh"] /\ notes' = notes + 1
    /\ UNCHANGED <<claim, queue, door, junk, mutex, stray>>

LeaseCard(p, c) ==
    /\ Takes(p, "lease", c) /\ Done(p) /\ WriteLease(c)
    /\ kept' = IF proc[p].rounds > 0 THEN kept ELSE kept \cup {c}

\* heartbeat and RenewOwnLeases leave a stale card alone; the heartbeat of run does not.
Renew(p, c) ==
    /\ Takes(p, "renew", c) /\ ~Unreadable /\ Up(c) /\ ~Stale(c)
    /\ Done(p) /\ WriteLease(c) /\ kept' = kept \cup {c}

RunBeat(p, c) ==
    /\ Takes(p, "beat", c) /\ Up(c)
    /\ Done(p) /\ WriteLease(c) /\ kept' = kept \cup {c}

\* release: from here on the owner does not count on its card.
ReadOwn(p, c) ==
    /\ Takes(p, "read", c) /\ Up(c) /\ Done(p)
    /\ kept' = kept \ {c}
    /\ UNCHANGED <<files, mutex, stray>>

Refuse(p) ==
    /\ \E c \in Card :
        \/ Takes(p, "renew", c) /\ (Unreadable \/ ~Up(c) \/ Stale(c))
        \/ (Takes(p, "beat", c) \/ Takes(p, "read", c)) /\ ~Up(c)
        \/ Takes(p, "mend", c) /\ claim[c] = "torn"
    /\ Fails(p)
    /\ UNCHANGED <<files, mutex, kept, stray>>

\* ArchiveClaim: the card, its lease, then its waiters.
TakeDown(p, c) ==
    /\ Takes(p, "down", c) /\ Done(p)
    /\ claim' = [claim EXCEPT ![c] = IF There(c) THEN "down" ELSE @]
    /\ UNCHANGED <<lease, queue, notes, door, junk, mutex, kept, stray>>

DropLease(p, c) ==
    /\ Takes(p, "drop", c) /\ Done(p)
    /\ lease' = [lease EXCEPT ![c] = "none"]
    /\ UNCHANGED <<claim, queue, notes, door, junk, mutex, kept, stray>>

Without(entries) == [e \in DOMAIN queue \ entries |-> queue[e]]

ClearQueueFor(p, c) ==
    /\ Takes(p, "clear", c) /\ Done(p)
    /\ queue' = Without({e \in DOMAIN queue : queue[e] = c}) /\ stray' = stray \cap DOMAIN queue'
    /\ UNCHANGED <<claim, lease, notes, door, junk, mutex, kept>>

Pin(p) ==
    /\ Takes(p, "pin", None) /\ Done(p)
    /\ notes' = notes + 1
    /\ UNCHANGED <<claim, lease, queue, door, junk, mutex, kept, stray>>

\* WriteQueueEntry: the card was there when it was read.
JoinQueue(p, c, e) ==
    /\ Takes(p, "join", c) /\ e \notin DOMAIN queue
    /\ GoesOn(p, [proc[p] EXCEPT !.todo = Rest(p), !.entry = e])
    /\ queue' = [x \in DOMAIN queue \cup {e} |-> IF x = e THEN c ELSE queue[x]]
    /\ stray' = IF There(c) THEN stray ELSE stray \cup {e}
    /\ UNCHANGED <<claim, lease, notes, door, junk, mutex, kept>>

\* wait has its answer, or no more time.
LeaveQueue(p) ==
    /\ Takes(p, "leave", None) /\ Done(p)
    /\ queue' = Without({proc[p].entry}) /\ stray' = stray \cap DOMAIN queue'
    /\ UNCHANGED <<claim, lease, notes, door, junk, mutex, kept>>

-----------------------------------------------------------------------------
(* render.Auto: take a snapshot, write it, look again; three times at most. *)

TakeSnapshot(p) ==
    /\ Takes(p, "snap", None)
    /\ GoesOn(p, [proc[p] EXCEPT !.todo = Rest(p), !.seen = Snapshot, !.staged = TRUE])
    /\ UNCHANGED <<files, mutex, kept, stray>>

WriteDoor(p) ==
    /\ Takes(p, "door", None) /\ proc[p].staged /\ Done(p)
    /\ door' = proc[p].seen
    /\ UNCHANGED <<claim, lease, queue, notes, junk, mutex, kept, stray>>

\* The staged file is gone. Nobody hears of it, but from doctor.
DoorFails(p) ==
    /\ Takes(p, "door", None) /\ ~proc[p].staged
    /\ IF proc[p].rounds > 0 THEN Fails(p) ELSE GoesTo(p, Tail(Rest(p)))
    /\ UNCHANGED <<files, mutex, kept, stray>>

\* Mutant of Converged: the door is written once and not looked at again.
ConvergedAtOnce(p) == TRUE

Converged(p) == proc[p].seen = Snapshot

Attempts == 3

Forgets(p) == GoesOn(p, [Idle EXCEPT !.todo = Rest(p)])

LookAgain(p) ==
    /\ Takes(p, "check", None) /\ ~Converged(p) /\ proc[p].tries + 1 < Attempts
    /\ GoesOn(p, [proc[p] EXCEPT !.todo = Render \o Rest(p), !.tries = @ + 1])
    /\ UNCHANGED <<files, mutex, kept, stray>>

Rendered(p) ==
    /\ Takes(p, "check", None) /\ Converged(p) /\ Forgets(p)
    /\ UNCHANGED <<files, mutex, kept, stray>>

GivesUp(p) ==
    /\ Takes(p, "check", None) /\ ~Converged(p) /\ proc[p].tries + 1 = Attempts /\ Forgets(p)
    /\ UNCHANGED <<files, mutex, kept, stray>>

-----------------------------------------------------------------------------
(* doctor --fix. *)

When(cond, steps) == IF cond THEN steps ELSE <<>>

\* scanWorkspace, and for each finding the steps of applyFix.
Repairs ==
    ForEach("moveclaim", {c \in Card : claim[c] = "torn"})
    \o ForEach("movelease", {c \in Card : lease[c] = "torn"})
    \o When(\E c \in Card : Stale(c), SweepSteps)
    \o ForEach("mend", {c \in Card : Up(c) /\ lease[c] \notin Readable})
    \o ForEach("orphan", {c \in Card : lease[c] \in Readable /\ ~There(c)})
    \o When(junk, << A("tmp") >>)
    \o When(mutex \in {"recent", "dead"}, << A("break") >>)
    \o When(door # Snapshot, << A("snap"), A("door") >>)

Scan(p) ==
    /\ Takes(p, "scan", None) /\ Repairs # <<>> /\ proc[p].rounds > 1
    /\ GoesOn(p, [Idle EXCEPT !.todo = Repairs \o << A("scan") >>, !.rounds = proc[p].rounds - 1])
    /\ UNCHANGED <<files, mutex, kept, stray>>

LastScan(p) ==
    /\ Takes(p, "scan", None) /\ (Repairs = <<>> \/ proc[p].rounds = 1)
    /\ GoesOn(p, [Idle EXCEPT !.todo = << A("report") >>])
    /\ UNCHANGED <<files, mutex, kept, stray>>

Report(p) ==
    /\ Takes(p, "report", None) /\ Done(p)
    /\ UNCHANGED <<files, mutex, kept, stray>>

\* Quarantine goes by the name of the file, whatever is in it by now.
MoveClaim(p, c) ==
    /\ Takes(p, "moveclaim", c) /\ Done(p)
    /\ claim' = [claim EXCEPT ![c] = IF There(c) THEN "moved" ELSE @]
    /\ stray' = stray \cup {e \in DOMAIN queue : queue[e] = c}
    /\ UNCHANGED <<lease, queue, notes, door, junk, mutex, kept>>

MoveLease(p, c) ==
    /\ Takes(p, "movelease", c) /\ Done(p)
    /\ lease' = [lease EXCEPT ![c] = "none"] /\ kept' = kept \ {c}
    /\ UNCHANGED <<claim, queue, notes, door, junk, mutex, stray>>

\* A card without a lease gets one, outside of the mutex.
Mend(p, c) ==
    /\ Takes(p, "mend", c) /\ claim[c] # "torn"
    /\ GoesTo(p, When(Up(c), << <<"lease", c>> >>) \o Rest(p))
    /\ UNCHANGED <<files, mutex, kept, stray>>

DropOrphan(p, c) ==
    /\ Takes(p, "orphan", c) /\ Done(p)
    /\ lease' = [lease EXCEPT ![c] = "none"]
    /\ UNCHANGED <<claim, queue, notes, door, junk, mutex, kept, stray>>

\* The whole of tmp/ goes, with what others are about to rename out of it.
ClearTmp(p) ==
    /\ Takes(p, "tmp", None)
    /\ junk' = FALSE
    /\ proc' = [q \in Process |-> [proc[q] EXCEPT !.staged = FALSE, !.todo = IF q = p THEN Rest(p) ELSE @]]
    /\ UNCHANGED <<claim, lease, queue, notes, door, mutex, kept, stray>>

\* BreakIfRecoverable: a lock that is reported is not always one that can be broken yet.
BreakMutex(p) ==
    /\ Takes(p, "break", None) /\ Done(p)
    /\ mutex' = IF mutex = "dead" THEN None ELSE mutex
    /\ UNCHANGED <<files, kept, stray>>

-----------------------------------------------------------------------------
(* The environment. *)

\* Time passes for a card, or for a lease.
Expire(c) ==
    /\ \/ /\ claim[c] = "fresh"
          /\ claim' = [claim EXCEPT ![c] = "old"] /\ UNCHANGED <<lease, kept>>
       \/ /\ lease[c] = "fresh"
          /\ lease' = [lease EXCEPT ![c] = "old"] /\ kept' = kept \ {c} /\ UNCHANGED claim
    /\ UNCHANGED <<queue, notes, door, junk, mutex, proc, stray>>

\* A lock that nobody serves gets older than staleMs; a doctor that waits for it goes on.
AgeMutex ==
    /\ mutex = "recent" /\ mutex' = "dead"
    /\ alone' = IF \E p \in Process : alone = p /\ Takes(p, "lock", None) THEN alone ELSE None
    /\ UNCHANGED <<files, proc, kept, stray>>

-----------------------------------------------------------------------------

\* wait, not claim --queue, is the one that queues.
ByWait(p) == \E x \in ToSet(Rest(p)) : x[1] = "leave"

\* Steps after which their process is still to write DOOR.md, or that change nothing it
\* shows, errors included ...
Tended(p) ==
    \/ Command(p) \/ Doctor(p)
    \/ Lock(p) \/ Unlock(p) \/ Sweep(p) \/ Decide(p) \/ Pin(p)
    \/ \E c \in Card :
        \/ Reap(p, c) \/ SaveClaim(p, c) \/ LeaseCard(p, c) \/ Renew(p, c) \/ ReadOwn(p, c)
        \/ TakeDown(p, c) \/ DropLease(p, c) \/ ClearQueueFor(p, c)
        \/ MoveClaim(p, c) \/ MoveLease(p, c) \/ Mend(p, c) \/ DropOrphan(p, c)
        \/ \E e \in Entry : JoinQueue(p, c, e) /\ ~ByWait(p)
    \/ Refuse(p) \/ TakeSnapshot(p) \/ WriteDoor(p) \/ LookAgain(p) \/ Rendered(p)
    \/ Scan(p) \/ Report(p) \/ ClearTmp(p) \/ BreakMutex(p)

\* ... and those that may leave it as it is: wait, which never renders, the heartbeat of
\* run, which does not either, a claim that fails after its sweep, and a renderer or a
\* doctor that gives up.
Untended(p) ==
    \/ \E c \in Card : RunBeat(p, c) \/ \E e \in Entry : JoinQueue(p, c, e) /\ ByWait(p)
    \/ LeaveQueue(p) \/ ClaimFails(p) \/ DoorFails(p) \/ GivesUp(p) \/ LastScan(p)

\* The door is out of date, and that is excused.
Excuse(now) == behind' = (door' # Snapshot' /\ (behind \/ now))

Alone(p) ==
    alone' = IF Doctor(p) /\ \A q \in Process : ~Busy(q) THEN p ELSE IF alone = p THEN p ELSE None

Next ==
    \/ \E p \in Process : Tended(p) /\ Excuse(FALSE) /\ Alone(p)
    \/ \E p \in Process : Untended(p) /\ Excuse(TRUE) /\ Alone(p)
    \/ \E c \in Card : Expire(c) /\ Excuse(TRUE) /\ alone' = None
    \/ AgeMutex /\ Excuse(FALSE)

Spec == Init /\ [][Next]_vars

-----------------------------------------------------------------------------
(* Properties. *)

\* Somebody is still to look at the door, in render.Auto or in doctor.
ToRender(p) ==
    \E i \in 1..Len(proc[p].todo) :
        proc[p].todo[i][1] \in {"decide", "check", "scan"}

\* "after any command, in any order, doctor --check MUST exit 0", "including commands that
\* fail" (protocol I5b): if the door is not of the present state of the workspace, then
\* somebody is about to look at it, however renderers overtake one another, or the code
\* departs from the protocol. It does so in the steps of Untended, a claim that fails after
\* its sweep among them, and where time passes, and in no other.
DoorKeepsUp == door = Snapshot \/ behind \/ \E p \in Process : ToRender(p)

\* Four rounds are enough: whatever is damaged, a doctor that has the workspace to itself
\* leaves nothing that it could repair (cmdDoctor, DoctorPasses), but for a lock that
\* nobody could break before it is older than staleMs (BreakIfRecoverable).
DoctorHeals ==
    \A p \in Process : Busy(p) /\ Head(proc[p].todo) = A("report") /\ alone = p =>
        Repairs = <<>> \/ (mutex = "recent" /\ Repairs = << A("break") >>)

\* What a doctor found outside of the mutex is true when it acts on it: the lease that it
\* unlinks as an orphan's is not the lease of a card that came up since (scanWorkspace,
\* cmdClaim).
OrphansStayOrphans ==
    \A p \in Process, c \in Card : <<"orphan", c>> \in ToSet(proc[p].todo) => ~There(c)

\* An entry of the waiting list goes with its card, or with the wait that wrote it, unless
\* it was written for a card that was gone by then, or the card went to quarantine
\* (ClearQueueFor, cmdWait, cmdClaim).
WaitersGoWithTheirCard ==
    /\ TypeOK
    /\ \A e \in DOMAIN queue :
        \/ There(queue[e]) \/ e \in stray
        \/ \E p \in Process : <<"clear", queue[e]>> \in ToSet(proc[p].todo)

\* The card of an owner that took or renewed it in time is not taken from it: no sweep that
\* found it stale comes after the renewal (ReapStale, cmdHeartbeat, cmdRun). What
\* doctor moves to quarantine as an unreadable lease is the exception.
KeptCardsStay == [][\A c \in kept : There(c) => There(c)']_vars

=============================================================================
