--------------------------- MODULE RegistryMutex ---------------------------
(* The registry mutex of internal/mutex/mutex.go: one directory, registry.lock.d, *)
(* that mkdir creates and an owner.json names the holder of, and a second         *)
(* directory, registry.lock.d.break, under which every removal happens. There is  *)
(* no daemon: the calls below are steps of separate processes on a shared disk.   *)
(*                                                                                *)
(* A Call is one call of withRenewable (or of BreakIfRecoverable, for a doctor):  *)
(* its nonce is its name and its mkdir succeeds at most once. Time is kept as     *)
(* "older than staleMs or not" for each directory; the environment, not a call,   *)
(* makes a directory old, and Faults says what the environment may do.            *)
EXTENDS Naturals

CONSTANTS Call,      \* the acquisitions
          Doctors,   \* those that are doctor's BreakIfRecoverable
          HostOf,    \* the machine each call runs on
          None,
          Faults,    \* what may go wrong (see AllFaults)
          MaxBeat    \* bound on the refreshes of one lock

AllFaults ==
    { "crash",         \* a process dies while it waits, holds the lock or has returned
      "crash_stamp",   \* it dies between its mkdir and its owner.json
      "crash_breaker", \* it dies inside registry.lock.d.break, by a signal or otherwise
      "stall_holder",  \* a live holder lets its owner.json grow older than staleMs
      "stall_stamp",   \* a live acquirer takes longer than staleMs to stamp
      "signal",        \* SIGINT or SIGTERM reaches a holder
      "stamp_error",   \* writing owner.json fails
      "share",         \* a removal fails at once, as with an open handle on Windows
      "rmdir" }        \* it fails half-way, with owner.json already unlinked

ASSUME CallAssumption   == None \notin Call /\ Doctors \subseteq Call
ASSUME FaultsAssumption == Faults \subseteq AllFaults
ASSUME BeatAssumption   == MaxBeat \in Nat

VARIABLES
    lockMaker,   \* who created the lock directory; None when there is none
    owner,       \* the nonce in its owner.json; None when there is no owner.json
    beat,        \* that file's heartbeatAt, counted in refreshes
    lockOld,     \* its heartbeatAt (its mtime, without owner.json) is older than staleMs
    brk,         \* who created the break directory; None when there is none
    brkOld,      \* its mtime is older than staleMs
    pc,          \* where each call is
    goal,        \* what it enters the break directory for
    judged,      \* the owner, and its heartbeat, that a breaker has judged dead:
    judgedBeat,  \*   the "key" of breakLock
    outcome,     \* what the function run inside the break directory returned
    inside       \* the calls whose protected function is running

lockVars  == <<lockMaker, owner, beat, lockOld>>
brkVars   == <<brk, brkOld>>
judgeVars == <<judged, judgedBeat>>
vars == <<lockVars, brkVars, pc, goal, judgeVars, outcome, inside>>

Waiting    == {"idle", "try"}
Stamping   == {"ensure", "stamp", "unstamp", "scrap"}
InBreak    == {"reread", "act", "rmdir", "leave"}
Over       == {"over", "gone"}
Stage      == Waiting \cup Stamping \cup InBreak \cup Over
              \cup {"verify", "run", "knock", "sweep", "retry"}

TypeOK ==
    /\ lockMaker \in Call \cup {None}
    /\ owner \in Call \cup {None}
    /\ beat \in 0..MaxBeat
    /\ lockOld \in BOOLEAN
    /\ brk \in Call \cup {None}
    /\ brkOld \in BOOLEAN
    /\ pc \in [Call -> Stage]
    /\ goal \in [Call -> {"break", "release", "refresh"}]
    /\ judged \in [Call -> Call \cup {None}]
    /\ judgedBeat \in [Call -> 0..MaxBeat]
    /\ outcome \in [Call -> {"done", "again", "lost"}]
    /\ inside \subseteq Call

Init ==
    /\ lockMaker = None /\ owner = None /\ beat = 0 /\ lockOld = FALSE
    /\ brk = None /\ brkOld = FALSE
    /\ pc = [c \in Call |-> "idle"]
    /\ goal = [c \in Call |-> "break"]
    /\ judged = [c \in Call |-> None]
    /\ judgedBeat = [c \in Call |-> 0]
    /\ outcome = [c \in Call |-> "again"]
    /\ inside = {}

-----------------------------------------------------------------------------
(* The two directories. *)

LockExists == lockMaker # None

\* mkdir (or MkdirAll) of the lock directory by c.
CreateLock(c) == lockMaker' = c /\ owner' = None /\ beat' = 0 /\ lockOld' = FALSE

\* Renaming the lock directory aside: gone in one step, whatever it held.
DropLock == lockMaker' = None /\ owner' = None /\ beat' = 0 /\ lockOld' = FALSE

\* Renaming a new owner.json into the directory; it is as young as the write.
WriteOwner(c, b) == owner' = c /\ beat' = b /\ lockOld' = FALSE

Goto(c, stage) == pc' = [pc EXCEPT ![c] = stage]

\* The call still answers for the lock: it is between its mkdir and the end of
\* its release. An environment that does not stall keeps that under staleMs.
Serving(c) == pc[c] \notin Waiting \cup Over /\ ~(goal[c] = "break" /\ pc[c] \in InBreak \cup {"knock", "sweep"})

ProcessAlive(c) == pc[c] # "gone"

-----------------------------------------------------------------------------
(* Acquiring. *)

Start(c) ==
    /\ pc[c] = "idle"
    /\ Goto(c, "try")
    /\ UNCHANGED <<lockVars, brkVars, goal, judgeVars, outcome, inside>>

\* mkdir succeeds: from here the lock is taken, and not yet stamped.
Mkdir(c) ==
    /\ pc[c] = "try" /\ c \notin Doctors
    /\ ~LockExists
    /\ CreateLock(c)
    /\ Goto(c, "ensure")
    /\ UNCHANGED <<brkVars, goal, judgeVars, outcome, inside>>

\* Mutants of Recoverable: the pid is looked up without asking whether it ever
\* lived on this host; a live owner that is in the way is taken for dead.
RecoverableForeignPid(c) ==
    /\ LockExists
    /\ \/ lockOld
       \/ owner # None /\ (HostOf[owner] # HostOf[c] \/ ~ProcessAlive(owner))
RecoverableAnyOwner(c) == LockExists /\ (lockOld \/ owner # None)

\* The lock a waiter looks at is to be broken: its owner is a dead process of this
\* host, or it has shown no activity for staleMs.
Recoverable(c) ==
    /\ LockExists
    /\ \/ lockOld
       \/ /\ owner # None
          /\ HostOf[owner] = HostOf[c]
          /\ ~ProcessAlive(owner)

\* mkdir fails and the owner read next is judged dead; the evidence is its key.
Judge(c) ==
    /\ pc[c] = "try"
    /\ Recoverable(c)
    /\ judged' = [judged EXCEPT ![c] = owner]
    /\ judgedBeat' = [judgedBeat EXCEPT ![c] = beat]
    /\ goal' = [goal EXCEPT ![c] = "break"]
    /\ Goto(c, "knock")
    /\ UNCHANGED <<lockVars, brkVars, outcome, inside>>

\* The lock is held, nothing is wrong with it and the deadline has passed.
Timeout(c) ==
    /\ pc[c] = "try" /\ c \notin Doctors
    /\ LockExists /\ ~Recoverable(c)
    /\ Goto(c, "over")
    /\ UNCHANGED <<lockVars, brkVars, goal, judgeVars, outcome, inside>>

\* A doctor looks once, and has nothing to recover.
LookOnce(c) ==
    /\ pc[c] = "try" /\ c \in Doctors
    /\ ~Recoverable(c)
    /\ Goto(c, "over")
    /\ UNCHANGED <<lockVars, brkVars, goal, judgeVars, outcome, inside>>

\* WriteAtomic first makes sure the directory of its target exists: a lock that
\* was broken meanwhile is silently created anew.
EnsureLockDir(c) ==
    /\ pc[c] = "ensure"
    /\ IF LockExists THEN UNCHANGED lockVars ELSE CreateLock(c)
    /\ Goto(c, "stamp")
    /\ UNCHANGED <<brkVars, goal, judgeVars, outcome, inside>>

\* ... and then renames owner.json into whatever directory now has that name.
Stamp(c) ==
    /\ pc[c] = "stamp"
    /\ LockExists
    /\ WriteOwner(c, 0)
    /\ Goto(c, "verify")
    /\ UNCHANGED <<lockMaker, brkVars, goal, judgeVars, outcome, inside>>

\* The lock was broken since: the rename finds no directory.
StampMisses(c) ==
    /\ pc[c] = "stamp"
    /\ ~LockExists
    /\ Goto(c, "unstamp")
    /\ UNCHANGED <<lockVars, brkVars, goal, judgeVars, outcome, inside>>

\* The disk is full, or .fridge/tmp is not writable.
StampFails(c) ==
    /\ pc[c] = "stamp" /\ "stamp_error" \in Faults
    /\ Goto(c, "unstamp")
    /\ UNCHANGED <<lockVars, brkVars, goal, judgeVars, outcome, inside>>

\* dropLockOnce on the spot, neither fenced by the nonce nor by the break lock.
DropUnstamped(c) ==
    /\ pc[c] = "unstamp"
    /\ DropLock
    /\ Goto(c, "over")
    /\ UNCHANGED <<brkVars, goal, judgeVars, outcome, inside>>

\* The rename fails, and whatever has that name is taken apart in place: its owner.json
\* first ...
DropUnstampedFails(c) ==
    /\ pc[c] = "unstamp" /\ "share" \in Faults /\ LockExists
    /\ owner' = None /\ beat' = 0 /\ lockOld' = (lockOld /\ owner = None)
    /\ Goto(c, "scrap")
    /\ UNCHANGED <<lockMaker, brkVars, goal, judgeVars, outcome, inside>>

\* ... then the directory. If that fails nobody is told, and the lock stays.
Scrap(c) ==
    /\ pc[c] = "scrap"
    /\ \/ DropLock
       \/ LockExists /\ "rmdir" \in Faults /\ UNCHANGED lockVars
    /\ Goto(c, "over")
    /\ UNCHANGED <<brkVars, goal, judgeVars, outcome, inside>>

\* The function runs only if owner.json still holds our nonce.
Verify(c) ==
    /\ pc[c] = "verify"
    /\ \/ /\ owner = c
          /\ Goto(c, "run")
          /\ inside' = inside \cup {c}
          /\ UNCHANGED goal
       \/ /\ owner # c
          /\ Goto(c, "knock")
          /\ goal' = [goal EXCEPT ![c] = "release"]
          /\ UNCHANGED inside
    /\ UNCHANGED <<lockVars, brkVars, judgeVars, outcome>>

-----------------------------------------------------------------------------
(* Running the protected function. *)

CallRefresh(c) ==
    /\ pc[c] = "run" /\ beat < MaxBeat
    /\ goal' = [goal EXCEPT ![c] = "refresh"]
    /\ Goto(c, "knock")
    /\ UNCHANGED <<lockVars, brkVars, judgeVars, outcome, inside>>

\* fn returns and the deferred release begins.
FnReturns(c) ==
    /\ pc[c] = "run"
    /\ inside' = inside \ {c}
    /\ goal' = [goal EXCEPT ![c] = "release"]
    /\ Goto(c, "knock")
    /\ UNCHANGED <<lockVars, brkVars, judgeVars, outcome>>

\* The signal goroutine releases the lock, whether fn is about to start, runs or is in a
\* refresh, which goes no further (one inside the break directory ends first).
Signal(c) ==
    /\ "signal" \in Faults
    /\ \/ pc[c] \in {"verify", "run"}
       \/ goal[c] = "refresh" /\ pc[c] \in {"knock", "retry"}
    /\ goal' = [goal EXCEPT ![c] = "release"]
    /\ Goto(c, "knock")
    /\ UNCHANGED <<lockVars, brkVars, judgeVars, outcome, inside>>

\* fn returns before os.Exit cuts it off; its own release is a no-op (released).
FnOutrunsExit(c) ==
    /\ c \in inside /\ goal[c] = "release"
    /\ inside' = inside \ {c}
    /\ UNCHANGED <<lockVars, brkVars, pc, goal, judgeVars, outcome>>

-----------------------------------------------------------------------------
(* withBreakLock: entered to break, to release and to refresh. *)

\* fn ends with the refresh's error, and the deferred release begins.
AbortFn(c) ==
    /\ goal' = [goal EXCEPT ![c] = "release"]
    /\ inside' = inside \ {c}
    /\ Goto(c, "knock")

\* What a call does after its attempt: r = "done", "again" (it did not enter, or
\* what it did there failed) or "lost" (a refresh found another nonce). A breaker
\* goes back to its loop whatever happened.
Return(c, r) ==
    \/ /\ goal[c] = "break"
       /\ Goto(c, IF c \in Doctors THEN "over" ELSE "try")
       /\ UNCHANGED <<goal, inside>>
    \/ /\ goal[c] # "break" /\ r = "done"
       /\ Goto(c, IF goal[c] = "release" THEN "over" ELSE "run")
       /\ UNCHANGED <<goal, inside>>
    \/ /\ goal[c] # "break" /\ r = "again"
       /\ Goto(c, "retry")
       /\ UNCHANGED <<goal, inside>>
    \/ /\ goal[c] = "refresh" /\ r = "lost"
       /\ AbortFn(c)

\* Release and refresh try again for releaseTimeoutMs ...
TryAgain(c) ==
    /\ pc[c] = "retry"
    /\ Goto(c, "knock")
    /\ UNCHANGED <<lockVars, brkVars, goal, judgeVars, outcome, inside>>

\* ... and then leave the lock as it is, or end fn.
GiveUp(c) ==
    /\ pc[c] = "retry"
    /\ \/ goal[c] = "release" /\ Goto(c, "over") /\ UNCHANGED <<goal, inside>>
       \/ goal[c] = "refresh" /\ AbortFn(c)
    /\ UNCHANGED <<lockVars, brkVars, judgeVars, outcome>>

\* Mutant of Knock: MkdirAll instead of Mkdir, which an existing directory does
\* not refuse.
KnockAnyway(c) ==
    /\ pc[c] = "knock"
    /\ brk' = c /\ brkOld' = FALSE
    /\ Goto(c, "reread")
    /\ UNCHANGED <<lockVars, goal, judgeVars, outcome, inside>>

Knock(c) ==
    /\ pc[c] = "knock"
    /\ brk = None
    /\ brk' = c /\ brkOld' = FALSE
    /\ Goto(c, "reread")
    /\ UNCHANGED <<lockVars, goal, judgeVars, outcome, inside>>

\* Mutants of KnockFails: a break directory is swept without a look at its age; it
\* is never swept.
KnockFailsImpatient(c) ==
    /\ pc[c] = "knock" /\ brk # None
    /\ Goto(c, "sweep")
    /\ UNCHANGED <<lockVars, brkVars, goal, judgeVars, outcome, inside>>
KnockFailsForever(c) ==
    /\ pc[c] = "knock" /\ brk # None
    /\ Return(c, "again")
    /\ UNCHANGED <<lockVars, brkVars, judgeVars, outcome>>

\* Somebody is inside; if that has lasted longer than staleMs the directory counts
\* as abandoned and is about to be removed.
KnockFails(c) ==
    /\ pc[c] = "knock"
    /\ brk # None
    /\ \/ ~brkOld /\ Return(c, "again")
       \/ brkOld /\ Goto(c, "sweep") /\ UNCHANGED <<goal, inside>>
    /\ UNCHANGED <<lockVars, brkVars, judgeVars, outcome>>

\* RmRF(breakDir): removes the directory of that name, whoever created it.
Sweep(c) ==
    /\ pc[c] = "sweep"
    /\ brk' = None /\ brkOld' = FALSE
    /\ Return(c, "again")
    /\ UNCHANGED <<lockVars, judgeVars, outcome>>

\* Mutant of EvidenceHolds: under the break lock only the directory is looked at.
EvidenceHoldsUnread(c) == LockExists

\* breakLockLocked's second look: the evidence must be what was judged. Two locks
\* without a readable owner.json cannot be told apart.
EvidenceHolds(c) ==
    /\ LockExists
    /\ owner = judged[c]
    /\ owner # None => beat = judgedBeat[c]

RereadAsBreaker(c) ==
    /\ pc[c] = "reread" /\ goal[c] = "break"
    /\ \/ EvidenceHolds(c) /\ Goto(c, "act") /\ UNCHANGED outcome
       \/ ~EvidenceHolds(c) /\ Goto(c, "leave") /\ outcome' = [outcome EXCEPT ![c] = "again"]
    /\ UNCHANGED <<lockVars, brkVars, goal, judgeVars, inside>>

\* dropIfStillOurs: another nonce ends the release, and an unreadable owner only
\* if the directory is gone.
RereadToRelease(c) ==
    /\ pc[c] = "reread" /\ goal[c] = "release"
    /\ \/ owner = c /\ Goto(c, "act") /\ UNCHANGED outcome
       \/ /\ owner # c
          /\ Goto(c, "leave")
          /\ outcome' = [outcome EXCEPT ![c] = IF owner = None /\ LockExists THEN "again" ELSE "done"]
    /\ UNCHANGED <<lockVars, brkVars, goal, judgeVars, inside>>

RereadToRefresh(c) ==
    /\ pc[c] = "reread" /\ goal[c] = "refresh"
    /\ \/ owner = c /\ Goto(c, "act") /\ UNCHANGED outcome
       \/ owner # c /\ Goto(c, "leave") /\ outcome' = [outcome EXCEPT ![c] = "lost"]
    /\ UNCHANGED <<lockVars, brkVars, goal, judgeVars, inside>>

\* The lock directory is renamed aside, by a breaker or by a releasing holder. A
\* rename that finds no directory fails a break and completes a release.
RenameAside(c) ==
    /\ pc[c] = "act" /\ goal[c] # "refresh"
    /\ DropLock
    /\ outcome' = [outcome EXCEPT ![c] = IF LockExists \/ goal[c] = "release" THEN "done" ELSE "again"]
    /\ Goto(c, "leave")
    /\ UNCHANGED <<brkVars, goal, judgeVars, inside>>

\* The rename fails: a breaker gives up; a release takes the lock apart in place,
\* which may fail too.
RenameFails(c) ==
    /\ pc[c] = "act" /\ goal[c] # "refresh" /\ "share" \in Faults /\ LockExists
    /\ \/ /\ Goto(c, "leave")
          /\ outcome' = [outcome EXCEPT ![c] = "again"]
          /\ UNCHANGED lockVars
       \/ /\ goal[c] = "release"
          /\ owner' = None /\ beat' = 0 /\ lockOld' = FALSE
          /\ Goto(c, "rmdir")
          /\ UNCHANGED <<lockMaker, outcome>>
    /\ UNCHANGED <<brkVars, goal, judgeVars, inside>>

Rmdir(c) ==
    /\ pc[c] = "rmdir"
    /\ \/ DropLock /\ outcome' = [outcome EXCEPT ![c] = "done"]
       \/ /\ LockExists /\ "rmdir" \in Faults
          /\ outcome' = [outcome EXCEPT ![c] = "again"]
          /\ UNCHANGED lockVars
    /\ Goto(c, "leave")
    /\ UNCHANGED <<brkVars, goal, judgeVars, inside>>

\* refresh rewrites owner.json with our nonce and a new heartbeatAt.
WriteHeartbeat(c) ==
    /\ pc[c] = "act" /\ goal[c] = "refresh"
    /\ lockMaker' = IF LockExists THEN lockMaker ELSE c
    /\ WriteOwner(c, IF beat < MaxBeat THEN beat + 1 ELSE beat)
    /\ outcome' = [outcome EXCEPT ![c] = "done"]
    /\ Goto(c, "leave")
    /\ UNCHANGED <<brkVars, goal, judgeVars, inside>>

\* The deferred os.Remove(breakDir), which carries no nonce.
LeaveBreak(c) ==
    /\ pc[c] = "leave"
    /\ brk' = None /\ brkOld' = FALSE
    /\ Return(c, outcome[c])
    /\ UNCHANGED <<lockVars, judgeVars, outcome>>

-----------------------------------------------------------------------------
(* Processes end, and time passes. *)

\* The process is gone and its memory with it; what it wrote stays on the disk.
Die(c) ==
    /\ Goto(c, "gone")
    /\ inside' = inside \ {c}
    /\ goal' = [goal EXCEPT ![c] = "break"]
    /\ judged' = [judged EXCEPT ![c] = None]
    /\ judgedBeat' = [judgedBeat EXCEPT ![c] = 0]
    /\ outcome' = [outcome EXCEPT ![c] = "again"]
    /\ UNCHANGED <<lockVars, brkVars>>

Exit(c) == pc[c] = "over" /\ Die(c)

\* The goroutine finds a release under way and exits at once (released), or it is the one
\* that releases and the command, whose own release returns at once, ends before it.
CutOff(c) ==
    /\ "signal" \in Faults /\ goal[c] = "release" /\ c \notin inside
    /\ \/ pc[c] \in {"knock", "sweep", "retry"}
       \/ pc[c] \in InBreak /\ "crash_breaker" \in Faults
    /\ Die(c)

\* kill -9, a panic or a power cut: nothing is cleaned up.
Crash(c) ==
    /\ pc[c] \notin {"idle", "gone"}
    /\ \/ pc[c] \in Stamping /\ "crash_stamp" \in Faults
       \/ pc[c] \in InBreak /\ "crash_breaker" \in Faults
       \/ pc[c] \notin Stamping \cup InBreak /\ "crash" \in Faults
    /\ Die(c)

\* Nobody alive answers for the lock any more.
Abandoned ==
    /\ LockExists
    /\ ~Serving(IF owner = None THEN lockMaker ELSE owner)

AgeLock ==
    /\ LockExists /\ ~lockOld
    /\ \/ Abandoned
       \/ owner # None /\ "stall_holder" \in Faults
       \/ owner = None /\ "stall_stamp" \in Faults
    /\ lockOld' = TRUE
    /\ UNCHANGED <<lockMaker, owner, beat, brkVars, pc, goal, judgeVars, outcome, inside>>

\* The break directory grows old only once the process that made it is gone:
\* removals take microseconds.
AgeBreak ==
    /\ brk # None /\ ~brkOld
    /\ pc[brk] \notin InBreak
    /\ brkOld' = TRUE
    /\ UNCHANGED <<lockVars, brk, pc, goal, judgeVars, outcome, inside>>

Finished ==
    /\ \A c \in Call : pc[c] = "gone"
    /\ UNCHANGED vars

-----------------------------------------------------------------------------

\* What a live process does by itself, once it has started.
Progress(c) ==
    \/ Mkdir(c) \/ Judge(c) \/ LookOnce(c) \/ EnsureLockDir(c) \/ Stamp(c) \/ StampMisses(c)
    \/ DropUnstamped(c) \/ Scrap(c) \/ Verify(c) \/ CallRefresh(c) \/ FnReturns(c)
    \/ TryAgain(c) \/ Knock(c) \/ KnockFails(c) \/ Sweep(c)
    \/ RereadAsBreaker(c) \/ RereadToRelease(c) \/ RereadToRefresh(c)
    \/ RenameAside(c) \/ Rmdir(c) \/ WriteHeartbeat(c) \/ LeaveBreak(c)
    \/ Exit(c)

\* What the user, the clock and the operating system do to it.
Environment(c) ==
    \/ Start(c) \/ Timeout(c) \/ GiveUp(c) \/ StampFails(c) \/ DropUnstampedFails(c)
    \/ Signal(c) \/ FnOutrunsExit(c) \/ CutOff(c) \/ RenameFails(c) \/ Crash(c)

Next ==
    \/ \E c \in Call : Progress(c) \/ Environment(c)
    \/ AgeLock \/ AgeBreak \/ Finished

Spec == Init /\ [][Next]_vars

\* The operating system schedules every live process, and time passes: a lock
\* nobody serves grows old, a retry does not outlast releaseTimeoutMs, and a
\* rename that is tried over and over does not fail every time (the handle that
\* blocks it is open for microseconds). The acquisition's own deadline is not
\* relied on.
Fairness ==
    /\ \A c \in Call : WF_vars(Progress(c)) /\ SF_vars(GiveUp(c)) /\ SF_vars(RenameAside(c))
    /\ WF_vars(AgeLock) /\ WF_vars(AgeBreak)

FairSpec == Spec /\ Fairness

-----------------------------------------------------------------------------
(* What the lock is for. *)

\* No two protected functions run at once ("Only one holder at a time").
MutualExclusion == \A c, d \in inside : c = d

\* While a function runs, the lock on disk is the one its own call stamped: no
\* waiter, release or failed acquisition has taken it from under the holder.
HolderOwnsLock == \A c \in inside : owner = c /\ lockMaker = c

\* "Two waiters can never be inside this function at the same time": withBreakLock
\* admits one call, and the break directory is that call's.
BreakersExclude == \A c \in Call : pc[c] \in InBreak => brk = c

\* "The answer does not change underneath": between the second look at owner.json
\* and the rename or rewrite it allows, the lock is still the one looked at. A
\* breaker removes exactly the lock it judged dead; a release and a refresh touch
\* only the lock of their own call, even when they were broken in the meantime.
EvidenceStable ==
    \A c \in Call : pc[c] = "act" =>
        /\ lockMaker = owner
        /\ IF goal[c] = "break"
              THEN owner # None /\ owner = judged[c] /\ beat = judgedBeat[c]
              ELSE owner = c

\* A lock is broken only when its holder is past using it.
OnlyTheDeadAreBroken ==
    [][\A c \in Call :
          (pc[c] = "act" /\ goal[c] = "break" /\ LockExists /\ ~LockExists')
             => owner # None /\ pc[owner] \in Over]_vars

\* No crash, and no removal that gave up, wedges the lock: without the help of its
\* deadline every call that waits gets its answer, even if processes die with
\* either directory in their hands.
EveryCallEnds == \A c \in Call : pc[c] = "try" ~> pc[c] \in Over

-----------------------------------------------------------------------------
(* Why it is so: the inductive invariants of the proofs. *)

\* Faults under which the removal protocol is sound ...
FencedFaults == {"crash", "stall_holder", "signal", "stamp_error", "share"}
\* ... and under which it gives mutual exclusion.
BenignFaults == {"crash", "stamp_error", "share"}

\* The break directory belongs to the one call that is inside, and never ages.
BreakInv ==
    /\ \A c \in Call : pc[c] \in InBreak <=> brk = c
    /\ \A c \in Call : pc[c] # "sweep"
    /\ ~brkOld

\* A lock without an owner.json is the work in progress of the call that made it,
\* and a lock with one was made by the call it names.
StampInv ==
    /\ \A c \in Call : pc[c] \in Stamping \cup {"rmdir"} => lockMaker = c /\ owner = None
    /\ (owner = None /\ LockExists) => (pc[lockMaker] \in Stamping \cup {"rmdir"} /\ ~lockOld)
    /\ owner # None => lockMaker = owner
    /\ ~LockExists => ~lockOld
    /\ \A c \in Call : pc[c] = "rmdir" => goal[c] = "release"

\* Nobody ever judges a lock that names no owner, and a breaker does not retry.
JudgeInv ==
    \A c \in Call : goal[c] = "break" =>
        /\ pc[c] \in {"knock", "reread", "act"} => judged[c] # None
        /\ pc[c] # "retry"

FenceInv == TypeOK /\ BreakInv /\ StampInv /\ JudgeInv /\ EvidenceStable

\* The call has stamped its lock and not let go of it.
Holding(c) ==
    \/ pc[c] \in {"verify", "run"}
    \/ goal[c] = "refresh" /\ pc[c] \in {"knock", "reread", "act", "leave", "retry"}
    \/ goal[c] = "release" /\ pc[c] \in {"knock", "reread", "act", "retry"}
    \/ goal[c] = "release" /\ pc[c] = "leave" /\ outcome[c] # "done"

HoldInv ==
    /\ \A c \in Call : Holding(c) => owner = c
    /\ owner # None => Holding(owner) \/ pc[owner] \in Over
    /\ lockOld => pc[owner] \in Over
    /\ \A c \in Call : pc[c] \in Waiting \cup Stamping \cup {"verify", "run"} => goal[c] # "release"
    /\ \A c \in Call : goal[c] = "refresh" /\ pc[c] = "leave" => outcome[c] = "done"
    /\ \A c \in inside :
          \/ pc[c] = "run"
          \/ goal[c] = "refresh" /\ pc[c] \in {"knock", "reread", "act", "leave", "retry"}
    /\ \A c \in Call : goal[c] = "break" /\ pc[c] \in {"knock", "reread", "act"}
                         => pc[judged[c]] \in Over

ExclusionInv == FenceInv /\ HoldInv

\* The calls as their callers see them.
Phase == [c \in Call |->
            IF c \in inside THEN "running"
            ELSE IF pc[c] \in Over \/ goal[c] = "release" THEN "returned"
            ELSE "waiting"]

Abstract == INSTANCE Mutex WITH phase <- Phase

\* The directory protocol implements the abstract lock.
ImplementsMutex == Abstract!Spec
=============================================================================
