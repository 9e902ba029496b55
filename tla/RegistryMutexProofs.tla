------------------------ MODULE RegistryMutexProofs ------------------------
(* Proofs about RegistryMutex for any set of calls, any placement on hosts and   *)
(* any bound on refreshes.                                                       *)
EXTENDS RegistryMutex, TLAPS

\* The stages of a call, one by one.
LEMMA StageNames ==
    /\ "idle" \in Stage /\ "try" \in Stage
    /\ "ensure" \in Stage /\ "stamp" \in Stage /\ "unstamp" \in Stage /\ "scrap" \in Stage
    /\ "verify" \in Stage /\ "run" \in Stage
    /\ "knock" \in Stage /\ "sweep" \in Stage /\ "retry" \in Stage
    /\ "reread" \in Stage /\ "act" \in Stage /\ "rmdir" \in Stage /\ "leave" \in Stage
    /\ "over" \in Stage /\ "gone" \in Stage
  BY DEF Stage, Waiting, Stamping, InBreak, Over

\* Heartbeats stay within their bound.
LEMMA BeatBounds ==
    /\ 0 \in 0..MaxBeat
    /\ \A b \in 0..MaxBeat : b < MaxBeat => b + 1 \in 0..MaxBeat
  BY BeatAssumption

\* The variables keep their types whatever the environment does.
LEMMA TypeInit == Init => TypeOK
  BY StageNames, BeatBounds, ZenonT(40) DEF Init, TypeOK

\* Wherever a call goes after its attempt, it goes to a stage of its own.
LEMMA ReturnTypes ==
  ASSUME TypeOK, NEW c \in Call, NEW r, Return(c, r)
  PROVE  /\ pc' \in [Call -> Stage] /\ inside' \subseteq Call
         /\ goal' \in [Call -> {"break", "release", "refresh"}]
<1>1. PICK stage \in Stage : pc' = [pc EXCEPT ![c] = stage]
  BY StageNames DEF Return, AbortFn, Goto
<1>2. goal' = goal \/ goal' = [goal EXCEPT ![c] = "release"]
  BY DEF Return, AbortFn
<1>3. inside' \subseteq inside
  BY DEF Return, AbortFn
<1> QED
  BY <1>1, <1>2, <1>3 DEF TypeOK

\* No step leaves the types: every stage change is to a stage its call has.
LEMMA TypeStep == TypeOK /\ [Next]_vars => TypeOK'
<1> USE StageNames, BeatBounds
<1> SUFFICES ASSUME TypeOK, [Next]_vars PROVE TypeOK'
  OBVIOUS
<1> USE DEF TypeOK, lockVars, brkVars, judgeVars, Goto, CreateLock, DropLock, WriteOwner, LockExists, Return, AbortFn
<1>1. ASSUME NEW c \in Call, Progress(c) PROVE TypeOK'
  <2>1. CASE Mkdir(c)            BY <2>1 DEF Mkdir
  <2>2. CASE Judge(c)            BY <2>2 DEF Judge
  <2>3. CASE EnsureLockDir(c)    BY <2>3 DEF EnsureLockDir
  <2>4. CASE Stamp(c)            BY <2>4 DEF Stamp
  <2>5. CASE StampMisses(c)      BY <2>5 DEF StampMisses
  <2>6. CASE DropUnstamped(c)    BY <2>6 DEF DropUnstamped
  <2>7. CASE Verify(c)           BY <2>7 DEF Verify
  <2>8. CASE CallRefresh(c)      BY <2>8 DEF CallRefresh
  <2>9. CASE FnReturns(c)        BY <2>9 DEF FnReturns
  <2>10. CASE TryAgain(c)        BY <2>10 DEF TryAgain
  <2>11. CASE Knock(c)           BY <2>11 DEF Knock
  <2>12. CASE KnockFails(c)      BY <2>12 DEF KnockFails
  <2>13. CASE Sweep(c)           BY <2>13 DEF Sweep
  <2>14. CASE RereadAsBreaker(c) BY <2>14 DEF RereadAsBreaker
  <2>15. CASE RereadToRelease(c) BY <2>15 DEF RereadToRelease
  <2>16. CASE RereadToRefresh(c) BY <2>16 DEF RereadToRefresh
  <2>17. CASE RenameAside(c)     BY <2>17 DEF RenameAside
  <2>18. CASE Rmdir(c)           BY <2>18 DEF Rmdir
  <2>19. CASE WriteHeartbeat(c)  BY <2>19 DEF WriteHeartbeat
  <2>20. CASE LeaveBreak(c)
    <3>1. /\ pc' \in [Call -> Stage] /\ inside' \subseteq Call
          /\ goal' \in [Call -> {"break", "release", "refresh"}]
      BY <2>20, ReturnTypes DEF LeaveBreak
    <3> QED
      BY <2>20, <3>1 DEF LeaveBreak
  <2>21. CASE Exit(c)            BY <2>21 DEF Exit, Die
  <2>22. CASE Scrap(c)           BY <2>22 DEF Scrap
  <2>23. CASE LookOnce(c)        BY <2>23 DEF LookOnce
  <2> QED
    BY <1>1, <2>1, <2>2, <2>3, <2>4, <2>5, <2>6, <2>7, <2>8, <2>9, <2>10, <2>11, <2>12,
       <2>13, <2>14, <2>15, <2>16, <2>17, <2>18, <2>19, <2>20, <2>21, <2>22, <2>23 DEF Progress
<1>2. ASSUME NEW c \in Call, Environment(c) PROVE TypeOK'
  <2>1. CASE Start(c)          BY <2>1 DEF Start
  <2>2. CASE Timeout(c)        BY <2>2 DEF Timeout
  <2>3. CASE GiveUp(c)         BY <2>3 DEF GiveUp
  <2>4. CASE StampFails(c)     BY <2>4 DEF StampFails
  <2>5. CASE Signal(c)         BY <2>5 DEF Signal
  <2>6. CASE FnOutrunsExit(c)  BY <2>6 DEF FnOutrunsExit
  <2>7. CASE RenameFails(c)    BY <2>7, ZenonT(40) DEF RenameFails
  <2>8. CASE Crash(c)          BY <2>8 DEF Crash, Die
  <2>9. CASE CutOff(c)         BY <2>9 DEF CutOff, Die
  <2>10. CASE DropUnstampedFails(c) BY <2>10 DEF DropUnstampedFails
  <2> QED
    BY <1>2, <2>1, <2>2, <2>3, <2>4, <2>5, <2>6, <2>7, <2>8, <2>9, <2>10 DEF Environment
<1>3. CASE AgeLock        BY <1>3 DEF AgeLock
<1>4. CASE AgeBreak       BY <1>4 DEF AgeBreak
<1>5. CASE UNCHANGED vars BY <1>5 DEF vars
<1> QED
  BY <1>1, <1>2, <1>3, <1>4, <1>5 DEF Next, Finished

\* TypeOK is an invariant of the mutex under every fault.
THEOREM TypeCorrect == Spec => []TypeOK
<1> QED
  BY TypeInit, TypeStep, PTL DEF Spec

-----------------------------------------------------------------------------
(* The removal protocol. The argument: the break directory belongs to the one     *)
(* call inside it (BreakInv), so while it is inside nobody else removes the lock;  *)
(* an unstamped lock has a live maker and never ages (StampInv), so a breaker      *)
(* always judges a lock with an owner (JudgeInv); and no owner.json is ever        *)
(* written into a directory that already has one, except by its own owner.         *)

\* The invariant of the removal protocol holds before any lock exists.
LEMMA FenceInit == Init => FenceInv
  BY CallAssumption, TypeInit
  DEF Init, FenceInv, BreakInv, StampInv, JudgeInv, EvidenceStable, LockExists, Stamping, InBreak

\* Every step keeps the removal protocol's invariant, even one of a holder that
\* has stalled past staleMs or of a signalled process.
LEMMA FenceStep ==
  ASSUME Faults \subseteq FencedFaults, FenceInv, [Next]_vars
  PROVE  FenceInv'
<1>0. TypeOK'
  BY TypeStep DEF FenceInv
<1> SUFFICES (BreakInv /\ StampInv /\ JudgeInv /\ EvidenceStable)'
  BY <1>0 DEF FenceInv
<1> USE CallAssumption
    DEF FencedFaults, FenceInv, TypeOK, BreakInv, StampInv, JudgeInv, EvidenceStable,
        lockVars, brkVars, judgeVars, Goto, CreateLock, DropLock, WriteOwner, LockExists, Return,
        AbortFn, Waiting, Stamping, InBreak, Over
<1>1. ASSUME NEW c \in Call, Progress(c) PROVE (BreakInv /\ StampInv /\ JudgeInv /\ EvidenceStable)'
  <2>1. CASE Mkdir(c)              BY <2>1 DEF Mkdir
  <2>2. CASE Judge(c)              BY <2>2 DEF Judge, Recoverable
  <2>3. CASE EnsureLockDir(c)      BY <2>3 DEF EnsureLockDir
  <2>4. CASE Stamp(c)              BY <2>4 DEF Stamp
  <2>5. CASE StampMisses(c)        BY <2>5 DEF StampMisses
  <2>6. CASE DropUnstamped(c)      BY <2>6 DEF DropUnstamped
  <2>7. CASE Verify(c)             BY <2>7 DEF Verify
  <2>8. CASE CallRefresh(c)        BY <2>8 DEF CallRefresh
  <2>9. CASE FnReturns(c)          BY <2>9 DEF FnReturns
  <2>10. CASE TryAgain(c)          BY <2>10 DEF TryAgain
  <2>11. CASE Knock(c)             BY <2>11 DEF Knock
  <2>12. CASE KnockFails(c)        BY <2>12 DEF KnockFails
  <2>13. CASE Sweep(c)             BY <2>13 DEF Sweep
  <2>14. CASE RereadAsBreaker(c)   BY <2>14 DEF RereadAsBreaker, EvidenceHolds
  <2>15. CASE RereadToRelease(c)   BY <2>15 DEF RereadToRelease
  <2>16. CASE RereadToRefresh(c)   BY <2>16 DEF RereadToRefresh
  <2>17. CASE RenameAside(c)       BY <2>17 DEF RenameAside
  <2>18. CASE Rmdir(c)             BY <2>18 DEF Rmdir
  <2>19. CASE WriteHeartbeat(c)    BY <2>19 DEF WriteHeartbeat
  <2>20. CASE LeaveBreak(c)        BY <2>20 DEF LeaveBreak
  <2>21. CASE Exit(c)              BY <2>21 DEF Exit, Die
  <2>22. CASE Scrap(c)             BY <2>22 DEF Scrap
  <2>23. CASE LookOnce(c)          BY <2>23 DEF LookOnce
  <2> QED
    BY <1>1, <2>1, <2>2, <2>3, <2>4, <2>5, <2>6, <2>7, <2>8, <2>9, <2>10, <2>11, <2>12,
       <2>13, <2>14, <2>15, <2>16, <2>17, <2>18, <2>19, <2>20, <2>21, <2>22, <2>23 DEF Progress
<1>2. ASSUME NEW c \in Call, Environment(c) PROVE (BreakInv /\ StampInv /\ JudgeInv /\ EvidenceStable)'
  <2>1. CASE Start(c)              BY <2>1 DEF Start
  <2>2. CASE Timeout(c)            BY <2>2 DEF Timeout
  <2>3. CASE GiveUp(c)             BY <2>3 DEF GiveUp
  <2>4. CASE StampFails(c)         BY <2>4 DEF StampFails
  <2>5. CASE Signal(c)             BY <2>5 DEF Signal
  <2>6. CASE FnOutrunsExit(c)      BY <2>6 DEF FnOutrunsExit
  <2>7. CASE RenameFails(c)        BY <2>7 DEF RenameFails
  <2>8. CASE Crash(c)              BY <2>8 DEF Crash, Die
  <2>9. CASE CutOff(c)             BY <2>9 DEF CutOff, Die
  <2>10. CASE DropUnstampedFails(c) BY <2>10 DEF DropUnstampedFails
  <2> QED
    BY <1>2, <2>1, <2>2, <2>3, <2>4, <2>5, <2>6, <2>7, <2>8, <2>9, <2>10 DEF Environment
<1>3. CASE AgeLock        BY <1>3 DEF AgeLock, Abandoned, Serving
<1>4. CASE AgeBreak       BY <1>4 DEF AgeBreak
<1>5. CASE UNCHANGED vars BY <1>5 DEF vars
<1> QED
  BY <1>1, <1>2, <1>3, <1>4, <1>5 DEF Next, Finished

\* Every removal stays inside the fence of registry.lock.d.break: one breaker at a time, a
\* lock without owner.json only in the hands of its maker, no judgement on a lock that names
\* nobody, and evidence that still holds (withBreakLock, breakLockLocked).
THEOREM FenceHolds ==
  ASSUME Faults \subseteq FencedFaults
  PROVE  Spec => []FenceInv
<1>1. FenceInv /\ [Next]_vars => FenceInv'
  BY FenceStep
<1> QED
  BY FenceInit, <1>1, PTL DEF Spec

\* The evidence a removal acts on is still true when it acts, for any number of
\* calls, stalled holders and signals included.
THEOREM EvidenceIsStable ==
  ASSUME Faults \subseteq FencedFaults
  PROVE  Spec => []EvidenceStable
<1>1. FenceInv /\ [Next]_vars => FenceInv'
  BY FenceStep
<1>2. FenceInv => EvidenceStable
  BY DEF FenceInv
<1> QED
  BY FenceInit, <1>1, <1>2, PTL DEF Spec

\* Two waiters are never inside withBreakLock at the same time.
THEOREM BreakersAreExclusive ==
  ASSUME Faults \subseteq FencedFaults
  PROVE  Spec => []BreakersExclude
<1>1. FenceInv /\ [Next]_vars => FenceInv'
  BY FenceStep
<1>2. FenceInv => BreakersExclude
  BY DEF FenceInv, BreakInv, BreakersExclude
<1> QED
  BY FenceInit, <1>1, <1>2, PTL DEF Spec

-----------------------------------------------------------------------------
(* Mutual exclusion. The argument: without stalls a lock grows old, and a pid is   *)
(* found dead, only after its holder is past using it, which is for ever; so the   *)
(* owner a breaker judged is still past using it when the breaker acts, and a call *)
(* that has stamped its lock keeps it until it lets go (HoldInv).                  *)

\* Before any call has stamped a lock there is nothing for a holder to lose.
LEMMA HoldInit == Init => HoldInv
  BY CallAssumption DEF Init, HoldInv, Holding, Over

\* Under the benign faults, a call that has stamped its lock keeps it through
\* every step until it lets go, whatever the waiters judge and break meanwhile.
LEMMA HoldStep ==
  ASSUME Faults \subseteq BenignFaults, FenceInv, HoldInv, [Next]_vars
  PROVE  HoldInv'
<1> USE CallAssumption
    DEF BenignFaults, FenceInv, TypeOK, BreakInv, StampInv, JudgeInv, EvidenceStable,
        HoldInv, Holding,
        lockVars, brkVars, judgeVars, Goto, CreateLock, DropLock, WriteOwner, LockExists, Return,
        AbortFn, Waiting, Stamping, InBreak, Over
<1>1. ASSUME NEW c \in Call, Progress(c) PROVE HoldInv'
  <2>1. CASE Mkdir(c)              BY <2>1 DEF Mkdir
  <2>2. CASE Judge(c)              BY <2>2 DEF Judge, Recoverable, ProcessAlive
  <2>3. CASE EnsureLockDir(c)      BY <2>3 DEF EnsureLockDir
  <2>4. CASE Stamp(c)              BY <2>4 DEF Stamp
  <2>5. CASE StampMisses(c)        BY <2>5 DEF StampMisses
  <2>6. CASE DropUnstamped(c)      BY <2>6 DEF DropUnstamped
  <2>7. CASE Verify(c)             BY <2>7 DEF Verify
  <2>8. CASE CallRefresh(c)        BY <2>8 DEF CallRefresh
  <2>9. CASE FnReturns(c)          BY <2>9 DEF FnReturns
  <2>10. CASE TryAgain(c)          BY <2>10 DEF TryAgain
  <2>11. CASE Knock(c)             BY <2>11 DEF Knock
  <2>12. CASE KnockFails(c)        BY <2>12 DEF KnockFails
  <2>13. CASE Sweep(c)             BY <2>13 DEF Sweep
  <2>14. CASE RereadAsBreaker(c)   BY <2>14 DEF RereadAsBreaker, EvidenceHolds
  <2>15. CASE RereadToRelease(c)   BY <2>15 DEF RereadToRelease
  <2>16. CASE RereadToRefresh(c)   BY <2>16 DEF RereadToRefresh
  <2>17. CASE RenameAside(c)       BY <2>17 DEF RenameAside
  <2>18. CASE Rmdir(c)             BY <2>18 DEF Rmdir
  <2>19. CASE WriteHeartbeat(c)    BY <2>19 DEF WriteHeartbeat
  <2>20. CASE LeaveBreak(c)        BY <2>20 DEF LeaveBreak
  <2>21. CASE Exit(c)              BY <2>21 DEF Exit, Die
  <2>22. CASE Scrap(c)             BY <2>22 DEF Scrap
  <2>23. CASE LookOnce(c)          BY <2>23 DEF LookOnce
  <2> QED
    BY <1>1, <2>1, <2>2, <2>3, <2>4, <2>5, <2>6, <2>7, <2>8, <2>9, <2>10, <2>11, <2>12,
       <2>13, <2>14, <2>15, <2>16, <2>17, <2>18, <2>19, <2>20, <2>21, <2>22, <2>23 DEF Progress
<1>2. ASSUME NEW c \in Call, Environment(c) PROVE HoldInv'
  <2>1. CASE Start(c)              BY <2>1 DEF Start
  <2>2. CASE Timeout(c)            BY <2>2 DEF Timeout
  <2>3. CASE GiveUp(c)             BY <2>3 DEF GiveUp
  <2>4. CASE StampFails(c)         BY <2>4 DEF StampFails
  <2>5. CASE Signal(c)             BY <2>5 DEF Signal
  <2>6. CASE FnOutrunsExit(c)      BY <2>6 DEF FnOutrunsExit
  <2>7. CASE RenameFails(c)        BY <2>7 DEF RenameFails
  <2>8. CASE Crash(c)              BY <2>8 DEF Crash, Die
  <2>9. CASE CutOff(c)             BY <2>9 DEF CutOff, Die
  <2>10. CASE DropUnstampedFails(c) BY <2>10 DEF DropUnstampedFails
  <2> QED
    BY <1>2, <2>1, <2>2, <2>3, <2>4, <2>5, <2>6, <2>7, <2>8, <2>9, <2>10 DEF Environment
<1>3. CASE AgeLock        BY <1>3 DEF AgeLock, Abandoned, Serving
<1>4. CASE AgeBreak       BY <1>4 DEF AgeBreak
<1>5. CASE UNCHANGED vars BY <1>5 DEF vars
<1> QED
  BY <1>1, <1>2, <1>3, <1>4, <1>5 DEF Next, Finished

\* ExclusionInv holds at the start and is preserved by every step.
LEMMA ExclusionInit == Init => ExclusionInv
  BY FenceInit, HoldInit DEF ExclusionInv

\* The two invariants together are inductive: the hold rests on the fence.
LEMMA ExclusionStep ==
  ASSUME Faults \subseteq BenignFaults, ExclusionInv, [Next]_vars
  PROVE  ExclusionInv'
<1>1. Faults \subseteq FencedFaults
  BY DEF BenignFaults, FencedFaults
<1> QED
  BY <1>1, FenceStep, HoldStep DEF ExclusionInv

\* A call that has stamped its lock keeps it until it lets go, and what is judged dead is
\* past using its lock: the fence and the hold together (withRenewable, recoverable).
THEOREM ExclusionHolds ==
  ASSUME Faults \subseteq BenignFaults
  PROVE  Spec => []ExclusionInv
<1>1. ExclusionInv /\ [Next]_vars => ExclusionInv'
  BY ExclusionStep
<1> QED
  BY ExclusionInit, <1>1, PTL DEF Spec

\* A function that runs has its own call's lock on the disk.
LEMMA InsideHolds ==
  ASSUME ExclusionInv, NEW c \in inside
  PROVE  Holding(c) /\ owner = c /\ lockMaker = c
<1>1. c \in Call
  BY DEF ExclusionInv, FenceInv, TypeOK
<1>2. Holding(c)
  BY <1>1 DEF ExclusionInv, HoldInv, Holding
<1>3. owner = c
  BY <1>1, <1>2 DEF ExclusionInv, HoldInv
<1> QED
  BY <1>1, <1>2, <1>3, CallAssumption DEF ExclusionInv, FenceInv, StampInv

\* At most one protected function runs at a time, for any number of calls on any
\* hosts, whatever crashes outside the two short windows and whatever removals fail.
THEOREM MutualExclusionHolds ==
  ASSUME Faults \subseteq BenignFaults
  PROVE  Spec => []MutualExclusion
<1>1. ExclusionInv /\ [Next]_vars => ExclusionInv'
  BY ExclusionStep
<1>2. ExclusionInv => MutualExclusion
  BY InsideHolds DEF MutualExclusion
<1> QED
  BY ExclusionInit, <1>1, <1>2, PTL DEF Spec

\* The lock on the disk is the running call's own.
THEOREM HolderOwnsItsLock ==
  ASSUME Faults \subseteq BenignFaults
  PROVE  Spec => []HolderOwnsLock
<1>1. ExclusionInv /\ [Next]_vars => ExclusionInv'
  BY ExclusionStep
<1>2. ExclusionInv => HolderOwnsLock
  BY InsideHolds DEF HolderOwnsLock
<1> QED
  BY ExclusionInit, <1>1, <1>2, PTL DEF Spec

\* A waiter only ever breaks the lock of a call that is past using it.
THEOREM OnlyDeadLocksAreBroken ==
  ASSUME Faults \subseteq BenignFaults
  PROVE  Spec => OnlyTheDeadAreBroken
<1> DEFINE Broken(c) == pc[c] = "act" /\ goal[c] = "break" /\ LockExists /\ ~LockExists'
<1>1. ExclusionInv /\ [Next]_vars => ExclusionInv'
  BY ExclusionStep
<1>2. ExclusionInv /\ [Next]_vars
        => [\A c \in Call : Broken(c) => owner # None /\ pc[owner] \in Over]_vars
  BY DEF ExclusionInv, FenceInv, EvidenceStable, HoldInv
<1> QED
  BY ExclusionInit, <1>1, <1>2, PTL DEF Spec, OnlyTheDeadAreBroken

-----------------------------------------------------------------------------
(* The directory protocol implements the abstract lock of Mutex. *)

\* Only c moves, and it moves as the abstract lock allows.
Moves(c) ==
    /\ \A d \in Call \ {c} :
          pc'[d] = pc[d] /\ goal'[d] = goal[d] /\ (d \in inside' <=> d \in inside)
    /\ \/ Phase'[c] = Phase[c]
       \/ Phase[c] = "waiting" /\ Phase'[c] = "returned"
       \/ Phase[c] = "running" /\ Phase'[c] = "returned"
       \/ Phase[c] = "waiting" /\ Phase'[c] = "running" /\ inside' = inside \cup {c}

\* Such a move is a step of the abstract lock or leaves it alone.
LEMMA MovesRefine ==
  ASSUME NEW c \in Call, Moves(c), MutualExclusion'
  PROVE  [Abstract!Next]_Phase
<1>1. Phase' = [Phase EXCEPT ![c] = Phase'[c]]
  BY DEF Moves, Phase
<1>2. Phase \in [Call -> {"waiting", "running", "returned"}]
  BY DEF Phase
<1>3. CASE Phase'[c] = Phase[c]
  BY <1>1, <1>2, <1>3
<1>4. CASE Phase[c] = "waiting" /\ Phase'[c] = "returned"
  BY <1>1, <1>4 DEF Abstract!Next, Abstract!Fail
<1>5. CASE Phase[c] = "running" /\ Phase'[c] = "returned"
  BY <1>1, <1>5 DEF Abstract!Next, Abstract!Leave
<1>6. CASE Phase[c] = "waiting" /\ Phase'[c] = "running" /\ inside' = inside \cup {c}
  <2>1. \A d \in Call : Phase[d] # "running"
    <3>1. c \notin inside
      BY <1>6 DEF Phase
    <3>2. \A d \in inside : d = c
      BY <1>6 DEF MutualExclusion
    <3> QED
      BY <3>1, <3>2 DEF Phase
  <2> QED
    BY <1>1, <1>6, <2>1 DEF Abstract!Next, Abstract!Enter
<1> QED
  BY <1>3, <1>4, <1>5, <1>6 DEF Moves

\* Every step of a call is such a move.
LEMMA CallMoves ==
  ASSUME Faults \subseteq BenignFaults, ExclusionInv, NEW c \in Call, Progress(c) \/ Environment(c)
  PROVE  Moves(c)
<1> USE CallAssumption
    DEF BenignFaults, ExclusionInv, FenceInv, TypeOK, BreakInv, StampInv, JudgeInv, HoldInv, Holding,
        Moves, Phase, lockVars, brkVars, judgeVars, Goto, Return, AbortFn, Waiting, Stamping, InBreak, Over
<1>1. CASE Mkdir(c)                BY <1>1 DEF Mkdir
<1>2. CASE Judge(c)                BY <1>2 DEF Judge
<1>3. CASE EnsureLockDir(c)        BY <1>3 DEF EnsureLockDir
<1>4. CASE Stamp(c)                BY <1>4 DEF Stamp
<1>5. CASE StampMisses(c)          BY <1>5 DEF StampMisses
<1>6. CASE DropUnstamped(c)        BY <1>6 DEF DropUnstamped
<1>7. CASE Verify(c)               BY <1>7 DEF Verify
<1>8. CASE CallRefresh(c)          BY <1>8 DEF CallRefresh
<1>9. CASE FnReturns(c)            BY <1>9 DEF FnReturns
<1>10. CASE TryAgain(c)            BY <1>10 DEF TryAgain
<1>11. CASE Knock(c)               BY <1>11 DEF Knock
<1>12. CASE KnockFails(c)          BY <1>12 DEF KnockFails
<1>13. CASE Sweep(c)               BY <1>13 DEF Sweep
<1>14. CASE RereadAsBreaker(c)     BY <1>14 DEF RereadAsBreaker
<1>15. CASE RereadToRelease(c)     BY <1>15 DEF RereadToRelease
<1>16. CASE RereadToRefresh(c)     BY <1>16 DEF RereadToRefresh
<1>17. CASE RenameAside(c)         BY <1>17 DEF RenameAside
<1>18. CASE Rmdir(c)               BY <1>18 DEF Rmdir
<1>19. CASE WriteHeartbeat(c)      BY <1>19 DEF WriteHeartbeat
<1>20. CASE LeaveBreak(c)          BY <1>20 DEF LeaveBreak
<1>21. CASE Exit(c)                BY <1>21 DEF Exit, Die
<1>22. CASE Start(c)               BY <1>22 DEF Start
<1>23. CASE Timeout(c)             BY <1>23 DEF Timeout
<1>24. CASE GiveUp(c)              BY <1>24 DEF GiveUp
<1>25. CASE StampFails(c)          BY <1>25 DEF StampFails
<1>26. CASE Signal(c)              BY <1>26 DEF Signal
<1>27. CASE FnOutrunsExit(c)       BY <1>27 DEF FnOutrunsExit
<1>28. CASE RenameFails(c)         BY <1>28 DEF RenameFails
<1>29. CASE Crash(c)               BY <1>29 DEF Crash, Die
<1>30. CASE CutOff(c)              BY <1>30 DEF CutOff, Die
<1>31. CASE Scrap(c)               BY <1>31 DEF Scrap
<1>32. CASE DropUnstampedFails(c)  BY <1>32 DEF DropUnstampedFails
<1>33. CASE LookOnce(c)            BY <1>33 DEF LookOnce
<1> QED
  BY <1>1, <1>2, <1>3, <1>4, <1>5, <1>6, <1>7, <1>8, <1>9, <1>10, <1>11, <1>12, <1>13, <1>14, <1>15, <1>16,
     <1>17, <1>18, <1>19, <1>20, <1>21, <1>22, <1>23, <1>24, <1>25, <1>26, <1>27, <1>28, <1>29,
     <1>30, <1>31, <1>32, <1>33
     DEF Progress, Environment

\* Every behaviour of the directory protocol is one of the abstract lock.
THEOREM RefinesMutex ==
  ASSUME Faults \subseteq BenignFaults
  PROVE  Spec => ImplementsMutex
<1>1. Init => Abstract!Init
  BY DEF Init, Abstract!Init, Phase, Over
<1>2. ExclusionInv /\ [Next]_vars => ExclusionInv'
  BY ExclusionStep
<1>3. ExclusionInv /\ [Next]_vars => [Abstract!Next]_Phase
  <2> SUFFICES ASSUME ExclusionInv, [Next]_vars PROVE [Abstract!Next]_Phase
    OBVIOUS
  <2>1. MutualExclusion'
    BY <1>2 DEF ExclusionInv, FenceInv, TypeOK, HoldInv, Holding, MutualExclusion
  <2>2. ASSUME NEW c \in Call, Progress(c) \/ Environment(c) PROVE [Abstract!Next]_Phase
    BY <2>1, <2>2, CallMoves, MovesRefine
  <2>3. CASE AgeLock \/ AgeBreak \/ UNCHANGED vars
    BY <2>3 DEF AgeLock, AgeBreak, vars, Phase
  <2> QED
    BY <2>2, <2>3 DEF Next, Finished
<1> QED
  BY ExclusionInit, <1>1, <1>2, <1>3, PTL DEF Spec, ImplementsMutex, Abstract!Spec
=============================================================================
