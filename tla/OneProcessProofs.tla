--------------------------- MODULE OneProcessProofs ---------------------------
(* Theorems about Sessions when every actor runs one process at a time: the notes   *)
(* of a session count up, and its cards stay its cards, with crashes anywhere.      *)
EXTENDS SessionsProofs

OneProcessEach == \A p, q \in Process : ActorOf[p] = ActorOf[q] => p = q

-----------------------------------------------------------------------------
(* What is left of a command. *)

LEMMA ProgramsOrdered ==
    ASSUME NEW steps \in {PinSteps, JoinSteps, ClaimSteps, DenySteps, ReleaseSteps, ReapSteps,
                          OfferSteps, AcceptSteps, DeclineSteps}
    PROVE  Ordered(steps)
<1>1. Ordered(PinSteps)      BY DEF PinSteps, Ordered, Follows
<1>2. Ordered(JoinSteps)     BY DEF JoinSteps, Ordered, Follows
<1>3. Ordered(ClaimSteps)    BY DEF ClaimSteps, Ordered, Follows
<1>4. Ordered(DenySteps)     BY DEF DenySteps, Ordered, Follows
<1>5. Ordered(ReleaseSteps)  BY DEF ReleaseSteps, Ordered, Follows
<1>6. Ordered(ReapSteps)     BY DEF ReapSteps, Ordered, Follows
<1>7. Ordered(OfferSteps)    BY DEF OfferSteps, Ordered, Follows
<1>8. Ordered(AcceptSteps)   BY DEF AcceptSteps, Ordered, Follows
<1>9. Ordered(DeclineSteps)  BY DEF DeclineSteps, Ordered, Follows
<1> QED BY <1>1, <1>2, <1>3, <1>4, <1>5, <1>6, <1>7, <1>8, <1>9

LEMMA FirstSteps ==
    /\ \A steps \in {PinSteps, ClaimSteps, DenySteps, ReleaseSteps, ReapSteps,
                     OfferSteps, AcceptSteps, DeclineSteps} :
          Head(steps) \in {"lock", "number"} /\ steps # <<>>
    /\ Head(JoinSteps) = "actor" /\ JoinSteps # <<>>
BY DEF PinSteps, ClaimSteps, DenySteps, ReleaseSteps, ReapSteps, OfferSteps, AcceptSteps,
       DeclineSteps, JoinSteps

\* One step less.
LEMMA TailOrdered ==
    ASSUME NEW todo \in Seq(Step), Ordered(todo), todo # <<>>, Len(todo) # 1
    PROVE  /\ Ordered(Tail(todo)) /\ Follows(Head(todo), Head(Tail(todo)))
           /\ Tail(todo) # <<>> /\ Tail(todo) \in Seq(Step)
<1>1. Len(todo) \in Nat /\ Len(todo) > 1
  <2>1. Len(todo) \in Nat /\ Len(todo) # 0
    BY EmptySeq, LenProperties
  <2>2. \A n \in Nat : n # 0 /\ n # 1 => n > 1
    OBVIOUS
  <2> QED BY <2>1, <2>2, Zenon
<1>2. /\ Tail(todo) \in Seq(Step) /\ Len(Tail(todo)) = Len(todo) - 1
      /\ \A i \in 1..Len(Tail(todo)) : Tail(todo)[i] = todo[i + 1]
  BY <1>1
<1>3. /\ Head(todo) = todo[1] /\ Head(Tail(todo)) = todo[2] /\ Tail(todo) # <<>>
  <2>1. Tail(todo) # <<>>
    <3>1. Len(Tail(todo)) # 0
      BY <1>1, <1>2
    <3> QED BY <1>2, <3>1, EmptySeq
  <2>2. Head(Tail(todo)) = Tail(todo)[1] /\ 1 \in 1..Len(Tail(todo))
    BY <1>1, <1>2, <2>1
  <2>3. Tail(todo)[1] = todo[1 + 1] /\ 1 + 1 = 2
    BY <1>2, <2>2
  <2>4. Head(todo) = todo[1]
    BY <1>1
  <2> QED BY <2>1, <2>2, <2>3, <2>4
<1> DEFINE rest == Tail(todo)
<1> HIDE DEF rest
<1>4. Ordered(rest)
  <2>1. ASSUME NEW i \in 1..Len(rest), NEW j \in 1..Len(rest)
        PROVE  /\ i + 1 \in 1..Len(todo) /\ j + 1 \in 1..Len(todo)
               /\ rest[i] = todo[i + 1] /\ rest[j] = todo[j + 1]
               /\ j = i + 1 => j + 1 = (i + 1) + 1
    BY <1>1, <1>2 DEF rest
  <2>2. ASSUME NEW i \in 1..Len(rest), NEW j \in 1..Len(rest), j = i + 1
        PROVE  Follows(rest[i], rest[j])
    BY <2>1, <2>2 DEF Ordered
  <2> QED BY <2>2 DEF Ordered
<1>5. Follows(Head(todo), Head(rest))
  <2>1. 1 \in 1..Len(todo) /\ 2 \in 1..Len(todo) /\ 2 = 1 + 1
    BY <1>1
  <2>2. Follows(todo[1], todo[2])
    BY <2>1 DEF Ordered
  <2> QED BY <1>3, <2>2 DEF rest
<1> QED BY <1>2, <1>3, <1>4, <1>5 DEF rest

-----------------------------------------------------------------------------
(* A step of one process, seen by the others. *)

\* The parts of AloneInv that are about no process in particular.
ActorsApart ==
    /\ \A a, b \in Actor : current[a] # None /\ current[a] = current[b] => a = b
    /\ \A a \in Actor : current[a] # None => current[a] \in DOMAIN used

RecordsGoOn ==
    /\ \A s \in DOMAIN record : \E a \in Actor : current[a] = s
    /\ \A c \in DOMAIN card : card[c].owner \in DOMAIN record

NotesReached(s) == \A i \in 1..Len(wall[s]) : wall[s][i] <= OnDisk(s).seq
NotesInOrder(s) == \A i, j \in 1..Len(wall[s]) : i < j => wall[s][i] < wall[s][j]

LEMMA AloneParts ==
    AloneInv <=>
      /\ TokensInv /\ ActorsApart /\ RecordsGoOn
      /\ \A s \in Session : NotesReached(s) /\ NotesInOrder(s)
      /\ \A p \in Process : proc[p].todo # <<>> => Alone(p)
BY DEF AloneInv, NotesCountUp, ActorsApart, RecordsGoOn, NotesReached, NotesInOrder

\* Nobody else has to do with the session s.
Private(p, s) ==
    /\ \A b \in Actor : b # ActorOf[p] => current[b] # s
    /\ \A q \in Process : q # p /\ proc[q].todo # <<>> => Mine(q) # s

\* What p, which works for the session s, may change: the entry of its actor, the record and
\* the notes of s, the cards of s, and cards that go down.
Frame(p, s) ==
    /\ \A b \in Actor : b # ActorOf[p] => current'[b] = current[b]
    /\ \/ current'[ActorOf[p]] = current[ActorOf[p]]
       \/ current'[ActorOf[p]] = s /\ current[ActorOf[p]] \notin DOMAIN record
    /\ DOMAIN used \subseteq DOMAIN used' /\ s \in DOMAIN used'
    /\ \/ DOMAIN record' = DOMAIN record
       \/ DOMAIN record' = DOMAIN record \cup {s} /\ current'[ActorOf[p]] = s
    /\ \A x \in DOMAIN record : x # s => record'[x] = record[x]
    /\ \A c \in DOMAIN card' :
          \/ c \in DOMAIN card /\ card'[c].owner = card[c].owner
          \/ card'[c].owner = s /\ s \in DOMAIN record
    /\ \A x \in Session : x # s => wall'[x] = wall[x]

\* Alone(p) after a step, by what p then has in memory.
LEMMA AloneWhen ==
    ASSUME NEW p \in Process, NEW mem, proc'[p] = mem, NEW s, mem.photo.id = s,
           s \in DOMAIN used', Ordered(mem.todo),
           \A b \in Actor : b # ActorOf[p] => current'[b] # s,
           \A q \in Process : q # p /\ proc'[q].todo # <<>> => proc'[q].photo.id # s,
           \/ current'[ActorOf[p]] = s
           \/ Head(mem.todo) = "actor" /\ current'[ActorOf[p]] \notin DOMAIN record',
           Head(mem.todo) \notin {"actor", "prior", "session"} => s \in DOMAIN record',
           Head(mem.todo) \notin {"actor", "prior"} => mem.photo = WithId(s, OnDisk(s)'),
           Head(mem.todo) \in {"keep", "forget"} => mem.fresh = OnDisk(s)',
           Head(mem.todo) = "pin" => \A i \in 1..Len(wall'[s]) : wall'[s][i] < mem.photo.seq
    PROVE  Alone(p)'
BY DEF Alone, Mine, OnDisk

LEMMA OthersStayAlone ==
    ASSUME AloneInv, OneProcessEach, NEW p \in Process, NEW s \in Session, Private(p, s),
           Frame(p, s), NEW mem, proc' = [proc EXCEPT ![p] = mem],
           mem.todo # <<>> => mem.photo.id = s,
           NEW q \in Process, q # p, proc[q].todo # <<>>
    PROVE  Alone(q)'
<1>1. /\ proc \in [Process -> Memory] /\ Alone(q) /\ ActorOf[q] # ActorOf[p]
      /\ ActorOf[p] \in Actor /\ ActorOf[q] \in Actor
  BY AloneParts, InvParts, ActorAssumption DEF OneProcessEach
<1>2. proc'[q] = proc[q] /\ Mine(q) # s /\ Mine(q) \in Session
  <2>1. Sound(used, proc[q])
    BY AloneParts, InvParts
  <2> QED BY <1>1, <2>1 DEF Private, Sound, Mine
<1>16. PICK x : x = Mine(q)
  OBVIOUS
<1> DEFINE next == Head(proc[q].todo)
<1>3. x \in DOMAIN used' /\ Ordered(proc[q].todo)
  BY <1>16, <1>1 DEF Alone, Frame
<1>4. \A b \in Actor : b # ActorOf[q] => current'[b] # x
  BY <1>16, <1>1, <1>2 DEF Alone, Frame
<1>5. \A r \in Process : r # q /\ proc'[r].todo # <<>> => proc'[r].photo.id # x
  <2> SUFFICES ASSUME NEW r \in Process, r # q, proc'[r].todo # <<>>
               PROVE  proc'[r].photo.id # x
    OBVIOUS
  <2>1. CASE r = p
    BY <1>16, <1>1, <1>2, <2>1
  <2>2. CASE r # p
    <3>1. proc'[r] = proc[r]
      BY <1>16, <1>1, <2>2
    <3> QED BY <1>16, <1>1, <3>1 DEF Alone, Mine
  <2> QED BY <2>1, <2>2
<1>6. /\ current'[ActorOf[q]] = current[ActorOf[q]]
      /\ current[ActorOf[q]] # s
  BY <1>16, <1>1 DEF Frame, Private
<1>7. \A y : y # s => (y \in DOMAIN record' <=> y \in DOMAIN record)
  BY DEF Frame
<1>8. current'[ActorOf[q]] = x \/ (next = "actor" /\ current'[ActorOf[q]] \notin DOMAIN record')
  BY <1>16, <1>1, <1>6, <1>7 DEF Alone
<1>9. next \notin {"actor", "prior", "session"} => x \in DOMAIN record'
  BY <1>16, <1>1, <1>2, <1>7 DEF Alone
<1>10. OnDisk(x)' = OnDisk(x)
  BY <1>16, <1>2, <1>7 DEF OnDisk, Frame
<1>11. wall'[x] = wall[x]
  BY <1>16, <1>2 DEF Frame
<1>13. /\ next \notin {"actor", "prior"} => proc[q].photo = WithId(x, OnDisk(x))
       /\ next \in {"keep", "forget"} => proc[q].fresh = OnDisk(x)
       /\ next = "pin" => \A i \in 1..Len(wall[x]) : wall[x][i] < proc[q].photo.seq
  BY <1>16, <1>1 DEF Alone
<1>15. x = proc[q].photo.id
  BY <1>16 DEF Mine
<1> QED
  BY <1>2, <1>3, <1>4, <1>5, <1>8, <1>9, <1>10, <1>11, <1>13, <1>15, AloneWhen

LEMMA FrameSound ==
    ASSUME AloneInv, OneProcessEach, TokensInv', NEW p \in Process, NEW s \in Session,
           Private(p, s), Frame(p, s), NEW mem, proc' = [proc EXCEPT ![p] = mem],
           mem.todo # <<>> => mem.photo.id = s /\ Alone(p)',
           NotesReached(s)', NotesInOrder(s)'
    PROVE  AloneInv'
<1>1. /\ proc \in [Process -> Memory] /\ ActorOf[p] \in Actor
      /\ ActorsApart /\ RecordsGoOn /\ \A x \in Session : NotesReached(x) /\ NotesInOrder(x)
  BY AloneParts, InvParts, ActorAssumption
<1>2. ActorsApart'
  <2>1. ASSUME NEW a \in Actor, NEW b \in Actor, current'[a] # None, current'[a] = current'[b]
        PROVE  a = b
    BY <1>1, <2>1 DEF Frame, Private, ActorsApart
  <2>2. ASSUME NEW a \in Actor, current'[a] # None PROVE current'[a] \in DOMAIN used'
    BY <1>1, <2>2 DEF Frame, ActorsApart
  <2> QED BY <2>1, <2>2 DEF ActorsApart
<1>3. RecordsGoOn'
  <2>1. ASSUME NEW x \in DOMAIN record' PROVE \E a \in Actor : current'[a] = x
    <3>1. CASE x \in DOMAIN record
      <4>1. PICK a \in Actor : current[a] = x
        BY <1>1, <3>1 DEF RecordsGoOn
      <4>2. current'[a] = x \/ current'[ActorOf[p]] = x
        BY <3>1, <4>1 DEF Frame
      <4> QED BY <1>1, <4>2
    <3>2. CASE x \notin DOMAIN record
      BY <1>1, <2>1, <3>2 DEF Frame
    <3> QED BY <3>1, <3>2
  <2>2. ASSUME NEW c \in DOMAIN card' PROVE card'[c].owner \in DOMAIN record'
    <3>1. DOMAIN record \subseteq DOMAIN record'
      BY DEF Frame
    <3> QED BY <1>1, <2>2, <3>1 DEF Frame, RecordsGoOn
  <2> QED BY <2>1, <2>2 DEF RecordsGoOn
<1>4. ASSUME NEW x \in Session PROVE NotesReached(x)' /\ NotesInOrder(x)'
  <2>1. CASE x = s
    BY <2>1 DEF NotesReached, NotesInOrder, OnDisk
  <2>2. CASE x # s
    <3>1. wall'[x] = wall[x] /\ OnDisk(x)' = OnDisk(x)
      BY <2>2 DEF Frame, OnDisk
    <3> QED BY <1>1, <3>1 DEF NotesReached, NotesInOrder
  <2> QED BY <2>1, <2>2
<1>5. ASSUME NEW q \in Process, proc'[q].todo # <<>> PROVE Alone(q)'
  <2>1. CASE q = p
    <3>1. Alone(p)'
      BY <1>1, <1>5, <2>1
    <3> QED BY <2>1, <3>1
  <2>2. CASE q # p
    <3>1. proc'[q] = proc[q]
      BY <1>1, <2>2
    <3> QED BY <1>5, <2>2, <3>1, OthersStayAlone
  <2> QED BY <2>1, <2>2
<1>6. \A x \in Session : NotesReached(x)' /\ NotesInOrder(x)'
  BY <1>4
<1>7. \A q \in Process : proc'[q].todo # <<>> => Alone(q)'
  BY <1>5
<1> QED BY <1>2, <1>3, <1>6, <1>7
        DEF AloneInv, NotesCountUp, ActorsApart, RecordsGoOn, NotesReached, NotesInOrder

\* A step of a process that is in a command, by what it then has in memory.
LEMMA StepAlone ==
    ASSUME AloneInv, OneProcessEach, TokensInv', NEW p \in Process, NEW step, Take(p, step),
           NEW s \in Session, s = Mine(p), Frame(p, s),
           NEW mem \in Memory, Then(p, mem), mem.todo = proc[p].todo, mem.photo.id = s,
           current'[ActorOf[p]] = s,
           step \notin {"actor", "prior"} => s \in DOMAIN record',
           step # "actor" => mem.photo = WithId(s, OnDisk(s)'),
           step = "fetch" => mem.fresh = OnDisk(s)',
           step = "number" => \A i \in 1..Len(wall'[s]) : wall'[s][i] < mem.photo.seq,
           NotesReached(s)', NotesInOrder(s)'
    PROVE  AloneInv'
<1>1. /\ proc \in [Process -> Memory] /\ Alone(p) /\ proc[p].todo # <<>> /\ Head(proc[p].todo) = step
  BY AloneParts, InvParts DEF Take
<1>2. Private(p, s)
  BY <1>1 DEF Alone, Private
<1> DEFINE after == After(mem)
<1>3. proc' = [proc EXCEPT ![p] = after]
  BY DEF Then
<1>4. CASE Len(mem.todo) = 1
  <2>1. after.todo = <<>>
    BY <1>4 DEF After, Idle
  <2> QED BY <1>2, <1>3, <2>1, FrameSound
<1>5. CASE Len(mem.todo) # 1
  <2> DEFINE rest == Tail(mem.todo)
             next == Head(rest)
  <2>1. /\ mem.todo \in Seq(Step) /\ Ordered(mem.todo) /\ mem.todo # <<>> /\ Head(mem.todo) = step
    BY <1>1 DEF Alone, Memory
  <2>2. /\ Ordered(rest) /\ Follows(step, next) /\ rest # <<>>
        /\ rest \in Seq(Step)
    BY <1>5, <2>1, TailOrdered
  <2>3. after = [mem EXCEPT !.todo = rest]
    BY <1>5 DEF After
  <2> HIDE DEF rest, after, next
  <2>4. /\ after.todo = rest /\ after.photo = mem.photo /\ after.fresh = mem.fresh
    BY <2>2, <2>3 DEF Memory
  <2>5. proc'[p] = after /\ s \in DOMAIN used'
    BY <1>1, <1>3 DEF Frame
  <2>6. \A b \in Actor : b # ActorOf[p] => current'[b] # s
    BY <1>2 DEF Frame, Private
  <2>7. \A q \in Process : q # p /\ proc'[q].todo # <<>> => proc'[q].photo.id # s
    BY <1>1, <1>2, <1>3 DEF Private, Mine
  <2>8. next # "actor" /\ (step = "actor" => next = "prior") /\ (step = "prior" => next = "session")
    BY <2>2 DEF Follows
  <2>9. next \notin {"actor", "prior", "session"} => s \in DOMAIN record'
    BY <2>8
  <2>10. next \notin {"actor", "prior"} => after.photo = WithId(s, OnDisk(s)')
    BY <2>4, <2>8
  <2>11. next \in {"keep", "forget"} => after.fresh = OnDisk(s)'
    BY <2>2, <2>4 DEF Follows
  <2>12. next = "pin" => \A i \in 1..Len(wall'[s]) : wall'[s][i] < after.photo.seq
    BY <2>2, <2>4 DEF Follows
  <2>15. Alone(p)'
    BY <2>2, <2>4, <2>5, <2>6, <2>7, <2>8, <2>9, <2>10, <2>11, <2>12, AloneWhen
       DEF next
  <2> QED BY <1>2, <1>3, <2>4, <2>15, FrameSound
<1> QED BY <1>4, <1>5

-----------------------------------------------------------------------------
(* The steps of a command. *)

LEMMA InAlone ==
    ASSUME AloneInv, NEW p \in Process, NEW step, Take(p, step)
    PROVE  /\ Alone(p) /\ proc[p] \in Memory /\ proc[p].photo.id = Mine(p)
           /\ Mine(p) \in Session /\ Mine(p) \in DOMAIN used
           /\ NotesReached(Mine(p)) /\ NotesInOrder(Mine(p))
           /\ TypesOf(current, record, card, wall, mutex, used) /\ ActorOf[p] \in Actor
           /\ step # "actor" => current[ActorOf[p]] = Mine(p)
           /\ step = "actor" =>
                 current[ActorOf[p]] = Mine(p) \/ current[ActorOf[p]] \notin DOMAIN record
           /\ step \notin {"actor", "prior", "session"} => Mine(p) \in DOMAIN record
           /\ step \notin {"actor", "prior"} => proc[p].photo = WithId(Mine(p), OnDisk(Mine(p)))
           /\ step \in {"keep", "forget"} => proc[p].fresh = OnDisk(Mine(p))
           /\ step = "pin" =>
                 \A i \in 1..Len(wall[Mine(p)]) : wall[Mine(p)][i] < proc[p].photo.seq
<1>1. TokensInv /\ proc[p].todo # <<>> /\ Head(proc[p].todo) = step
  BY AloneParts DEF Take
<1>2. /\ Alone(p) /\ proc[p] \in Memory /\ Mine(p) \in Session
      /\ TypesOf(current, record, card, wall, mutex, used)
  BY <1>1, AloneParts, InCommand
<1>3. NotesReached(Mine(p)) /\ NotesInOrder(Mine(p)) /\ ActorOf[p] \in Actor
  BY <1>2, AloneParts, ActorAssumption
<1>4. proc[p].photo.id = Mine(p)
  BY DEF Mine
<1> QED BY <1>1, <1>2, <1>3, <1>4 DEF Alone

\* A step that is about neither the record nor the notes.
LEMMA QuietAlone ==
    ASSUME AloneInv, OneProcessEach, TokensInv', NEW p \in Process, NEW step, Take(p, step),
           step \notin {"actor", "prior", "session", "fetch", "number", "take", "accept"},
           Done(p), UNCHANGED <<current, record, wall, used>>,
           \A c \in DOMAIN card' : c \in DOMAIN card /\ card'[c].owner = card[c].owner
    PROVE  AloneInv'
<1> DEFINE mem == proc[p]
<1>1. PICK s : s = Mine(p)
  OBVIOUS
<1>2. /\ mem \in Memory /\ mem.photo.id = s /\ s \in Session /\ s \in DOMAIN used
      /\ NotesReached(s) /\ NotesInOrder(s) /\ current[ActorOf[p]] = s
      /\ s \in DOMAIN record /\ mem.photo = WithId(s, OnDisk(s))
  BY <1>1, InAlone
<1>3. Frame(p, s)
  BY <1>2 DEF Frame
<1>4. OnDisk(s)' = OnDisk(s)
  BY DEF OnDisk
<1>5. NotesReached(s)' /\ NotesInOrder(s)'
  BY <1>2, <1>4 DEF NotesReached, NotesInOrder
<1>7. Then(p, mem)
  BY DEF Done
<1> HIDE DEF mem
<1>8. mem.todo = proc[p].todo
  BY DEF mem
<1> QED BY <1>1, <1>2, <1>3, <1>4, <1>5, <1>7, <1>8, StepAlone

LEMMA QuietStepsAlone ==
    ASSUME AloneInv, OneProcessEach, TokensInv', NEW p \in Process,
           Lock(p) \/ Unlock(p) \/ SweepEnds(p) \/ TakeDown(p) \/ DeclineCard(p)
             \/ \E a \in Actor : OfferCard(p, a)
    PROVE  AloneInv'
<1>1. CASE Lock(p) \/ Unlock(p) \/ SweepEnds(p)
  BY <1>1, QuietAlone DEF Lock, Unlock, SweepEnds
<1>2. CASE TakeDown(p)
  <2>1. /\ card' = [x \in DOMAIN card \ {About(p)} |-> card[x]]
        /\ UNCHANGED <<current, record, wall, used>> /\ Take(p, "down") /\ Done(p)
    BY <1>2 DEF TakeDown, Archive
  <2> QED BY <2>1, QuietAlone
<1>3. ASSUME NEW a, card' = [card EXCEPT ![About(p)].to = a]
      PROVE  \A c \in DOMAIN card' : c \in DOMAIN card /\ card'[c].owner = card[c].owner
  <2>1. card \in [DOMAIN card -> CardRec]
    BY AloneParts, InvParts DEF TypesOf
  <2> QED BY <1>3, <2>1 DEF CardRec
<1>4. CASE DeclineCard(p)
  <2>1. /\ card' = card \/ card' = [card EXCEPT ![About(p)].to = None]
        /\ UNCHANGED <<current, record, wall, used>> /\ Take(p, "decline") /\ Done(p)
    BY <1>4 DEF DeclineCard
  <2> QED BY <1>3, <2>1, QuietAlone
<1>5. ASSUME NEW a \in Actor, OfferCard(p, a) PROVE AloneInv'
  <2>1. /\ card' = [card EXCEPT ![About(p)].to = a]
        /\ UNCHANGED <<current, record, wall, used>> /\ Take(p, "offer") /\ Done(p)
    BY <1>5 DEF OfferCard
  <2> QED BY <1>3, <2>1, QuietAlone
<1> QED BY <1>1, <1>2, <1>4, <1>5

\* The note gets the number that the record on disk has reached, and no note has yet.
LEMMA PinNoteAlone ==
    ASSUME AloneInv, OneProcessEach, TokensInv', NEW p \in Process, PinNote(p)
    PROVE  AloneInv'
<1> DEFINE mem == proc[p]
<1>1. PICK s : s = Mine(p)
  OBVIOUS
<1>2. /\ Take(p, "pin") /\ Then(p, mem) /\ UNCHANGED <<current, record, card, mutex, used>>
      /\ wall' = [wall EXCEPT ![s] = Append(wall[s], mem.photo.seq)]
  BY <1>1 DEF PinNote, Done
<1>3. /\ mem \in Memory /\ mem.photo.id = s /\ s \in Session /\ s \in DOMAIN used
      /\ NotesReached(s) /\ NotesInOrder(s) /\ current[ActorOf[p]] = s
      /\ s \in DOMAIN record /\ mem.photo = WithId(s, OnDisk(s))
      /\ \A i \in 1..Len(wall[s]) : wall[s][i] < mem.photo.seq
      /\ TypesOf(current, record, card, wall, mutex, used)
  BY <1>1, <1>2, InAlone
<1>4. mem.photo.seq = OnDisk(s).seq /\ mem.photo.seq \in Nat
  BY <1>3 DEF WithId, Memory, Photo
<1>5. /\ wall'[s] = Append(wall[s], mem.photo.seq) /\ wall[s] \in Seq(Nat)
      /\ \A x \in Session : x # s => wall'[x] = wall[x]
  BY <1>2, <1>3 DEF TypesOf
<1>6. /\ Len(wall[s]) \in Nat /\ Len(wall'[s]) = Len(wall[s]) + 1
      /\ wall'[s][Len(wall[s]) + 1] = mem.photo.seq
      /\ \A i \in 1..Len(wall[s]) : wall'[s][i] = wall[s][i] /\ wall[s][i] \in Nat
  BY <1>4, <1>5, AppendProperties, ElementOfSeq, LenProperties
<1>7. OnDisk(s)' = OnDisk(s)
  BY <1>2 DEF OnDisk
<1>8. NotesReached(s)'
  <2> SUFFICES ASSUME NEW i \in 1..Len(wall'[s]) PROVE wall'[s][i] <= OnDisk(s).seq
    BY <1>7 DEF NotesReached
  <2>1. i \in 1..Len(wall[s]) \/ i = Len(wall[s]) + 1
    BY <1>6
  <2> QED BY <1>3, <1>4, <1>6, <2>1 DEF NotesReached
<1>9. NotesInOrder(s)'
  <2> SUFFICES ASSUME NEW i \in 1..Len(wall'[s]), NEW j \in 1..Len(wall'[s]), i < j
               PROVE  wall'[s][i] < wall'[s][j]
    BY DEF NotesInOrder
  <2>1. i \in 1..Len(wall[s]) /\ (j \in 1..Len(wall[s]) \/ j = Len(wall[s]) + 1)
    BY <1>6
  <2> QED BY <1>3, <1>6, <2>1 DEF NotesInOrder
<1>10. Frame(p, s)
  BY <1>2, <1>3, <1>5 DEF Frame
<1> HIDE DEF mem
<1>12. mem.todo = proc[p].todo
  BY DEF mem
<1> QED BY <1>1, <1>2, <1>3, <1>7, <1>8, <1>9, <1>10, <1>12, StepAlone

\* A join writes the actor first: its old entry had no record, or is the same.
LEMMA WriteActorAlone ==
    ASSUME AloneInv, OneProcessEach, TokensInv', NEW p \in Process, WriteActor(p)
    PROVE  AloneInv'
<1> DEFINE mem == proc[p]
<1>1. PICK s : s = Mine(p)
  OBVIOUS
<1>2. /\ Take(p, "actor") /\ Then(p, mem) /\ UNCHANGED <<record, card, wall, used>>
      /\ current' = [current EXCEPT ![ActorOf[p]] = s]
  BY <1>1 DEF WriteActor, Done
<1>3. /\ mem \in Memory /\ mem.photo.id = s /\ s \in Session /\ s \in DOMAIN used
      /\ NotesReached(s) /\ NotesInOrder(s) /\ ActorOf[p] \in Actor
      /\ current[ActorOf[p]] = s \/ current[ActorOf[p]] \notin DOMAIN record
      /\ TypesOf(current, record, card, wall, mutex, used)
  BY <1>1, <1>2, InAlone
<1>4. current'[ActorOf[p]] = s /\ \A b \in Actor : b # ActorOf[p] => current'[b] = current[b]
  BY <1>2, <1>3 DEF TypesOf
<1>5. Frame(p, s)
  BY <1>2, <1>3, <1>4 DEF Frame
<1>6. NotesReached(s)' /\ NotesInOrder(s)'
  BY <1>2, <1>3 DEF NotesReached, NotesInOrder, OnDisk
<1> HIDE DEF mem
<1>8. mem.todo = proc[p].todo
  BY DEF mem
<1> QED BY <1>1, <1>2, <1>3, <1>4, <1>5, <1>6, <1>8, StepAlone

\* The record is read, as the photograph or beside it.
LEMMA ReadAlone ==
    ASSUME AloneInv, OneProcessEach, TokensInv', NEW p \in Process,
           ReadPrior(p) \/ Reread(p) \/ Fetch(p)
    PROVE  AloneInv'
<1>1. PICK s : s = Mine(p)
  OBVIOUS
<1>2. PICK step, mem :
        /\ step \in {"prior", "reread", "fetch"}
        /\ Take(p, step) /\ Then(p, mem)
        /\ \/ step # "fetch" /\ mem = [proc[p] EXCEPT !.photo = WithId(s, OnDisk(s))]
           \/ step = "fetch" /\ mem = [proc[p] EXCEPT !.fresh = OnDisk(s)]
  BY <1>1 DEF ReadPrior, Reread, Fetch, Prior
<1>3. UNCHANGED <<current, record, card, wall, mutex, used>>
  BY DEF ReadPrior, Reread, Fetch
<1>4. /\ proc[p] \in Memory /\ proc[p].photo.id = s /\ s \in Session /\ s \in DOMAIN used
      /\ NotesReached(s) /\ NotesInOrder(s) /\ current[ActorOf[p]] = s
      /\ step # "prior" => s \in DOMAIN record /\ proc[p].photo = WithId(s, OnDisk(s))
      /\ TypesOf(current, record, card, wall, mutex, used)
  BY <1>1, <1>2, InAlone
<1>5. OnDisk(s) \in Record /\ WithId(s, OnDisk(s)) \in Photo /\ WithId(s, OnDisk(s)).id = s
  <2>1. RecordsSound(used, record)
    BY AloneParts, InvParts
  <2>2. OnDisk(s) \in Record
    BY <1>4, <2>1, OnDiskSound
  <2> QED BY <1>4, <2>2, WithIdType
<1>6. /\ mem \in Memory /\ mem.todo = proc[p].todo /\ mem.photo = WithId(s, OnDisk(s))
      /\ step = "fetch" => mem.fresh = OnDisk(s)
  <2>1. CASE step # "fetch"
    BY <1>2, <1>4, <1>5, <2>1 DEF Memory
  <2>2. CASE step = "fetch"
    BY <1>2, <1>4, <1>5, <2>2 DEF Memory
  <2> QED BY <2>1, <2>2
<1>7. OnDisk(s)' = OnDisk(s)
  BY <1>3 DEF OnDisk
<1>8. Frame(p, s) /\ NotesReached(s)' /\ NotesInOrder(s)'
  BY <1>3, <1>4, <1>7 DEF Frame, NotesReached, NotesInOrder
<1>9. mem.photo.id = s
  BY <1>5, <1>6
<1> QED BY <1>1, <1>2, <1>3, <1>4, <1>6, <1>7, <1>8, <1>9, StepAlone

\* What a process that writes its record does, if the record has no lower number than before.
LEMMA WriteFrame ==
    ASSUME AloneInv, NEW p \in Process, NEW s \in Session, s \in DOMAIN used,
           current[ActorOf[p]] = s, NEW r \in Record, r.seq >= OnDisk(s).seq,
           record' = Put(record, s, r), UNCHANGED <<current, card, wall, used>>
    PROVE  /\ Frame(p, s) /\ NotesReached(s)' /\ NotesInOrder(s)'
           /\ OnDisk(s)' = r /\ s \in DOMAIN record'
<1>1. /\ DOMAIN record' = DOMAIN record \cup {s} /\ record'[s] = r
      /\ \A x \in DOMAIN record : x # s => record'[x] = record[x]
  BY DEF Put
<1>2. OnDisk(s)' = r
  BY <1>1 DEF OnDisk
<1>3. Frame(p, s)
  BY <1>1 DEF Frame
<1>4. /\ TypesOf(current, record, card, wall, mutex, used) /\ RecordsSound(used, record)
      /\ NotesReached(s) /\ NotesInOrder(s)
  BY AloneParts, InvParts
<1>5. OnDisk(s).seq \in Nat /\ r.seq \in Nat
  BY <1>4, OnDiskSound DEF Record
<1>6. ASSUME NEW i \in 1..Len(wall[s]) PROVE wall[s][i] <= r.seq
  <2>1. wall[s][i] \in Nat
    BY <1>4, ElementOfSeq DEF TypesOf
  <2>2. wall[s][i] <= OnDisk(s).seq
    BY <1>4 DEF NotesReached
  <2> QED BY <1>5, <2>1, <2>2
<1>7. NotesReached(s)' /\ NotesInOrder(s)'
  BY <1>2, <1>4, <1>6 DEF NotesReached, NotesInOrder
<1> QED BY <1>1, <1>2, <1>3, <1>7

\* A join writes back what it read.
LEMMA WriteJoinedAlone ==
    ASSUME AloneInv, OneProcessEach, TokensInv', NEW p \in Process, WriteJoined(p)
    PROVE  AloneInv'
<1> DEFINE mem == proc[p]
           r == [seq |-> mem.photo.seq, tokens |-> mem.photo.tokens]
<1>1. PICK s : s = Mine(p)
  OBVIOUS
<1>2. /\ Take(p, "session") /\ Then(p, mem) /\ UNCHANGED <<current, card, wall, mutex, used>>
      /\ record' = Put(record, s, r)
  BY <1>1 DEF WriteJoined, WriteSession, Done
<1>3. /\ mem \in Memory /\ mem.photo.id = s /\ s \in Session /\ s \in DOMAIN used
      /\ current[ActorOf[p]] = s /\ mem.photo = WithId(s, OnDisk(s))
  BY <1>1, <1>2, InAlone
<1>4. OnDisk(s) \in Record
  BY <1>3, AloneParts, InvParts, OnDiskSound
<1>5. r = OnDisk(s) /\ r \in Record /\ r.seq >= OnDisk(s).seq
  BY <1>3, <1>4 DEF WithId, Record
<1> HIDE DEF mem, r
<1>7. /\ Frame(p, s) /\ NotesReached(s)' /\ NotesInOrder(s)' /\ OnDisk(s)' = r
      /\ s \in DOMAIN record'
  BY <1>2, <1>3, <1>5, WriteFrame
<1>8. mem.photo = WithId(s, OnDisk(s)')
  BY <1>3, <1>5, <1>7
<1>9. mem.todo = proc[p].todo
  BY DEF mem
<1> QED BY <1>1, <1>2, <1>3, <1>7, <1>8, <1>9, StepAlone

\* No note has the next number yet.
LEMMA NumberAlone ==
    ASSUME AloneInv, OneProcessEach, TokensInv', NEW p \in Process, Number(p)
    PROVE  AloneInv'
<1> DEFINE next == [proc[p].photo EXCEPT !.seq = @ + 1]
           mem  == [proc[p] EXCEPT !.photo = next]
           r    == [seq |-> next.seq, tokens |-> next.tokens]
<1>1. PICK s : s = Mine(p)
  OBVIOUS
<1>2. /\ Take(p, "number") /\ Then(p, mem) /\ UNCHANGED <<current, card, wall, mutex, used>>
      /\ record' = Put(record, s, r)
  BY <1>1 DEF Number, WriteSession
<1>3. /\ proc[p] \in Memory /\ proc[p].photo.id = s /\ s \in Session /\ s \in DOMAIN used
      /\ current[ActorOf[p]] = s /\ proc[p].photo = WithId(s, OnDisk(s)) /\ NotesReached(s)
      /\ TypesOf(current, record, card, wall, mutex, used)
  BY <1>1, <1>2, InAlone
<1>4. OnDisk(s) \in Record
  BY <1>3, AloneParts, InvParts, OnDiskSound
<1>5. /\ next \in Photo /\ next.id = s /\ r \in Record /\ next = WithId(s, r)
      /\ r.seq = OnDisk(s).seq + 1 /\ OnDisk(s).seq \in Nat
  BY <1>3, <1>4 DEF WithId, Record, Photo, Memory
<1>6. /\ mem \in Memory /\ mem.todo = proc[p].todo /\ mem.photo = next
  BY <1>3, <1>5 DEF Memory
<1> HIDE DEF mem, r, next
<1>7. r.seq >= OnDisk(s).seq
  BY <1>5
<1>8. /\ Frame(p, s) /\ NotesReached(s)' /\ NotesInOrder(s)' /\ OnDisk(s)' = r
      /\ s \in DOMAIN record'
  BY <1>2, <1>3, <1>5, <1>7, WriteFrame
<1>9. ASSUME NEW i \in 1..Len(wall'[s]) PROVE wall'[s][i] < mem.photo.seq
  <2>1. wall' = wall /\ wall[s][i] \in Nat
    BY <1>2, <1>3, ElementOfSeq DEF TypesOf
  <2>2. wall[s][i] <= OnDisk(s).seq
    BY <1>3, <2>1 DEF NotesReached
  <2>3. mem.photo.seq = OnDisk(s).seq + 1
    BY <1>5, <1>6 DEF WithId
  <2> QED BY <1>5, <2>1, <2>2, <2>3
<1>10. mem.photo = WithId(s, OnDisk(s)') /\ mem.photo.id = s
  BY <1>5, <1>6, <1>8
<1>11. current'[ActorOf[p]] = s
  BY <1>2, <1>3
<1> QED BY <1>1, <1>2, <1>3, <1>6, <1>8, <1>9, <1>10, <1>11, StepAlone

\* The record that is written is the one of now, with one token changed.
LEMMA MutateAlone ==
    ASSUME AloneInv, OneProcessEach, TokensInv', NEW p \in Process,
           NEW step \in {"keep", "forget"}, Take(p, step), NEW t \in Token \cup {None}, Mutate(p, t)
    PROVE  AloneInv'
<1> DEFINE r   == [proc[p].fresh EXCEPT !.tokens[About(p)] = t]
           mem == [proc[p] EXCEPT !.photo.tokens = r.tokens]
<1>1. PICK s : s = Mine(p)
  OBVIOUS
<1>2. proc[p] \in Memory /\ proc[p].fresh \in Record /\ proc[p].photo \in Photo
  BY InAlone DEF Memory
<1>3. /\ proc[p].photo.id = s /\ s \in Session /\ s \in DOMAIN used
      /\ current[ActorOf[p]] = s /\ proc[p].photo = WithId(s, OnDisk(s))
      /\ proc[p].fresh = OnDisk(s)
  BY <1>1, InAlone
<1>4. r \in Record /\ r.seq = OnDisk(s).seq /\ r.seq \in Nat
  BY <1>2, <1>3 DEF Record, Tokens
<1>5. /\ Then(p, mem) /\ UNCHANGED <<current, card, wall, mutex, used>>
      /\ record' = Put(record, s, [seq |-> r.seq, tokens |-> r.tokens])
  BY <1>1 DEF Mutate, WriteSession
<1> HIDE DEF r
<1>6. [seq |-> r.seq, tokens |-> r.tokens] = r
  BY <1>4 DEF Record
<1>7. /\ mem \in Memory /\ mem.todo = proc[p].todo /\ mem.photo = WithId(s, r)
  BY <1>2, <1>3, <1>4 DEF Memory, Photo, Record, WithId
<1> HIDE DEF mem
<1>8. /\ Frame(p, s) /\ NotesReached(s)' /\ NotesInOrder(s)' /\ OnDisk(s)' = r
      /\ s \in DOMAIN record'
  BY <1>3, <1>4, <1>5, <1>6, WriteFrame
<1>9. mem.photo = WithId(s, OnDisk(s)') /\ mem.photo.id = s /\ current'[ActorOf[p]] = s
  BY <1>3, <1>5, <1>7, <1>8 DEF WithId
<1> QED BY <1>1, <1>3, <1>5, <1>7, <1>8, <1>9, StepAlone

LEMMA TokenStepAlone ==
    ASSUME AloneInv, OneProcessEach, TokensInv', NEW p \in Process, KeepToken(p) \/ ForgetToken(p)
    PROVE  AloneInv'
<1>1. CASE KeepToken(p)
  <2>1. Take(p, "keep") /\ Mutate(p, proc[p].minted)
    BY <1>1 DEF KeepToken
  <2>2. proc[p].minted \in Token \cup {None}
    BY <2>1, InAlone DEF Memory
  <2> QED BY <2>1, <2>2, MutateAlone
<1>2. CASE ForgetToken(p)
  BY <1>2, MutateAlone DEF ForgetToken
<1> QED BY <1>1, <1>2

\* A card that p puts up, or that comes to it, is the card of a session with a record.
LEMMA MintAlone ==
    ASSUME AloneInv, OneProcessEach, TokensInv', NEW p \in Process, NEW t \in Token,
           TakeCard(p, t) \/ AcceptCard(p, t)
    PROVE  AloneInv'
<1> DEFINE mem == [proc[p] EXCEPT !.minted = t]
<1>1. PICK s, c : s = Mine(p) /\ c = About(p)
  OBVIOUS
<1>2. PICK step \in {"take", "accept"} :
        /\ Take(p, step) /\ Then(p, mem) /\ UNCHANGED <<current, record, wall, mutex>>
        /\ used' = Put(used, t, s)
        /\ \/ card' = Put(card, c, [owner |-> s, token |-> t, to |-> None])
           \/ c \in DOMAIN card /\ card' = [card EXCEPT ![c] = Accepted(@, s, t)]
  BY <1>1 DEF TakeCard, AcceptCard, MayAccept, IsUp
<1>3. /\ proc[p] \in Memory /\ proc[p].photo.id = s /\ s \in Session /\ s \in DOMAIN used
      /\ NotesReached(s) /\ NotesInOrder(s) /\ current[ActorOf[p]] = s
      /\ s \in DOMAIN record /\ proc[p].photo = WithId(s, OnDisk(s))
      /\ TypesOf(current, record, card, wall, mutex, used)
  BY <1>1, <1>2, InAlone
<1>4. /\ mem \in Memory /\ mem.todo = proc[p].todo /\ mem.photo = proc[p].photo
  BY <1>1, <1>3 DEF Memory
<1> HIDE DEF mem
<1>5. DOMAIN used' = DOMAIN used \cup {t}
  BY <1>2 DEF Put
<1>6. /\ card'[c].owner = s
      /\ \A x \in DOMAIN card' : x # c => x \in DOMAIN card /\ card'[x] = card[x]
  <2>1. CASE card' = Put(card, c, [owner |-> s, token |-> t, to |-> None])
    BY <2>1 DEF Put
  <2>2. CASE c \in DOMAIN card /\ card' = [card EXCEPT ![c] = Accepted(@, s, t)]
    <3>1. card \in [DOMAIN card -> CardRec] /\ card[c] \in CardRec
      BY <1>3, <2>2 DEF TypesOf
    <3>2. Accepted(card[c], s, t).owner = s
      BY <3>1 DEF Accepted, CardRec
    <3> QED BY <2>2, <3>1, <3>2
  <2> QED BY <1>2, <2>1, <2>2
<1>7. Frame(p, s)
  BY <1>2, <1>3, <1>5, <1>6 DEF Frame
<1>8. OnDisk(s)' = OnDisk(s)
  BY <1>2 DEF OnDisk
<1>9. NotesReached(s)' /\ NotesInOrder(s)'
  BY <1>2, <1>3, <1>8 DEF NotesReached, NotesInOrder
<1>10. current'[ActorOf[p]] = s /\ s \in DOMAIN record'
  BY <1>2, <1>3
<1> QED BY <1>1, <1>2, <1>3, <1>4, <1>6, <1>7, <1>8, <1>9, <1>10, StepAlone

\* The note about a card that was swept goes before what p had to do.
LEMMA PinFirst ==
    ASSUME NEW todo \in Seq(Step), Ordered(todo), todo # <<>>, Head(todo) = "sweep"
    PROVE  Ordered(PinSteps \o todo) /\ Head(PinSteps \o todo) = "number"
<1> DEFINE new == PinSteps \o todo
<1>1. Len(todo) \in Nat \ {0}
  BY EmptySeq
<1>2. /\ Len(new) = Len(todo) + 2 /\ new[1] = "number" /\ new[2] = "pin" /\ Head(new) = "number"
      /\ \A i \in 1..Len(todo) : new[i + 2] = todo[i]
  <2>1. PinSteps \in Seq(Step) /\ Len(PinSteps) = 2 /\ PinSteps[1] = "number" /\ PinSteps[2] = "pin"
    BY DEF PinSteps, Step
  <2>2. /\ Len(new) = Len(PinSteps) + Len(todo)
        /\ \A i \in 1..Len(PinSteps) + Len(todo) :
              new[i] = IF i <= Len(PinSteps) THEN PinSteps[i] ELSE todo[i - Len(PinSteps)]
    BY <2>1, ConcatProperties, Zenon
  <2>3. new \in Seq(Step) /\ new # <<>>
    <3>1. new \in Seq(Step)
      BY <2>1
    <3>2. Len(new) # 0
      BY <1>1, <2>1, <2>2
    <3> QED BY <3>1, <3>2, EmptySeq
  <2> HIDE DEF new
  <2>4. Len(new) = Len(todo) + 2 /\ new[1] = "number" /\ new[2] = "pin"
    <3>1. 1 \in 1..Len(new) /\ 2 \in 1..Len(new)
      BY <1>1, <2>1, <2>2
    <3> QED BY <1>1, <2>1, <2>2, <3>1
  <2>5. Head(new) = new[1]
    BY <2>3
  <2>6. ASSUME NEW i \in 1..Len(todo) PROVE new[i + 2] = todo[i]
    <3>1. i + 2 \in 1..Len(new) /\ ~(i + 2 <= 2) /\ (i + 2) - 2 = i
      BY <1>1, <2>4
    <3> QED BY <2>1, <2>2, <3>1
  <2> QED BY <2>4, <2>5, <2>6
<1>3. todo[1] = "sweep"
  BY <1>1
<1> HIDE DEF new
<1>4. ASSUME NEW i \in 1..Len(new)
      PROVE  \/ i = 1 /\ new[i] = "number"
             \/ i = 2 /\ new[i] = "pin"
             \/ i - 2 \in 1..Len(todo) /\ new[i] = todo[i - 2]
  <2>1. CASE i = 1
    BY <1>2, <2>1
  <2>3. CASE i = 2
    BY <1>2, <2>3
  <2>2. CASE i \notin {1, 2}
    <3>1. i - 2 \in 1..Len(todo) /\ (i - 2) + 2 = i
      BY <1>1, <1>2, <2>2
    <3>2. new[(i - 2) + 2] = todo[i - 2]
      BY <1>2, <3>1
    <3> QED BY <3>1, <3>2
  <2> QED BY <2>1, <2>2, <2>3
<1>5. Ordered(new)
  <2>1. ASSUME NEW i \in 1..Len(new), NEW j \in 1..Len(new), j = i + 1
        PROVE  Follows(new[i], new[j])
    <3>1. CASE i = 1
      BY <1>2, <2>1, <3>1 DEF Follows
    <3>2. CASE i = 2
      <4>1. new[i] = "pin" /\ new[j] = "sweep"
        <5>1. j = 1 + 2 /\ 1 \in 1..Len(todo)
          BY <1>1, <2>1, <3>2
        <5> QED BY <1>2, <1>3, <3>2, <5>1
      <4> QED BY <4>1 DEF Follows
    <3>3. CASE i \notin {1, 2}
      <4>1. /\ i - 2 \in 1..Len(todo) /\ j - 2 \in 1..Len(todo) /\ j - 2 = (i - 2) + 1
            /\ new[i] = todo[i - 2] /\ new[j] = todo[j - 2]
        BY <1>1, <1>2, <1>4, <2>1, <3>3
      <4> QED BY <4>1 DEF Ordered
    <3> QED BY <3>1, <3>2, <3>3
  <2> QED BY <2>1 DEF Ordered
<1> QED BY <1>2, <1>5 DEF new

LEMMA SweepCardAlone ==
    ASSUME AloneInv, OneProcessEach, TokensInv', NEW p \in Process, NEW c, SweepCard(p, c)
    PROVE  AloneInv'
<1> DEFINE mem == [proc[p] EXCEPT !.todo = PinSteps \o proc[p].todo]
<1>1. PICK s : s = Mine(p)
  OBVIOUS
<1>2. /\ Take(p, "sweep") /\ UNCHANGED <<current, record, wall, mutex, used>>
      /\ card' = [x \in DOMAIN card \ {c} |-> card[x]] /\ proc' = [proc EXCEPT ![p] = mem]
  BY AloneParts, InvParts DEF SweepCard, Archive
<1>3. /\ proc[p] \in Memory /\ proc[p].photo.id = s /\ s \in Session /\ s \in DOMAIN used
      /\ NotesReached(s) /\ NotesInOrder(s) /\ current[ActorOf[p]] = s /\ Alone(p)
      /\ s \in DOMAIN record /\ proc[p].photo = WithId(s, OnDisk(s))
  BY <1>1, <1>2, InAlone
<1>4. proc \in [Process -> Memory]
  BY AloneParts, InvParts
<1>5. Ordered(PinSteps \o proc[p].todo) /\ Head(PinSteps \o proc[p].todo) = "number"
  BY <1>2, <1>3, PinFirst DEF Take, Memory, Alone
<1>6. mem.todo = PinSteps \o proc[p].todo /\ mem.photo = proc[p].photo
  BY <1>1, <1>3 DEF Memory
<1> HIDE DEF mem
<1>7. Private(p, s)
  BY <1>1, <1>3 DEF Alone, Private
<1>8. OnDisk(s)' = OnDisk(s)
  BY <1>2 DEF OnDisk
<1>9. Frame(p, s) /\ NotesReached(s)' /\ NotesInOrder(s)'
  BY <1>2, <1>3, <1>8 DEF Frame, NotesReached, NotesInOrder
<1>10. \A q \in Process : q # p /\ proc'[q].todo # <<>> => proc'[q].photo.id # s
  BY <1>2, <1>4, <1>7 DEF Private, Mine
<1>14. proc'[p] = mem /\ mem.photo.id = s /\ Ordered(mem.todo) /\ Head(mem.todo) = "number"
  BY <1>2, <1>3, <1>4, <1>5, <1>6
<1>15. \A b \in Actor : b # ActorOf[p] => current'[b] # s
  BY <1>2, <1>7 DEF Private
<1>16. Alone(p)'
  BY <1>2, <1>3, <1>6, <1>8, <1>10, <1>14, <1>15, AloneWhen
<1> QED BY <1>2, <1>3, <1>7, <1>9, <1>14, <1>16, FrameSound

\* A command that ends early has nothing left to write.
LEMMA EndAlone ==
    ASSUME AloneInv, OneProcessEach, TokensInv', NEW p \in Process, Refuse(p) \/ Crash(p)
    PROVE  AloneInv'
<1>1. PICK s : s = Mine(p)
  OBVIOUS
<1>2. PICK step : Take(p, step)
  BY DEF Refuse, MayRefuse, Crash, Take
<1>3. UNCHANGED <<current, record, card, wall, used>>
  BY DEF Refuse, Crash
<1>4. /\ proc[p] \in Memory /\ proc[p].photo.id = s /\ s \in Session /\ s \in DOMAIN used
      /\ NotesReached(s) /\ NotesInOrder(s) /\ Alone(p)
  BY <1>1, <1>2, InAlone
<1>5. proc \in [Process -> Memory]
  BY AloneParts, InvParts
<1>6. Private(p, s)
  BY <1>1, <1>4 DEF Alone, Private
<1>7. OnDisk(s)' = OnDisk(s)
  BY <1>3 DEF OnDisk
<1>8. Frame(p, s) /\ NotesReached(s)' /\ NotesInOrder(s)'
  BY <1>3, <1>4, <1>7 DEF Frame, NotesReached, NotesInOrder
<1>9. CASE Crash(p)
  <2>1. proc' = [proc EXCEPT ![p] = Idle] /\ Idle.todo = <<>>
    BY <1>9 DEF Crash, Idle
  <2> QED BY <1>4, <1>6, <1>8, <2>1, FrameSound
<1>10. CASE Refuse(p)
  <2> DEFINE mem == [proc[p] EXCEPT !.todo = <<"unlock">>]
  <2>1. PICK now \in {"offer", "accept", "down"} : Take(p, now)
    BY <1>10 DEF Refuse, MayRefuse
  <2>2. /\ current[ActorOf[p]] = s /\ s \in DOMAIN record /\ proc[p].photo = WithId(s, OnDisk(s))
    BY <1>1, <2>1, InAlone
  <2>3. /\ proc' = [proc EXCEPT ![p] = mem] /\ mem.todo = <<"unlock">> /\ mem.photo = proc[p].photo
    BY <1>4, <1>5, <1>10 DEF Refuse, Memory
  <2> HIDE DEF mem
  <2>4. Ordered(mem.todo) /\ Head(mem.todo) = "unlock"
    BY <2>3 DEF Ordered
  <2>6. proc'[p] = mem /\ mem.photo.id = s
    BY <1>4, <1>5, <2>3
  <2>7. \A q \in Process : q # p /\ proc'[q].todo # <<>> => proc'[q].photo.id # s
    BY <1>5, <1>6, <2>3 DEF Private, Mine
  <2>8. \A b \in Actor : b # ActorOf[p] => current'[b] # s
    BY <1>3, <1>6 DEF Private
  <2>9. Alone(p)'
    BY <1>3, <1>4, <1>7, <2>2, <2>3, <2>4, <2>6, <2>7, <2>8, AloneWhen
  <2> QED BY <1>4, <1>6, <1>8, <2>3, <2>6, <2>9, FrameSound
<1> QED BY <1>9, <1>10

-----------------------------------------------------------------------------
(* The first step of a command. *)

LEMMA BeginAlone ==
    ASSUME AloneInv, OneProcessEach, TokensInv', NEW p \in Process, NEW s \in Session, NEW r, NEW c,
           NEW steps, Begin(p, s, r, c, steps), steps # <<>>, Ordered(steps), Private(p, s),
           s \in DOMAIN used', DOMAIN used \subseteq DOMAIN used',
           \/ /\ Head(steps) \in {"lock", "number"} /\ current[ActorOf[p]] = s
              /\ s \in DOMAIN record /\ r = record[s]
           \/ /\ Head(steps) = "actor"
              /\ current[ActorOf[p]] = s \/ current[ActorOf[p]] \notin DOMAIN record
    PROVE  AloneInv'
<1> DEFINE mem == [Idle EXCEPT !.todo = steps, !.photo = WithId(s, r), !.about = c]
<1>1. proc' = [proc EXCEPT ![p] = mem] /\ UNCHANGED <<current, record, card, wall, mutex>>
  BY DEF Begin
<1>2. mem.todo = steps /\ mem.photo = WithId(s, r) /\ mem.photo.id = s
  BY DEF Idle, WithId
<1> HIDE DEF mem
<1>3. proc \in [Process -> Memory] /\ NotesReached(s) /\ NotesInOrder(s)
  BY AloneParts, InvParts
<1>4. OnDisk(s)' = OnDisk(s) /\ (s \in DOMAIN record => OnDisk(s) = record[s])
  BY <1>1 DEF OnDisk
<1>5. Frame(p, s) /\ NotesReached(s)' /\ NotesInOrder(s)'
  BY <1>1, <1>3, <1>4 DEF Frame, NotesReached, NotesInOrder
<1>6. proc'[p] = mem
  BY <1>1, <1>3
<1>7. \A q \in Process : q # p /\ proc'[q].todo # <<>> => proc'[q].photo.id # s
  BY <1>1, <1>3 DEF Private, Mine
<1>8. \A b \in Actor : b # ActorOf[p] => current'[b] # s
  BY <1>1 DEF Private
<1>9. /\ \/ current'[ActorOf[p]] = s
         \/ Head(mem.todo) = "actor" /\ current'[ActorOf[p]] \notin DOMAIN record'
      /\ Head(mem.todo) \notin {"actor", "prior", "session"} => s \in DOMAIN record'
      /\ Head(mem.todo) \notin {"actor", "prior"} => mem.photo = WithId(s, OnDisk(s)')
      /\ Head(mem.todo) \notin {"keep", "forget", "pin"}
  <2>1. CASE /\ Head(steps) \in {"lock", "number"} /\ current[ActorOf[p]] = s
             /\ s \in DOMAIN record /\ r = record[s]
    <3>1. current'[ActorOf[p]] = s /\ s \in DOMAIN record' /\ mem.photo = WithId(s, OnDisk(s)')
      BY <1>1, <1>2, <1>4, <2>1
    <3> QED BY <1>2, <2>1, <3>1
  <2>2. CASE /\ Head(steps) = "actor"
             /\ current[ActorOf[p]] = s \/ current[ActorOf[p]] \notin DOMAIN record
    <3>1. current' = current /\ record' = record
      BY <1>1
    <3> QED BY <1>2, <2>2, <3>1
  <2> QED BY <2>1, <2>2
<1>10. Alone(p)'
  BY <1>2, <1>6, <1>7, <1>8, <1>9, AloneWhen
<1> QED BY <1>1, <1>2, <1>5, <1>10, FrameSound

\* Nobody else has to do with the session of an actor that has a record.
LEMMA CurrentPrivate ==
    ASSUME AloneInv, OneProcessEach, NEW p \in Process, NEW s \in Session, current[ActorOf[p]] = s
    PROVE  Private(p, s) /\ s \in DOMAIN used
<1>1. ActorOf[p] \in Actor /\ s # None /\ ActorsApart
  BY AloneParts, ActorAssumption, NoneAssumption
<1>2. \A b \in Actor : b # ActorOf[p] => current[b] # s
  BY <1>1 DEF ActorsApart
<1>3. ASSUME NEW q \in Process, q # p, proc[q].todo # <<>> PROVE Mine(q) # s
  <2>1. Alone(q) /\ ActorOf[q] # ActorOf[p]
    BY <1>3, AloneParts DEF OneProcessEach
  <2> QED BY <1>1, <2>1 DEF Alone
<1> QED BY <1>1, <1>2, <1>3 DEF Private, ActorsApart

LEMMA CommandAlone ==
    ASSUME AloneInv, OneProcessEach, TokensInv', NEW p \in Process, NEW c,
           NEW steps \in {PinSteps, ClaimSteps, DenySteps, ReleaseSteps, ReapSteps,
                          OfferSteps, AcceptSteps, DeclineSteps},
           Command(p, c, steps), DOMAIN used \subseteq DOMAIN used'
    PROVE  AloneInv'
<1>1. PICK s : s = current[ActorOf[p]]
  OBVIOUS
<1>2. s \in DOMAIN record /\ Begin(p, s, record[s], c, steps)
  BY <1>1 DEF Command
<1>3. s \in Session
  BY <1>2, AloneParts, InvParts DEF TypesOf
<1>4. Private(p, s) /\ s \in DOMAIN used
  BY <1>1, <1>3, CurrentPrivate
<1>5. Ordered(steps)
  BY ProgramsOrdered
<1> QED BY <1>1, <1>2, <1>3, <1>4, <1>5, FirstSteps, BeginAlone

LEMMA CommandsAlone ==
    ASSUME AloneInv, OneProcessEach, TokensInv', NEW p \in Process,
           PlainCommand(p) \/ \E c \in Card : Claim(p, c) \/ OnCard(p, c)
    PROVE  AloneInv'
<1>1. CASE PlainCommand(p)
  BY <1>1, CommandAlone DEF PlainCommand
<1>2. ASSUME NEW c \in Card, Claim(p, c) PROVE AloneInv'
  <2>1. DOMAIN used \subseteq DOMAIN used' /\ Command(p, c, ClaimSteps)
    BY <1>2 DEF Claim, Put
  <2> QED BY <2>1, CommandAlone
<1>3. ASSUME NEW c \in Card, OnCard(p, c) PROVE AloneInv'
  BY <1>3, CommandAlone DEF OnCard
<1> QED BY <1>1, <1>2, <1>3

LEMMA JoinAlone ==
    ASSUME AloneInv, OneProcessEach, TokensInv', NEW p \in Process, NEW s \in Session, Join(p, s)
    PROVE  AloneInv'
<1>1. /\ SessionFor(ActorOf[p], s) /\ Begin(p, s, Blank, None, JoinSteps)
      /\ s \in DOMAIN used' /\ DOMAIN used \subseteq DOMAIN used'
  BY DEF Join, Put, Unused
<1>2. Private(p, s) /\ (current[ActorOf[p]] = s \/ current[ActorOf[p]] \notin DOMAIN record)
  <2>1. CASE current[ActorOf[p]] \in DOMAIN record
    BY <1>1, <2>1, CurrentPrivate DEF SessionFor
  <2>2. CASE current[ActorOf[p]] \notin DOMAIN record
    <3>1. s \notin DOMAIN used /\ s # None /\ ActorsApart
      BY <1>1, <2>2, AloneParts, NoneAssumption DEF SessionFor, Unused
    <3>2. \A q \in Process : proc[q].todo # <<>> => Mine(q) \in DOMAIN used
      BY AloneParts DEF Alone
    <3> QED BY <2>2, <3>1, <3>2 DEF Private, ActorsApart
  <2> QED BY <2>1, <2>2
<1> QED BY <1>1, <1>2, ProgramsOrdered, FirstSteps, BeginAlone

-----------------------------------------------------------------------------
(* The theorems. *)

LEMMA InitAlone == Init => AloneInv
<1> SUFFICES ASSUME Init PROVE AloneInv
  OBVIOUS
<1>1. /\ current = [a \in Actor |-> None] /\ DOMAIN record = {} /\ DOMAIN card = {}
      /\ wall = [s \in Session |-> <<>>]
      /\ \A p \in Process : proc[p].todo = <<>>
  BY DEF Init, Idle
<1>2. \A s \in Session : NotesReached(s) /\ NotesInOrder(s)
  BY <1>1 DEF NotesReached, NotesInOrder
<1>3. ActorsApart /\ RecordsGoOn
  BY <1>1 DEF ActorsApart, RecordsGoOn
<1> QED BY <1>1, <1>2, <1>3, InitSound, AloneParts

LEMMA NextAlone == ASSUME OneProcessEach PROVE AloneInv /\ [Next]_vars => AloneInv'
<1> SUFFICES ASSUME AloneInv, [Next]_vars PROVE AloneInv'
  OBVIOUS
<1>1. TokensInv'
  BY AloneParts, NextSound
<1>2. CASE UNCHANGED vars
  BY <1>1, <1>2 DEF vars, AloneInv, NotesCountUp, Alone, Mine, About, OnDisk
<1>3. CASE Next
  <2> PICK p \in Process :
        \/ \E s \in Session : Join(p, s)
        \/ PlainCommand(p)
        \/ \E c \in Card : Claim(p, c) \/ OnCard(p, c) \/ SweepCard(p, c)
        \/ WriteActor(p) \/ ReadPrior(p) \/ WriteJoined(p)
        \/ Lock(p) \/ Unlock(p)
        \/ \E t \in Token : TakeCard(p, t) \/ AcceptCard(p, t)
        \/ \E a \in Actor : OfferCard(p, a)
        \/ SweepEnds(p) \/ DeclineCard(p)
        \/ Reread(p) \/ TakeDown(p) \/ Refuse(p)
        \/ Fetch(p) \/ KeepToken(p) \/ ForgetToken(p)
        \/ Number(p) \/ PinNote(p) \/ Crash(p)
    BY <1>3 DEF Next
  <2>1. CASE \E s \in Session : Join(p, s)
    BY <1>1, <2>1, JoinAlone
  <2>2. CASE PlainCommand(p) \/ \E c \in Card : Claim(p, c) \/ OnCard(p, c)
    BY <1>1, <2>2, CommandsAlone
  <2>3. CASE \E c \in Card : SweepCard(p, c)
    BY <1>1, <2>3, SweepCardAlone
  <2>4. CASE WriteActor(p) \/ WriteJoined(p)
    BY <1>1, <2>4, WriteActorAlone, WriteJoinedAlone
  <2>5. CASE ReadPrior(p) \/ Reread(p) \/ Fetch(p)
    BY <1>1, <2>5, ReadAlone
  <2>6. CASE \/ Lock(p) \/ Unlock(p) \/ SweepEnds(p) \/ TakeDown(p) \/ DeclineCard(p)
             \/ \E a \in Actor : OfferCard(p, a)
    BY <1>1, <2>6, QuietStepsAlone
  <2>7. CASE \E t \in Token : TakeCard(p, t) \/ AcceptCard(p, t)
    BY <1>1, <2>7, MintAlone
  <2>8. CASE KeepToken(p) \/ ForgetToken(p)
    BY <1>1, <2>8, TokenStepAlone
  <2>9. CASE Number(p) \/ PinNote(p)
    BY <1>1, <2>9, NumberAlone, PinNoteAlone
  <2>10. CASE Refuse(p) \/ Crash(p)
    BY <1>1, <2>10, EndAlone
  <2> QED BY <2>1, <2>2, <2>3, <2>4, <2>5, <2>6, <2>7, <2>8, <2>9, <2>10
<1> QED BY <1>2, <1>3

\* A process is alone with its session from the first step of a command to the last, and
\* what it has of the record is what is on disk (RequireActorMutating, Pin, MutateSession).
THEOREM AloneInvHolds == ASSUME OneProcessEach PROVE Spec => []AloneInv
BY InitAlone, NextAlone, PTL DEF Spec

\* No two notes of a session have one number, whatever crashes between the number and the
\* note (Pin, JoinActor).
THEOREM NotesCountUpHolds == ASSUME OneProcessEach PROVE Spec => []NotesCountUp
<1>1. AloneInv => NotesCountUp
  BY DEF AloneInv
<1> QED BY <1>1, AloneInvHolds, PTL

\* No card is up for a session that no actor goes on with (JoinActor).
THEOREM NobodyLosesTheirCardsHolds == ASSUME OneProcessEach PROVE Spec => []NobodyLosesTheirCards
<1>1. AloneInv => NobodyLosesTheirCards
  BY DEF AloneInv, NobodyLosesTheirCards
<1> QED BY <1>1, AloneInvHolds, PTL

=============================================================================
