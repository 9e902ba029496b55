---------------------------- MODULE SessionsProofs ----------------------------
(* Theorems about Sessions, for any number of actors, of processes of one session,  *)
(* of cards and of tokens, and with crashes anywhere.                               *)
EXTENDS Sessions, SequenceTheorems, TLAPS

-----------------------------------------------------------------------------
(* The helpers. *)

\* A directory after one more record was put into it.
LEMMA PutDir ==
    ASSUME NEW dir, NEW x, NEW rec
    PROVE  /\ DOMAIN Put(dir, x, rec) = DOMAIN dir \cup {x}
           /\ Put(dir, x, rec)[x] = rec
           /\ \A y \in DOMAIN dir : y # x => Put(dir, x, rec)[y] = dir[y]
           /\ Put(dir, x, rec) = [y \in DOMAIN dir \cup {x} |-> Put(dir, x, rec)[y]]
BY DEF Put

LEMMA BlankType == Blank \in Record /\ NoTokens \in Tokens
BY DEF Blank, NoTokens, Tokens, Record

LEMMA WithIdType ==
    ASSUME NEW s \in Session \cup {None}, NEW r \in Record
    PROVE  /\ WithId(s, r) \in Photo
           /\ WithId(s, r).id = s /\ WithId(s, r).tokens = r.tokens
BY DEF WithId, Photo, Record

LEMMA IdleType == Idle \in Memory /\ \A u : Sound(u, Idle)
<1>1. WithId(None, Blank) \in Photo /\ WithId(None, Blank).tokens = NoTokens
  BY WithIdType, BlankType DEF Blank
<1>2. Idle \in Memory
  BY <1>1, BlankType DEF Idle, Memory
<1>3. ASSUME NEW u PROVE Sound(u, Idle)
  <2>1. /\ Idle.photo.tokens = NoTokens /\ Idle.fresh.tokens = NoTokens
        /\ Idle.todo = <<>> /\ Idle.minted = None
    BY <1>1 DEF Idle, Blank
  <2>2. \A c \in Card : NoTokens[c] = None
    BY DEF NoTokens
  <2>3. \A i \in 1..Len(Idle.todo) : FALSE
    BY <2>1
  <2> QED BY <2>1, <2>2, <2>3 DEF Sound, DrawnBy
<1> QED BY <1>2, <1>3

LEMMA StepTypes ==
    {PinSteps, JoinSteps, ClaimSteps, DenySteps, ReleaseSteps, ReapSteps, OfferSteps,
     AcceptSteps, DeclineSteps} \subseteq Seq(Step)
<1>1. PinSteps \in Seq(Step)      BY DEF PinSteps, Step
<1>2. JoinSteps \in Seq(Step)     BY DEF JoinSteps, Step
<1>3. ClaimSteps \in Seq(Step)    BY DEF ClaimSteps, Step
<1>4. ReleaseSteps \in Seq(Step)  BY DEF ReleaseSteps, Step
<1>5. ReapSteps \in Seq(Step)     BY DEF ReapSteps, Step
<1>6. OfferSteps \in Seq(Step)    BY DEF OfferSteps, Step
<1>7. AcceptSteps \in Seq(Step)   BY DEF AcceptSteps, Step
<1>8. DenySteps \in Seq(Step)     BY DEF DenySteps, Step
<1>9. DeclineSteps \in Seq(Step)  BY DEF DeclineSteps, Step
<1> QED BY <1>1, <1>2, <1>3, <1>4, <1>5, <1>6, <1>7, <1>8, <1>9

\* Only a command that names a card gets to write one.
LEMMA NoTake ==
    /\ \A i \in 1..Len(PinSteps) : PinSteps[i] # "take"
    /\ \A i \in 1..Len(JoinSteps) : JoinSteps[i] # "take"
    /\ \A i \in 1..Len(ReapSteps) : ReapSteps[i] # "take"
    /\ \A i \in 1..Len(DenySteps) : DenySteps[i] # "take"
BY DEF PinSteps, JoinSteps, ReapSteps, DenySteps

\* Drawing more ids does not change who drew the old ones.
Grows(u, v) == DOMAIN u \subseteq DOMAIN v /\ \A x \in DOMAIN u : v[x] = u[x]

LEMMA DrawnGrows ==
    ASSUME NEW u, NEW v, Grows(u, v), NEW s, NEW tokens, DrawnBy(u, s, tokens)
    PROVE  DrawnBy(v, s, tokens)
BY DEF Grows, DrawnBy

LEMMA SoundGrows ==
    ASSUME NEW u, NEW v, Grows(u, v), NEW mem, Sound(u, mem)
    PROVE  Sound(v, mem)
<1>1. /\ DrawnBy(v, mem.photo.id, mem.photo.tokens)
      /\ DrawnBy(v, mem.photo.id, mem.fresh.tokens)
  BY DrawnGrows DEF Sound
<1>2. mem.minted # None => mem.minted \in DOMAIN v /\ v[mem.minted] = mem.photo.id
  BY DEF Sound, Grows
<1> QED BY <1>1, <1>2 DEF Sound

\* What is left in memory after a step.
LEMMA AfterSound ==
    ASSUME NEW mem \in Memory, mem.todo # <<>>, NEW u, Sound(u, mem)
    PROVE  After(mem) \in Memory /\ Sound(u, After(mem))
<1>1. CASE Len(mem.todo) = 1
  BY <1>1, IdleType DEF After
<1>2. CASE Len(mem.todo) # 1
  <2> DEFINE rest == [mem EXCEPT !.todo = Tail(mem.todo)]
  <2>1. mem.todo \in Seq(Step) /\ Len(mem.todo) > 1
    <3>1. mem.todo \in Seq(Step)
      BY DEF Memory
    <3>2. Len(mem.todo) \in Nat /\ Len(mem.todo) # 0
      BY <3>1, EmptySeq, LenProperties
    <3>3. \A n \in Nat : n # 0 /\ n # 1 => n > 1
      OBVIOUS
    <3>4. Len(mem.todo) > 1
      BY <1>2, <3>2, <3>3, Zenon
    <3> QED BY <3>1, <3>4
  <2>2. /\ Tail(mem.todo) \in Seq(Step)
        /\ Len(Tail(mem.todo)) = Len(mem.todo) - 1
        /\ \A i \in 1..Len(Tail(mem.todo)) : Tail(mem.todo)[i] = mem.todo[i + 1]
    BY <2>1
  <2>3. /\ rest.todo = Tail(mem.todo) /\ rest.photo = mem.photo /\ rest.fresh = mem.fresh
        /\ rest.minted = mem.minted /\ rest.about = mem.about /\ rest \in Memory
    BY <2>2 DEF Memory
  <2>4. (\E i \in 1..Len(rest.todo) : rest.todo[i] = "take") =>
            \E i \in 1..Len(mem.todo) : mem.todo[i] = "take"
    <3> SUFFICES ASSUME NEW i \in 1..Len(rest.todo), rest.todo[i] = "take"
                 PROVE  \E k \in 1..Len(mem.todo) : mem.todo[k] = "take"
      OBVIOUS
    <3>1. i + 1 \in 1..Len(mem.todo) /\ mem.todo[i + 1] = "take"
      BY <2>1, <2>2, <2>3
    <3> QED BY <3>1
  <2>5. Sound(u, rest)
    BY <2>3, <2>4 DEF Sound
  <2>6. After(mem) = rest
    BY <1>2 DEF After
  <2> QED BY <2>3, <2>5, <2>6
<1> QED BY <1>1, <1>2

-----------------------------------------------------------------------------
(* One step of one process. *)

TypesOf(cur, rec, cds, w, m, u) ==
    /\ cur \in [Actor -> Session \cup {None}]
    /\ DOMAIN rec \subseteq Session /\ rec \in [DOMAIN rec -> Record]
    /\ DOMAIN cds \subseteq Card /\ cds \in [DOMAIN cds -> CardRec]
    /\ w \in [Session -> Seq(Nat)]
    /\ m \in Process \cup {None}
    /\ DOMAIN u \subseteq Session \cup Card \cup Token /\ u \in [DOMAIN u -> Session]

CardsSound(u, cds) ==
    \A c \in DOMAIN cds : cds[c].token \in DOMAIN u /\ u[cds[c].token] = cds[c].owner

RecordsSound(u, rec) == \A s \in DOMAIN rec : DrawnBy(u, s, rec[s].tokens)

LEMMA InvParts ==
    TokensInv <=>
      /\ TypesOf(current, record, card, wall, mutex, used)
      /\ proc \in [Process -> Memory]
      /\ CardsSound(used, card) /\ RecordsSound(used, record)
      /\ \A p \in Process : Sound(used, proc[p])
BY DEF TokensInv, TypeOK, TypesOf, CardsSound, RecordsSound

\* A step replaces the memory of one process, and may draw ids.
LEMMA OneStep ==
    ASSUME TokensInv, NEW p \in Process, NEW mem \in Memory,
           proc' = [proc EXCEPT ![p] = mem], Sound(used', mem), Grows(used, used'),
           TypesOf(current', record', card', wall', mutex', used'),
           CardsSound(used', card'), RecordsSound(used', record')
    PROVE  TokensInv'
<1>1. proc \in [Process -> Memory] /\ \A q \in Process : Sound(used, proc[q])
  BY InvParts
<1>2. proc' \in [Process -> Memory]
  BY <1>1
<1>3. ASSUME NEW q \in Process PROVE Sound(used', proc'[q])
  <2>1. CASE q = p
    BY <1>1, <2>1
  <2>2. CASE q # p
    <3>1. proc'[q] = proc[q]
      BY <1>1, <2>2
    <3> QED BY <1>1, <3>1, SoundGrows
  <2> QED BY <2>1, <2>2
<1>4. \A q \in Process : Sound(used', proc'[q])
  BY <1>3
<1> QED
  BY <1>2, <1>4 DEF TokensInv, TypeOK, TypesOf, CardsSound, RecordsSound

-----------------------------------------------------------------------------
(* The initial states. *)

LEMMA InitSound == Init => TokensInv
<1> SUFFICES ASSUME Init PROVE TokensInv
  OBVIOUS
<1>1. TypesOf(current, record, card, wall, mutex, used)
  BY DEF Init, TypesOf
<1>2. proc \in [Process -> Memory] /\ \A p \in Process : Sound(used, proc[p])
  BY IdleType DEF Init
<1>3. CardsSound(used, card) /\ RecordsSound(used, record)
  BY DEF Init, CardsSound, RecordsSound
<1> QED BY <1>1, <1>2, <1>3, InvParts

-----------------------------------------------------------------------------
(* The start of a command. *)

\* A process that starts has the id of its session, tokens of that session, and no other.
LEMMA BeginSound ==
    ASSUME NEW u, NEW s \in Session, NEW r \in Record, DrawnBy(u, s, r.tokens),
           NEW c \in Card \cup {None}, NEW steps \in Seq(Step),
           (\E i \in 1..Len(steps) : steps[i] = "take") => c \in Card
    PROVE  LET mem == [Idle EXCEPT !.todo = steps, !.photo = WithId(s, r), !.about = c]
           IN mem \in Memory /\ Sound(u, mem)
<1> DEFINE mem == [Idle EXCEPT !.todo = steps, !.photo = WithId(s, r), !.about = c]
<1>1. WithId(s, r) \in Photo /\ WithId(s, r).id = s /\ WithId(s, r).tokens = r.tokens
  BY WithIdType
<1>2. Idle \in Memory /\ Idle.fresh = Blank /\ Idle.minted = None
  BY IdleType DEF Idle
<1>3. /\ mem.todo = steps /\ mem.photo = WithId(s, r) /\ mem.about = c
      /\ mem.fresh = Blank /\ mem.minted = None /\ mem \in Memory
  BY <1>1, <1>2 DEF Memory
<1>4. DrawnBy(u, s, Blank.tokens)
  BY DEF DrawnBy, Blank, NoTokens
<1>5. Sound(u, mem)
  BY <1>1, <1>3, <1>4 DEF Sound
<1> QED BY <1>3, <1>5

\* Drawing a new id.
LEMMA PutGrows ==
    ASSUME NEW u, NEW x, x \notin DOMAIN u, NEW s \in Session,
           DOMAIN u \subseteq Session \cup Card \cup Token, u \in [DOMAIN u -> Session],
           x \in Session \cup Card \cup Token
    PROVE  /\ Grows(u, Put(u, x, s))
           /\ DOMAIN Put(u, x, s) \subseteq Session \cup Card \cup Token
           /\ Put(u, x, s) \in [DOMAIN Put(u, x, s) -> Session]
           /\ x \in DOMAIN Put(u, x, s) /\ Put(u, x, s)[x] = s
BY DEF Grows, Put

LEMMA PartsGrow ==
    ASSUME NEW u, NEW v, Grows(u, v), NEW cds, CardsSound(u, cds), NEW rec, RecordsSound(u, rec)
    PROVE  CardsSound(v, cds) /\ RecordsSound(v, rec)
<1>1. CardsSound(v, cds)
  BY DEF CardsSound, Grows
<1>2. RecordsSound(v, rec)
  BY DrawnGrows DEF RecordsSound
<1> QED BY <1>1, <1>2

LEMMA CommandSound ==
    ASSUME TokensInv, NEW p \in Process, NEW c \in Card \cup {None}, NEW steps \in Seq(Step),
           (\E i \in 1..Len(steps) : steps[i] = "take") => c \in Card,
           Command(p, c, steps), Grows(used, used'),
           DOMAIN used' \subseteq Session \cup Card \cup Token, used' \in [DOMAIN used' -> Session]
    PROVE  TokensInv'
<1> DEFINE s == current[ActorOf[p]]
           mem == [Idle EXCEPT !.todo = steps, !.photo = WithId(s, record[s]), !.about = c]
<1>1. /\ s \in DOMAIN record /\ proc' = [proc EXCEPT ![p] = mem]
      /\ UNCHANGED <<current, record, card, wall, mutex>>
  BY DEF Command, Begin
<1>2. /\ TypesOf(current, record, card, wall, mutex, used)
      /\ CardsSound(used, card) /\ RecordsSound(used, record)
  BY InvParts
<1>3. s \in Session /\ record[s] \in Record /\ DrawnBy(used, s, record[s].tokens)
  BY <1>1, <1>2 DEF TypesOf, RecordsSound
<1>4. mem \in Memory /\ Sound(used, mem)
  BY <1>3, BeginSound
<1> HIDE DEF mem
<1>5. Sound(used', mem) /\ CardsSound(used', card') /\ RecordsSound(used', record')
  BY <1>1, <1>2, <1>4, SoundGrows, PartsGrow
<1>6. TypesOf(current', record', card', wall', mutex', used')
  BY <1>1, <1>2 DEF TypesOf
<1> QED BY <1>1, <1>4, <1>5, <1>6, OneStep

LEMMA ClaimSound ==
    ASSUME TokensInv, NEW p \in Process, NEW c \in Card, Claim(p, c)
    PROVE  TokensInv'
<1>1. /\ c \notin DOMAIN used /\ Command(p, c, ClaimSteps)
      /\ used' = Put(used, c, current[ActorOf[p]]) /\ current[ActorOf[p]] \in DOMAIN record
  BY DEF Claim, Unused, Command
<1>2. TypesOf(current, record, card, wall, mutex, used)
  BY InvParts
<1>3. current[ActorOf[p]] \in Session
  BY <1>1, <1>2 DEF TypesOf
<1>4. /\ Grows(used, used') /\ DOMAIN used' \subseteq Session \cup Card \cup Token
      /\ used' \in [DOMAIN used' -> Session]
  BY <1>1, <1>2, <1>3, PutGrows DEF TypesOf
<1> QED BY <1>1, <1>4, CommandSound, StepTypes

LEMMA PlainCommandSound ==
    ASSUME TokensInv, NEW p \in Process, PlainCommand(p) \/ \E c \in Card : OnCard(p, c)
    PROVE  TokensInv'
<1>1. /\ Grows(used, used') /\ DOMAIN used' \subseteq Session \cup Card \cup Token
      /\ used' \in [DOMAIN used' -> Session]
  BY InvParts DEF PlainCommand, OnCard, TypesOf, Grows
<1>2. CASE PlainCommand(p)
  <2>1. PICK steps \in {PinSteps, ReapSteps, DenySteps} : Command(p, None, steps)
    BY <1>2 DEF PlainCommand
  <2>2. steps \in Seq(Step) /\ \A i \in 1..Len(steps) : steps[i] # "take"
    BY StepTypes, NoTake
  <2> QED BY <1>1, <2>1, <2>2, CommandSound
<1>3. CASE \E c \in Card : OnCard(p, c)
  <2>1. PICK c \in Card, steps \in Seq(Step) : Command(p, c, steps)
    BY <1>3, StepTypes DEF OnCard
  <2> QED BY <1>1, <2>1, CommandSound
<1> QED BY <1>2, <1>3

LEMMA JoinSound ==
    ASSUME TokensInv, NEW p \in Process, NEW s \in Session, Join(p, s)
    PROVE  TokensInv'
<1> DEFINE mem == [Idle EXCEPT !.todo = JoinSteps, !.photo = WithId(s, Blank), !.about = None]
<1>1. /\ proc' = [proc EXCEPT ![p] = mem]
      /\ used' = IF Unused(s) THEN Put(used, s, s) ELSE used
      /\ UNCHANGED <<current, record, card, wall, mutex>>
  BY DEF Join, Begin
<1>2. /\ TypesOf(current, record, card, wall, mutex, used)
      /\ CardsSound(used, card) /\ RecordsSound(used, record)
  BY InvParts
<1>3. DrawnBy(used', s, Blank.tokens)
  BY DEF DrawnBy, Blank, NoTokens
<1>4. mem \in Memory /\ Sound(used', mem)
  BY <1>3, BeginSound, BlankType, StepTypes, NoTake
<1> HIDE DEF mem
<1>5. /\ Grows(used, used') /\ DOMAIN used' \subseteq Session \cup Card \cup Token
      /\ used' \in [DOMAIN used' -> Session]
  <2>1. CASE Unused(s)
    BY <1>1, <1>2, <2>1, PutGrows DEF TypesOf, Unused
  <2>2. CASE ~Unused(s)
    BY <1>1, <1>2, <2>2 DEF TypesOf, Grows
  <2> QED BY <2>1, <2>2
<1>6. CardsSound(used', card') /\ RecordsSound(used', record')
  BY <1>1, <1>2, <1>5, PartsGrow
<1>7. TypesOf(current', record', card', wall', mutex', used')
  BY <1>1, <1>2, <1>5 DEF TypesOf
<1> QED BY <1>1, <1>4, <1>5, <1>6, <1>7, OneStep

-----------------------------------------------------------------------------
(* The steps of a command. *)

\* A step that changes what p has in memory to mem, and neither ids nor cards.
LEMMA MemoryStep ==
    ASSUME TokensInv, NEW p \in Process, NEW mem \in Memory, mem.todo # <<>>,
           Then(p, mem), Sound(used, mem), UNCHANGED <<card, used>>,
           TypesOf(current', record', card', wall', mutex', used'),
           RecordsSound(used, record')
    PROVE  TokensInv'
<1>1. After(mem) \in Memory /\ Sound(used, After(mem)) /\ proc' = [proc EXCEPT ![p] = After(mem)]
  BY AfterSound DEF Then
<1>2. CardsSound(used, card) /\ Grows(used, used)
  BY InvParts DEF Grows
<1> QED BY <1>1, <1>2, OneStep

\* What holds of a process in the middle of a command.
LEMMA InCommand ==
    ASSUME TokensInv, NEW p \in Process, NEW step, Take(p, step)
    PROVE  /\ proc[p] \in Memory /\ proc[p].todo # <<>> /\ Sound(used, proc[p])
           /\ Mine(p) \in Session
           /\ TypesOf(current, record, card, wall, mutex, used)
           /\ CardsSound(used, card) /\ RecordsSound(used, record)
           /\ step = "take" => About(p) \in Card
<1>1. /\ proc[p] \in Memory /\ proc[p].todo # <<>> /\ Sound(used, proc[p])
      /\ TypesOf(current, record, card, wall, mutex, used)
      /\ CardsSound(used, card) /\ RecordsSound(used, record)
  BY InvParts DEF Take
<1>2. Mine(p) \in Session
  BY <1>1 DEF Sound, Mine
<1>3. step = "take" => About(p) \in Card
  <2>1. proc[p].todo \in Seq(Step)
    BY <1>1 DEF Memory
  <2>2. 1 \in 1..Len(proc[p].todo)
    BY <1>1, <2>1, EmptySeq, LenProperties
  <2>3. proc[p].todo[1] = step
    BY <2>1, <1>1 DEF Take
  <2> QED BY <1>1, <2>2, <2>3 DEF Sound, About
<1> QED BY <1>1, <1>2, <1>3

\* What is read from disk for the session s are tokens of s.
LEMMA OnDiskSound ==
    ASSUME TypesOf(current, record, card, wall, mutex, used), RecordsSound(used, record),
           NEW s \in Session
    PROVE  OnDisk(s) \in Record /\ DrawnBy(used, s, OnDisk(s).tokens)
<1>1. CASE s \in DOMAIN record
  BY <1>1 DEF TypesOf, RecordsSound, OnDisk
<1>2. CASE s \notin DOMAIN record
  <2>1. DrawnBy(used, s, Blank.tokens)
    BY DEF DrawnBy, Blank, NoTokens
  <2> QED BY <1>2, <2>1, BlankType DEF OnDisk
<1> QED BY <1>1, <1>2

LEMMA PutRecord ==
    ASSUME TypesOf(current, record, card, wall, mutex, used), RecordsSound(used, record),
           NEW s \in Session, NEW r \in Record, DrawnBy(used, s, r.tokens),
           record' = Put(record, s, r), UNCHANGED <<current, card, wall, mutex, used>>
    PROVE  /\ RecordsSound(used, record')
           /\ TypesOf(current', record', card', wall', mutex', used')
<1>1. /\ DOMAIN record' = DOMAIN record \cup {s} /\ record'[s] = r
      /\ \A y \in DOMAIN record : y # s => record'[y] = record[y]
      /\ record' = [y \in DOMAIN record \cup {s} |-> record'[y]]
  BY DEF Put
<1>2. RecordsSound(used, record')
  BY <1>1 DEF RecordsSound
<1>3. \A y \in DOMAIN record' : record'[y] \in Record
  BY <1>1 DEF TypesOf
<1>4. DOMAIN record' \subseteq Session /\ record' \in [DOMAIN record' -> Record]
  BY <1>1, <1>3 DEF TypesOf
<1> QED BY <1>2, <1>4 DEF TypesOf

LEMMA WriteActorSound ==
    ASSUME TokensInv, NEW p \in Process, WriteActor(p)
    PROVE  TokensInv'
<1>1. /\ Take(p, "actor") /\ Then(p, proc[p]) /\ UNCHANGED <<record, card, wall, mutex, used>>
      /\ current' = [current EXCEPT ![ActorOf[p]] = Mine(p)]
  BY DEF WriteActor, Done
<1>2. /\ proc[p] \in Memory /\ proc[p].todo # <<>> /\ Sound(used, proc[p]) /\ Mine(p) \in Session
      /\ TypesOf(current, record, card, wall, mutex, used) /\ RecordsSound(used, record)
  BY <1>1, InCommand
<1>3. TypesOf(current', record', card', wall', mutex', used')
  BY <1>1, <1>2 DEF TypesOf
<1> QED BY <1>1, <1>2, <1>3, MemoryStep

\* A process whose photograph is replaced by the record on disk, as it is or as the
\* second record it keeps.
LEMMA ReadSound ==
    ASSUME TokensInv, NEW p \in Process, NEW step, Take(p, step), NEW mem,
           mem \in {[proc[p] EXCEPT !.photo = WithId(Mine(p), OnDisk(Mine(p)))],
                    [proc[p] EXCEPT !.fresh = OnDisk(Mine(p))]},
           Then(p, mem), UNCHANGED <<current, record, card, wall, mutex, used>>
    PROVE  TokensInv'
<1> DEFINE r == OnDisk(Mine(p))
<1>1. /\ proc[p] \in Memory /\ proc[p].todo # <<>> /\ Sound(used, proc[p]) /\ Mine(p) \in Session
      /\ TypesOf(current, record, card, wall, mutex, used) /\ RecordsSound(used, record)
  BY InCommand
<1>2. r \in Record /\ DrawnBy(used, Mine(p), r.tokens)
  BY <1>1, OnDiskSound
<1> HIDE DEF r
<1>3. /\ WithId(Mine(p), r) \in Photo /\ WithId(Mine(p), r).id = Mine(p)
      /\ WithId(Mine(p), r).tokens = r.tokens
  BY <1>1, <1>2, WithIdType
<1>4. mem \in Memory /\ mem.todo = proc[p].todo /\ Sound(used, mem)
  <2>1. CASE mem = [proc[p] EXCEPT !.photo = WithId(Mine(p), r)]
    <3>1. /\ mem \in Memory /\ mem.todo = proc[p].todo /\ mem.photo = WithId(Mine(p), r)
          /\ mem.fresh = proc[p].fresh /\ mem.minted = proc[p].minted /\ mem.about = proc[p].about
      BY <1>1, <1>3, <2>1 DEF Memory
    <3> QED BY <1>1, <1>2, <1>3, <3>1 DEF Sound, Mine
  <2>2. CASE mem = [proc[p] EXCEPT !.fresh = r]
    <3>1. /\ mem \in Memory /\ mem.todo = proc[p].todo /\ mem.photo = proc[p].photo
          /\ mem.fresh = r /\ mem.minted = proc[p].minted /\ mem.about = proc[p].about
      BY <1>1, <1>2, <2>2 DEF Memory
    <3> QED BY <1>1, <1>2, <3>1 DEF Sound, Mine
  <2> QED BY <2>1, <2>2 DEF r
<1>5. TypesOf(current', record', card', wall', mutex', used') /\ RecordsSound(used, record')
  BY <1>1
<1> QED BY <1>1, <1>4, <1>5, MemoryStep

\* A process that writes its session: what it has of it, with one token changed or not.
LEMMA WriteSound ==
    ASSUME TokensInv, NEW p \in Process, NEW step, Take(p, step),
           NEW mem \in Memory, mem.todo # <<>>, Sound(used, mem), Then(p, mem),
           NEW r \in Record, DrawnBy(used, Mine(p), r.tokens), WriteSession(p, r)
    PROVE  TokensInv'
<1>1. /\ Mine(p) \in Session /\ RecordsSound(used, record)
      /\ TypesOf(current, record, card, wall, mutex, used)
  BY InCommand
<1>2. /\ [seq |-> r.seq, tokens |-> r.tokens] = r
      /\ record' = Put(record, Mine(p), r) /\ UNCHANGED <<current, card, wall, mutex, used>>
  BY DEF WriteSession, Record
<1>3. RecordsSound(used, record') /\ TypesOf(current', record', card', wall', mutex', used')
  BY <1>1, <1>2, PutRecord
<1> QED BY <1>2, <1>3, MemoryStep

LEMMA WriteJoinedSound ==
    ASSUME TokensInv, NEW p \in Process, WriteJoined(p)
    PROVE  TokensInv'
<1> DEFINE r == [seq |-> proc[p].photo.seq, tokens |-> proc[p].photo.tokens]
<1>1. /\ Take(p, "session") /\ Then(p, proc[p]) /\ WriteSession(p, proc[p].photo)
  BY DEF WriteJoined, Done
<1>2. proc[p] \in Memory /\ proc[p].todo # <<>> /\ Sound(used, proc[p]) /\ Mine(p) \in Session
  BY <1>1, InCommand
<1>3. r \in Record /\ DrawnBy(used, Mine(p), r.tokens)
  BY <1>2 DEF Memory, Photo, Record, Sound, Mine
<1>4. WriteSession(p, r)
  BY <1>1 DEF WriteSession
<1> HIDE DEF r
<1> QED BY <1>1, <1>2, <1>3, <1>4, WriteSound

LEMMA NumberSound ==
    ASSUME TokensInv, NEW p \in Process, Number(p)
    PROVE  TokensInv'
<1> DEFINE next == [proc[p].photo EXCEPT !.seq = @ + 1]
           mem  == [proc[p] EXCEPT !.photo = next]
           r    == [seq |-> next.seq, tokens |-> next.tokens]
<1>1. /\ Take(p, "number") /\ Then(p, mem) /\ WriteSession(p, next)
  BY DEF Number
<1>2. proc[p] \in Memory /\ proc[p].todo # <<>> /\ Sound(used, proc[p]) /\ Mine(p) \in Session
  BY <1>1, InCommand
<1>3. /\ next \in Photo /\ next.id = proc[p].photo.id /\ next.tokens = proc[p].photo.tokens
      /\ r \in Record
  BY <1>2 DEF Memory, Photo, Record
<1>4. /\ mem \in Memory /\ mem.todo = proc[p].todo /\ mem.photo = next
      /\ mem.fresh = proc[p].fresh /\ mem.minted = proc[p].minted /\ mem.about = proc[p].about
  BY <1>2, <1>3 DEF Memory
<1>5. Sound(used, mem) /\ DrawnBy(used, Mine(p), r.tokens)
  BY <1>2, <1>3, <1>4 DEF Sound, Mine
<1>6. WriteSession(p, r)
  BY <1>1 DEF WriteSession
<1> HIDE DEF mem, r, next
<1> QED BY <1>1, <1>2, <1>3, <1>4, <1>5, <1>6, WriteSound

LEMMA MutateSound ==
    ASSUME TokensInv, NEW p \in Process, NEW step, Take(p, step), NEW t \in Token \cup {None},
           t # None => t \in DOMAIN used /\ used[t] = Mine(p), Mutate(p, t)
    PROVE  TokensInv'
<1> DEFINE r   == [proc[p].fresh EXCEPT !.tokens[About(p)] = t]
           mem == [proc[p] EXCEPT !.photo.tokens = r.tokens]
<1>1. WriteSession(p, r) /\ Then(p, mem)
  BY DEF Mutate
<1>2. proc[p] \in Memory /\ proc[p].todo # <<>> /\ Sound(used, proc[p]) /\ Mine(p) \in Session
  BY InCommand
<1>3. proc[p].fresh \in Record /\ proc[p].photo \in Photo
  BY <1>2 DEF Memory
<1>4. /\ r \in Record
      /\ \A c \in Card : r.tokens[c] = proc[p].fresh.tokens[c] \/ r.tokens[c] = t
  BY <1>3 DEF Record, Tokens
<1>5. DrawnBy(used, Mine(p), r.tokens)
  BY <1>2, <1>4 DEF Sound, DrawnBy, Mine
<1> HIDE DEF r
<1>6. /\ mem \in Memory /\ mem.todo = proc[p].todo /\ mem.photo.id = proc[p].photo.id
      /\ mem.photo.tokens = r.tokens
      /\ mem.fresh = proc[p].fresh /\ mem.minted = proc[p].minted /\ mem.about = proc[p].about
  BY <1>2, <1>3, <1>4 DEF Memory, Photo, Record
<1>7. Sound(used, mem)
  BY <1>2, <1>5, <1>6 DEF Sound, Mine
<1> HIDE DEF mem
<1> QED BY <1>1, <1>2, <1>4, <1>5, <1>6, <1>7, WriteSound

LEMMA TokenStepSound ==
    ASSUME TokensInv, NEW p \in Process, KeepToken(p) \/ ForgetToken(p)
    PROVE  TokensInv'
<1>1. CASE KeepToken(p)
  <2>1. Take(p, "keep") /\ Mutate(p, proc[p].minted)
    BY <1>1 DEF KeepToken
  <2>2. proc[p] \in Memory /\ Sound(used, proc[p])
    BY <2>1, InCommand
  <2>3. /\ proc[p].minted \in Token \cup {None}
        /\ proc[p].minted # None => proc[p].minted \in DOMAIN used /\ used[proc[p].minted] = Mine(p)
    BY <2>2 DEF Memory, Sound, Mine
  <2> QED BY <2>1, <2>3, MutateSound
<1>2. CASE ForgetToken(p)
  <2>1. Take(p, "forget") /\ Mutate(p, None)
    BY <1>2 DEF ForgetToken
  <2> QED BY <2>1, MutateSound
<1> QED BY <1>1, <1>2

\* Steps that leave records, cards and ids alone, and in memory only the todo list shorter.
LEMMA PlainSound ==
    ASSUME TokensInv, NEW p \in Process, Lock(p) \/ Unlock(p) \/ PinNote(p)
    PROVE  TokensInv'
<1>1. PICK step : Take(p, step) /\ Then(p, proc[p])
  BY DEF Lock, Unlock, PinNote, Done
<1>2. /\ proc[p] \in Memory /\ proc[p].todo # <<>> /\ Sound(used, proc[p]) /\ Mine(p) \in Session
      /\ TypesOf(current, record, card, wall, mutex, used) /\ RecordsSound(used, record)
  BY <1>1, InCommand
<1>3. UNCHANGED <<current, record, card, used>>
  BY DEF Lock, Unlock, PinNote
<1>4. mutex' \in Process \cup {None}
  BY <1>2 DEF Lock, Unlock, PinNote, TypesOf
<1>5. wall' \in [Session -> Seq(Nat)]
  <2>1. proc[p].photo.seq \in Nat
    BY <1>2 DEF Memory, Photo
  <2>2. CASE PinNote(p)
    <3>1. Append(wall[Mine(p)], proc[p].photo.seq) \in Seq(Nat)
      BY <1>2, <2>1 DEF TypesOf
    <3> QED BY <1>2, <2>2, <3>1 DEF PinNote, TypesOf
  <2>3. CASE Lock(p) \/ Unlock(p)
    BY <1>2, <2>3 DEF Lock, Unlock, TypesOf
  <2> QED BY <2>2, <2>3
<1>6. TypesOf(current', record', card', wall', mutex', used')
  BY <1>2, <1>3, <1>4, <1>5 DEF TypesOf
<1> QED BY <1>1, <1>2, <1>3, <1>6, MemoryStep

\* One card less.
LEMMA ArchiveSound ==
    ASSUME TypesOf(current, record, card, wall, mutex, used), CardsSound(used, card), NEW c, Archive(c)
    PROVE  /\ DOMAIN card' \subseteq Card /\ card' \in [DOMAIN card' -> CardRec]
           /\ CardsSound(used, card') /\ UNCHANGED <<current, record, wall, mutex, used>>
BY DEF Archive, TypesOf, CardsSound

\* Steps that take a card down or offer it, or withdraw an offer: the owner and the token
\* of a card that is up stay.
LEMMA CardStepSound ==
    ASSUME TokensInv, NEW p \in Process,
           TakeDown(p) \/ SweepEnds(p) \/ DeclineCard(p) \/ \E a \in Actor : OfferCard(p, a)
    PROVE  TokensInv'
<1>1. PICK step : Take(p, step) /\ Then(p, proc[p])
  BY DEF TakeDown, SweepEnds, DeclineCard, OfferCard, Done
<1>2. /\ proc[p] \in Memory /\ proc[p].todo # <<>> /\ Sound(used, proc[p])
      /\ TypesOf(current, record, card, wall, mutex, used)
      /\ CardsSound(used, card) /\ RecordsSound(used, record)
  BY <1>1, InCommand
<1>3. UNCHANGED <<current, record, wall, mutex, used>>
  BY DEF TakeDown, SweepEnds, DeclineCard, OfferCard, Archive
<1>4. /\ DOMAIN card' \subseteq Card /\ card' \in [DOMAIN card' -> CardRec]
      /\ CardsSound(used, card')
  <2>1. CASE TakeDown(p)
    BY <1>2, <2>1, ArchiveSound DEF TakeDown
  <2>2. CASE UNCHANGED card
    BY <1>2, <2>2 DEF TypesOf, CardsSound
  <2>3. ASSUME NEW a \in Actor \cup {None}, card' = [card EXCEPT ![About(p)].to = a]
        PROVE  /\ DOMAIN card' \subseteq Card /\ card' \in [DOMAIN card' -> CardRec]
               /\ CardsSound(used, card')
    <3>2. /\ DOMAIN card' = DOMAIN card
          /\ \A c \in DOMAIN card : /\ card'[c] \in CardRec
                                    /\ card'[c].owner = card[c].owner /\ card'[c].token = card[c].token
      BY <1>2, <2>3 DEF TypesOf, CardRec
    <3>3. card' = [c \in DOMAIN card |-> card'[c]]
      BY <1>2, <2>3 DEF TypesOf
    <3> QED BY <1>2, <3>2, <3>3 DEF CardsSound, TypesOf
  <2> QED BY <2>1, <2>2, <2>3 DEF SweepEnds, DeclineCard, OfferCard
<1>5. After(proc[p]) \in Memory /\ Sound(used, After(proc[p])) /\ proc' = [proc EXCEPT ![p] = After(proc[p])]
  BY <1>1, <1>2, AfterSound DEF Then
<1>6. /\ Grows(used, used') /\ RecordsSound(used', record') /\ CardsSound(used', card')
      /\ TypesOf(current', record', card', wall', mutex', used')
  BY <1>2, <1>3, <1>4 DEF Grows, TypesOf
<1> QED BY <1>3, <1>5, <1>6, OneStep

\* A card that a sweep takes down: the note about it goes before what p had to do.
LEMMA SweepCardSound ==
    ASSUME TokensInv, NEW p \in Process, NEW c, SweepCard(p, c)
    PROVE  TokensInv'
<1> DEFINE todo == PinSteps \o proc[p].todo
           mem  == [proc[p] EXCEPT !.todo = todo]
<1>1. Take(p, "sweep") /\ Archive(c) /\ proc' = [proc EXCEPT ![p] = mem]
  BY InvParts DEF SweepCard
<1>2. /\ proc[p] \in Memory /\ proc[p].todo # <<>> /\ Sound(used, proc[p]) /\ Mine(p) \in Session
      /\ TypesOf(current, record, card, wall, mutex, used)
      /\ CardsSound(used, card) /\ RecordsSound(used, record)
  BY <1>1, InCommand
<1>3. /\ todo \in Seq(Step)
      /\ (\E i \in 1..Len(todo) : todo[i] = "take") =>
            \E i \in 1..Len(proc[p].todo) : proc[p].todo[i] = "take"
  <2>1. PinSteps \in Seq(Step) /\ proc[p].todo \in Seq(Step)
    BY <1>2, StepTypes DEF Memory
  <2>2. /\ todo \in Seq(Step) /\ Len(todo) = Len(PinSteps) + Len(proc[p].todo)
        /\ \A i \in 1..Len(todo) :
              todo[i] = IF i <= Len(PinSteps) THEN PinSteps[i] ELSE proc[p].todo[i - Len(PinSteps)]
    BY <2>1, ConcatProperties
  <2> HIDE DEF todo
  <2>3. ASSUME NEW i \in 1..Len(todo), todo[i] = "take"
        PROVE  \E k \in 1..Len(proc[p].todo) : proc[p].todo[k] = "take"
    <3>1. Len(PinSteps) \in Nat /\ Len(proc[p].todo) \in Nat
      BY <2>1, LenProperties
    <3>2. ~(i <= Len(PinSteps))
      BY <2>2, <2>3, <3>1, NoTake
    <3>3. i - Len(PinSteps) \in 1..Len(proc[p].todo) /\ proc[p].todo[i - Len(PinSteps)] = "take"
      BY <2>2, <2>3, <3>1, <3>2
    <3> QED BY <3>3
  <2> QED BY <2>2, <2>3
<1> HIDE DEF todo
<1>4. /\ mem \in Memory /\ mem.todo = todo /\ mem.photo = proc[p].photo
      /\ mem.fresh = proc[p].fresh /\ mem.minted = proc[p].minted /\ mem.about = proc[p].about
  BY <1>2, <1>3 DEF Memory
<1>5. Sound(used, mem)
  BY <1>2, <1>3, <1>4 DEF Sound, Mine
<1> HIDE DEF mem
<1>6. /\ DOMAIN card' \subseteq Card /\ card' \in [DOMAIN card' -> CardRec]
      /\ CardsSound(used, card') /\ UNCHANGED <<current, record, wall, mutex, used>>
  BY <1>1, <1>2, ArchiveSound
<1>7. /\ Grows(used, used') /\ RecordsSound(used', record') /\ CardsSound(used', card')
      /\ TypesOf(current', record', card', wall', mutex', used')
  BY <1>2, <1>6 DEF Grows, TypesOf
<1> QED BY <1>1, <1>4, <1>5, <1>6, <1>7, OneStep

\* Steps that draw a token for a card: the process keeps it, and so does the card.
LEMMA MintStep ==
    ASSUME TokensInv, NEW p \in Process, NEW step, Take(p, step), NEW t \in Token, NEW v,
           Grows(used, v), t \in DOMAIN v, v[t] = Mine(p),
           Then(p, [proc[p] EXCEPT !.minted = t]),
           DOMAIN v \subseteq Session \cup Card \cup Token, v \in [DOMAIN v -> Session],
           used' = v, DOMAIN card' \subseteq Card, card' \in [DOMAIN card' -> CardRec],
           CardsSound(v, card'), UNCHANGED <<current, record, wall, mutex>>
    PROVE  TokensInv'
<1> DEFINE mem == [proc[p] EXCEPT !.minted = t]
<1>1. /\ proc[p] \in Memory /\ proc[p].todo # <<>> /\ Sound(used, proc[p])
      /\ TypesOf(current, record, card, wall, mutex, used)
      /\ CardsSound(used, card) /\ RecordsSound(used, record)
  BY InCommand
<1>2. Sound(v, proc[p]) /\ RecordsSound(v, record)
  BY <1>1, SoundGrows, PartsGrow
<1>3. /\ mem \in Memory /\ mem.todo = proc[p].todo /\ mem.photo = proc[p].photo
      /\ mem.fresh = proc[p].fresh /\ mem.minted = t /\ mem.about = proc[p].about
  BY <1>1 DEF Memory
<1>4. Sound(v, mem)
  BY <1>2, <1>3 DEF Sound, Mine
<1>5. Then(p, mem)
  OBVIOUS
<1> HIDE DEF mem
<1>6. After(mem) \in Memory /\ Sound(v, After(mem)) /\ proc' = [proc EXCEPT ![p] = After(mem)]
  BY <1>1, <1>3, <1>4, <1>5, AfterSound DEF Then
<1>7. TypesOf(current', record', card', wall', mutex', used') /\ RecordsSound(used', record')
  BY <1>1, <1>2 DEF TypesOf
<1> QED BY <1>6, <1>7, OneStep

LEMMA TakeCardSound ==
    ASSUME TokensInv, NEW p \in Process, NEW t \in Token, TakeCard(p, t)
    PROVE  TokensInv'
<1> DEFINE c == About(p)
           v == Put(used, t, Mine(p))
<1>1. /\ Take(p, "take") /\ t \notin DOMAIN used
      /\ Then(p, [proc[p] EXCEPT !.minted = t])
      /\ card' = Put(card, c, [owner |-> Mine(p), token |-> t, to |-> None])
      /\ used' = v /\ UNCHANGED <<current, record, wall, mutex>>
  BY DEF TakeCard, Unused
<1>2. /\ Mine(p) \in Session /\ c \in Card /\ CardsSound(used, card)
      /\ TypesOf(current, record, card, wall, mutex, used)
  BY <1>1, InCommand
<1>3. /\ Grows(used, v) /\ DOMAIN v \subseteq Session \cup Card \cup Token
      /\ v \in [DOMAIN v -> Session] /\ t \in DOMAIN v /\ v[t] = Mine(p)
  BY <1>1, <1>2, PutGrows, SMTT(20) DEF TypesOf
<1> HIDE DEF v
<1>4. DOMAIN card' \subseteq Card /\ card' \in [DOMAIN card' -> CardRec] /\ CardsSound(v, card')
  <2>1. CardsSound(v, card)
    BY <1>2, <1>3 DEF CardsSound, Grows
  <2>2. [owner |-> Mine(p), token |-> t, to |-> None] \in CardRec
    BY <1>2 DEF CardRec
  <2> QED BY <1>1, <1>2, <1>3, <2>1, <2>2 DEF Put, CardsSound, TypesOf
<1> QED BY <1>1, <1>3, <1>4, MintStep

LEMMA AcceptCardSound ==
    ASSUME TokensInv, NEW p \in Process, NEW t \in Token, AcceptCard(p, t)
    PROVE  TokensInv'
<1> DEFINE c == About(p)
           v == Put(used, t, Mine(p))
<1>1. /\ Take(p, "accept") /\ c \in DOMAIN card /\ t \notin DOMAIN used
      /\ Then(p, [proc[p] EXCEPT !.minted = t])
      /\ card' = [card EXCEPT ![c] = Accepted(card[c], Mine(p), t)]
      /\ used' = v /\ UNCHANGED <<current, record, wall, mutex>>
  BY DEF AcceptCard, Unused, MayAccept, IsUp
<1>2. /\ Mine(p) \in Session /\ CardsSound(used, card)
      /\ TypesOf(current, record, card, wall, mutex, used)
  BY <1>1, InCommand
<1>3. /\ Grows(used, v) /\ DOMAIN v \subseteq Session \cup Card \cup Token
      /\ v \in [DOMAIN v -> Session] /\ t \in DOMAIN v /\ v[t] = Mine(p)
  BY <1>1, <1>2, PutGrows DEF TypesOf
<1> HIDE DEF v
<1>4. DOMAIN card' \subseteq Card /\ card' \in [DOMAIN card' -> CardRec] /\ CardsSound(v, card')
  <2>1. CardsSound(v, card)
    BY <1>2, <1>3 DEF CardsSound, Grows
  <2>2. /\ Accepted(card[c], Mine(p), t) \in CardRec
        /\ Accepted(card[c], Mine(p), t).owner = Mine(p) /\ Accepted(card[c], Mine(p), t).token = t
    BY <1>1, <1>2 DEF Accepted, CardRec, TypesOf
  <2> QED BY <1>1, <1>2, <1>3, <2>1, <2>2 DEF CardsSound, TypesOf
<1> QED BY <1>1, <1>3, <1>4, MintStep

\* A process that is refused goes on to leave the mutex; one that dies has nothing left.
LEMMA EndSound ==
    ASSUME TokensInv, NEW p \in Process, Refuse(p) \/ Crash(p)
    PROVE  TokensInv'
<1>1. /\ proc \in [Process -> Memory] /\ \A q \in Process : Sound(used, proc[q])
      /\ TypesOf(current, record, card, wall, mutex, used)
      /\ CardsSound(used, card) /\ RecordsSound(used, record)
  BY InvParts
<1>2. UNCHANGED <<current, record, card, wall, used>> /\ mutex' \in Process \cup {None}
  BY <1>1 DEF Refuse, Crash, TypesOf
<1>3. PICK mem \in Memory : proc' = [proc EXCEPT ![p] = mem] /\ Sound(used, mem)
  <2>1. CASE Crash(p)
    BY <2>1, IdleType DEF Crash
  <2>2. CASE Refuse(p)
    <3> DEFINE mem == [proc[p] EXCEPT !.todo = <<"unlock">>]
    <3>1. Mine(p) \in Session
      <4>1. PICK step : Take(p, step)
        BY <2>2 DEF Refuse, MayRefuse
      <4> QED BY <4>1, InCommand
    <3>2. <<"unlock">> \in Seq(Step) /\ \A i \in 1..Len(<<"unlock">>) : <<"unlock">>[i] # "take"
      BY DEF Step
    <3>3. /\ mem \in Memory /\ mem.todo = <<"unlock">> /\ mem.photo = proc[p].photo
          /\ mem.fresh = proc[p].fresh /\ mem.minted = proc[p].minted /\ mem.about = proc[p].about
      BY <1>1, <3>2 DEF Memory
    <3>4. Sound(used, mem)
      BY <1>1, <3>1, <3>2, <3>3 DEF Sound, Mine
    <3>5. proc' = [proc EXCEPT ![p] = mem]
      BY <2>2, <1>1 DEF Refuse
    <3> QED BY <3>3, <3>4, <3>5
  <2> QED BY <2>1, <2>2
<1>4. Grows(used, used') /\ TypesOf(current', record', card', wall', mutex', used')
  BY <1>1, <1>2 DEF Grows, TypesOf
<1> QED BY <1>1, <1>2, <1>3, <1>4, OneStep

-----------------------------------------------------------------------------
(* The theorems. *)

LEMMA NextSound == TokensInv /\ [Next]_vars => TokensInv'
<1> SUFFICES ASSUME TokensInv, [Next]_vars PROVE TokensInv'
  OBVIOUS
<1>1. CASE UNCHANGED vars
  BY <1>1 DEF vars, TokensInv, TypeOK, Mine, About
<1>2. CASE Next
  <2> PICK p \in Process :
        \/ \E s \in Session : Join(p, s)
        \/ PlainCommand(p)
        \/ \E c \in Card : Claim(p, c) \/ OnCard(p, c) \/ SweepCard(p, c)
        \/ WriteActor(p) \/ ReadPrior(p) \/ WriteJoined(p)
        \/ Lock(p) \/ Unlock(p)
        \/ \E t \in Token : TakeCard(p, t) \/ AcceptCard(p, t)
        \/ \E a \in Actor : OfferCard(p, a)
        \/ SweepEnds(p) \/ DeclineCard(p)
        \/ Reread(p) \/ TakeDown(p) \/ Refuse(p)
        \/ Fetch(p) \/ KeepToken(p) \/ ForgetToken(p)
        \/ Number(p) \/ PinNote(p) \/ Crash(p)
    BY <1>2 DEF Next
  <2>1. CASE \E s \in Session : Join(p, s)
    BY <2>1, JoinSound
  <2>2. CASE PlainCommand(p) \/ \E c \in Card : OnCard(p, c)
    BY <2>2, PlainCommandSound
  <2>3. CASE \E c \in Card : Claim(p, c)
    BY <2>3, ClaimSound
  <2>4. CASE WriteActor(p)
    BY <2>4, WriteActorSound
  <2>5. CASE ReadPrior(p) \/ Reread(p) \/ Fetch(p)
    BY <2>5, ReadSound DEF ReadPrior, Reread, Fetch, Prior
  <2>6. CASE WriteJoined(p)
    BY <2>6, WriteJoinedSound
  <2>7. CASE Lock(p) \/ Unlock(p) \/ PinNote(p)
    BY <2>7, PlainSound
  <2>8. CASE \E t \in Token : TakeCard(p, t) \/ AcceptCard(p, t)
    BY <2>8, TakeCardSound, AcceptCardSound
  <2>9. CASE TakeDown(p) \/ SweepEnds(p) \/ DeclineCard(p) \/ \E a \in Actor : OfferCard(p, a)
    BY <2>9, CardStepSound
  <2>10. CASE KeepToken(p) \/ ForgetToken(p)
    BY <2>10, TokenStepSound
  <2>11. CASE Number(p)
    BY <2>11, NumberSound
  <2>12. CASE Refuse(p) \/ Crash(p)
    BY <2>12, EndSound
  <2>13. CASE \E c \in Card : SweepCard(p, c)
    BY <2>13, SweepCardSound
  <2> QED
    BY <2>1, <2>2, <2>3, <2>4, <2>5, <2>6, <2>7, <2>8, <2>9, <2>10, <2>11, <2>12, <2>13
<1> QED BY <1>1, <1>2

\* Wherever a token is kept, it was drawn by the session in whose record it is, however
\* late a command writes a copy of that record back (store.Pin, store.MutateSession).
THEOREM TokensAreSound == Spec => []TokensInv
BY InitSound, NextSound, PTL DEF Spec

\* For release, a card is nobody's but its present holder's: not the session's that
\* handed it over, not even by an old photograph (cmdAccept, cmdRelease).
THEOREM OnlyTheHolderOwnsACard == Spec => []OnlyTheHolderOwns
<1>1. TokensInv => OnlyTheHolderOwns
  <2> SUFFICES ASSUME TokensInv, NEW c \in DOMAIN card PROVE
        /\ \A s \in DOMAIN record : Owns(s, record[s].tokens, c) => s = card[c].owner
        /\ \A p \in Process : Owns(Mine(p), proc[p].photo.tokens, c) => Mine(p) = card[c].owner
    BY DEF OnlyTheHolderOwns
  <2>1. /\ TypesOf(current, record, card, wall, mutex, used)
        /\ CardsSound(used, card) /\ RecordsSound(used, record)
        /\ \A p \in Process : Sound(used, proc[p])
    BY InvParts
  <2>2. c \in Card /\ card[c].token # None /\ used[card[c].token] = card[c].owner
    BY <2>1, NoneAssumption DEF TypesOf, CardRec, CardsSound
  <2>3. ASSUME NEW s, NEW tokens, DrawnBy(used, s, tokens), Owns(s, tokens, c)
        PROVE  s = card[c].owner
    BY <2>2, <2>3 DEF DrawnBy, Owns
  <2>4. ASSUME NEW s \in DOMAIN record PROVE DrawnBy(used, s, record[s].tokens)
    BY <2>1 DEF RecordsSound
  <2>5. ASSUME NEW p \in Process PROVE DrawnBy(used, Mine(p), proc[p].photo.tokens)
    BY <2>1 DEF Sound, Mine
  <2> QED BY <2>3, <2>4, <2>5
<1> QED BY <1>1, TokensAreSound, PTL

-----------------------------------------------------------------------------
(* A command and the token it drew: OwnTokensStay, for any number of processes of one *)
(* session. After a token is drawn the command reads the record, writes it back with  *)
(* the token, pins a note and leaves the mutex, and nothing else.                     *)

AfterMint == {"fetch", "keep", "number", "pin", "unlock"}

\* A program that draws a token writes it into the record later on.
MintsInOrder(todo) ==
    \A i \in 1..Len(todo) : todo[i] \in {"take", "accept"} =>
        /\ \A j \in 1..Len(todo) : i < j => todo[j] \in AfterMint
        /\ \E j \in 1..Len(todo) : i < j /\ todo[j] = "keep"

\* Once the token was written, the copy of the record in memory has it.
InCopy(mem) == mem.photo.tokens[mem.about] = mem.minted

KeepsItsToken(mem) ==
    /\ MintsInOrder(mem.todo)
    /\ mem.minted # None =>
          /\ mem.about \in Card
          /\ \A i \in 1..Len(mem.todo) : mem.todo[i] \in AfterMint
          /\ Has(mem.todo, {"keep"}) \/ InCopy(mem)

CommandsKeepTheirTokens == TokensInv /\ \A p \in Process : KeepsItsToken(proc[p])

LEMMA ProgramsMintInOrder ==
    ASSUME NEW steps \in {PinSteps, JoinSteps, ClaimSteps, DenySteps, ReleaseSteps, ReapSteps,
                          OfferSteps, AcceptSteps, DeclineSteps, <<"unlock">>}
    PROVE  MintsInOrder(steps)
<1>1. CASE steps \in {PinSteps, JoinSteps, DenySteps, ReleaseSteps, ReapSteps, OfferSteps,
                      DeclineSteps, <<"unlock">>}
  <2>1. \A i \in 1..Len(steps) : steps[i] \notin {"take", "accept"}
    BY <1>1 DEF PinSteps, JoinSteps, DenySteps, ReleaseSteps, ReapSteps, OfferSteps, DeclineSteps
  <2> QED BY <2>1 DEF MintsInOrder
<1>2. CASE steps = ClaimSteps
  <2>1. /\ \A i \in 1..Len(steps) : steps[i] \in {"take", "accept"} => i = 3
        /\ \A j \in 1..Len(steps) : 3 < j => steps[j] \in AfterMint
    BY <1>2 DEF ClaimSteps, AfterMint
  <2>2. 5 \in 1..Len(steps) /\ steps[5] = "keep" /\ 3 < 5
    BY <1>2 DEF ClaimSteps
  <2> QED BY <2>1, <2>2 DEF MintsInOrder
<1>3. CASE steps = AcceptSteps
  <2>1. /\ \A i \in 1..Len(steps) : steps[i] \in {"take", "accept"} => i = 2
        /\ \A j \in 1..Len(steps) : 2 < j => steps[j] \in AfterMint
    BY <1>3 DEF AcceptSteps, AfterMint
  <2>2. 4 \in 1..Len(steps) /\ steps[4] = "keep" /\ 2 < 4
    BY <1>3 DEF AcceptSteps
  <2> QED BY <2>1, <2>2 DEF MintsInOrder
<1> QED BY <1>1, <1>2, <1>3

LEMMA IdleKeeps == KeepsItsToken(Idle)
<1>1. Idle.todo = <<>> /\ Idle.minted = None
  BY DEF Idle
<1>2. \A i \in 1..Len(Idle.todo) : FALSE
  BY <1>1
<1> QED BY <1>1, <1>2 DEF KeepsItsToken, MintsInOrder

\* One step less.
LEMMA TailSteps ==
    ASSUME NEW todo \in Seq(Step), todo # <<>>, Len(todo) # 1
    PROVE  /\ Len(todo) \in Nat /\ Len(todo) > 1 /\ Head(todo) = todo[1]
           /\ Tail(todo) \in Seq(Step) /\ Len(Tail(todo)) = Len(todo) - 1
           /\ \A i \in 1..Len(Tail(todo)) : Tail(todo)[i] = todo[i + 1]
<1>1. Len(todo) \in Nat /\ Len(todo) # 0
  BY EmptySeq, LenProperties
<1>2. \A n \in Nat : n # 0 /\ n # 1 => n > 1
  OBVIOUS
<1>3. Len(todo) > 1
  BY <1>1, <1>2, Zenon
<1> QED BY <1>1, <1>3

LEMMA AfterKeeps ==
    ASSUME NEW mem \in Memory, mem.todo # <<>>, MintsInOrder(mem.todo),
           mem.minted # None =>
              /\ mem.about \in Card
              /\ \/ Head(mem.todo) \in {"take", "accept"}
                 \/ /\ \A i \in 1..Len(mem.todo) : mem.todo[i] \in AfterMint
                    /\ \/ Has(mem.todo, {"keep"}) /\ Head(mem.todo) # "keep"
                       \/ InCopy(mem)
    PROVE  KeepsItsToken(After(mem))
<1>1. CASE Len(mem.todo) = 1
  BY <1>1, IdleKeeps DEF After
<1>2. CASE Len(mem.todo) # 1
  <2> DEFINE todo == mem.todo
             rest == Tail(todo)
             after == After(mem)
  <2>1. /\ Len(todo) \in Nat /\ Len(todo) > 1 /\ Head(todo) = todo[1]
        /\ rest \in Seq(Step) /\ Len(rest) = Len(todo) - 1
        /\ \A i \in 1..Len(rest) : rest[i] = todo[i + 1]
    <3>1. todo \in Seq(Step)
      BY DEF Memory
    <3> QED BY <1>2, <3>1, TailSteps
  <2>2. /\ after.todo = rest /\ after.photo = mem.photo
        /\ after.about = mem.about /\ after.minted = mem.minted
    BY <1>2, <2>1 DEF After, Memory
  <2> HIDE DEF after, rest, todo
  <2>3. ASSUME NEW i \in 1..Len(rest) PROVE i + 1 \in 1..Len(todo) /\ rest[i] = todo[i + 1]
    BY <2>1
  <2>4. ASSUME NEW j \in 1..Len(todo), j # 1 PROVE j - 1 \in 1..Len(rest) /\ rest[j - 1] = todo[j]
    <3>1. j - 1 \in 1..Len(rest) /\ (j - 1) + 1 = j
      BY <2>1, <2>4
    <3> QED BY <2>1, <3>1
  <2>5. MintsInOrder(rest)
    <3> SUFFICES ASSUME NEW i \in 1..Len(rest), rest[i] \in {"take", "accept"}
                 PROVE  /\ \A j \in 1..Len(rest) : i < j => rest[j] \in AfterMint
                        /\ \E j \in 1..Len(rest) : i < j /\ rest[j] = "keep"
      BY DEF MintsInOrder
    <3>1. i + 1 \in 1..Len(todo) /\ todo[i + 1] \in {"take", "accept"}
      BY <2>3
    <3>2. /\ \A j \in 1..Len(todo) : i + 1 < j => todo[j] \in AfterMint
          /\ \E j \in 1..Len(todo) : i + 1 < j /\ todo[j] = "keep"
      BY <3>1 DEF MintsInOrder, todo
    <3>3. ASSUME NEW j \in 1..Len(rest), i < j PROVE rest[j] \in AfterMint
      <4>1. i + 1 < j + 1
        BY <2>1, <3>3
      <4> QED BY <2>3, <3>2, <4>1
    <3>4. PICK j \in 1..Len(todo) : i + 1 < j /\ todo[j] = "keep"
      BY <3>2
    <3>5. j # 1 /\ i < j - 1
      BY <2>1, <3>4
    <3> QED BY <2>4, <3>3, <3>4, <3>5
  <2>6. ASSUME mem.minted # None
        PROVE  /\ \A i \in 1..Len(rest) : rest[i] \in AfterMint
               /\ Has(rest, {"keep"}) \/ InCopy(mem)
    <3>1. CASE Head(todo) \in {"take", "accept"}
      <4>1. 1 \in 1..Len(todo) /\ todo[1] \in {"take", "accept"}
        BY <2>1, <3>1
      <4>2. /\ \A j \in 1..Len(todo) : 1 < j => todo[j] \in AfterMint
            /\ \E j \in 1..Len(todo) : 1 < j /\ todo[j] = "keep"
        BY <4>1 DEF MintsInOrder, todo
      <4>3. ASSUME NEW i \in 1..Len(rest) PROVE rest[i] \in AfterMint
        <5>1. 1 < i + 1
          BY <2>1
        <5> QED BY <2>3, <4>2, <5>1
      <4>4. PICK j \in 1..Len(todo) : 1 < j /\ todo[j] = "keep"
        BY <4>2
      <4>5. j - 1 \in 1..Len(rest) /\ rest[j - 1] = "keep"
        BY <2>4, <4>4
      <4> QED BY <4>3, <4>5 DEF Has
    <3>2. CASE Head(todo) \notin {"take", "accept"}
      <4>1. /\ \A i \in 1..Len(todo) : todo[i] \in AfterMint
            /\ (Has(todo, {"keep"}) /\ Head(todo) # "keep") \/ InCopy(mem)
        BY <2>6, <3>2 DEF todo
      <4>2. \A i \in 1..Len(rest) : rest[i] \in AfterMint
        BY <2>3, <4>1
      <4>3. ASSUME Has(todo, {"keep"}), Head(todo) # "keep" PROVE Has(rest, {"keep"})
        <5>1. PICK j \in 1..Len(todo) : todo[j] = "keep"
          BY <4>3 DEF Has
        <5>2. j # 1
          BY <2>1, <4>3, <5>1
        <5> QED BY <2>4, <5>1, <5>2 DEF Has
      <4> QED BY <4>1, <4>2, <4>3
    <3> QED BY <3>1, <3>2
  <2>7. mem.minted # None => mem.about \in Card
    OBVIOUS
  <2>8. InCopy(mem) <=> InCopy(after)
    BY <2>2 DEF InCopy
  <2> QED BY <2>2, <2>5, <2>6, <2>7, <2>8 DEF KeepsItsToken, after
<1> QED BY <1>1, <1>2

\* A step replaces the memory of one process.
LEMMA OneKeeps ==
    ASSUME CommandsKeepTheirTokens, TokensInv', NEW p \in Process, NEW mem,
           proc' = [proc EXCEPT ![p] = mem], KeepsItsToken(mem)
    PROVE  CommandsKeepTheirTokens'
<1>1. proc \in [Process -> Memory]
  BY InvParts DEF CommandsKeepTheirTokens
<1>2. \A q \in Process : proc'[q] = IF q = p THEN mem ELSE proc[q]
  BY <1>1
<1>3. \A q \in Process : KeepsItsToken(proc'[q])
  BY <1>2 DEF CommandsKeepTheirTokens
<1> QED BY <1>3 DEF CommandsKeepTheirTokens

\* What is left of a command in the middle of it, and what it has drawn.
LEMMA InKeeping ==
    ASSUME CommandsKeepTheirTokens, NEW p \in Process, NEW step, Take(p, step)
    PROVE  /\ proc[p] \in Memory /\ proc[p].todo # <<>> /\ Head(proc[p].todo) = step
           /\ KeepsItsToken(proc[p])
           /\ step = "take" => About(p) \in Card
           /\ DOMAIN card \subseteq Card
           /\ step \notin AfterMint => proc[p].minted = None
<1>1. TokensInv /\ KeepsItsToken(proc[p])
  BY DEF CommandsKeepTheirTokens
<1>2. /\ proc[p] \in Memory /\ proc[p].todo # <<>> /\ Head(proc[p].todo) = step
      /\ step = "take" => About(p) \in Card
  BY <1>1, InCommand DEF Take
<1>3. DOMAIN card \subseteq Card
  BY <1>1, InCommand DEF TypesOf
<1>4. 1 \in 1..Len(proc[p].todo) /\ proc[p].todo[1] = step
  <2>1. proc[p].todo \in Seq(Step)
    BY <1>2 DEF Memory
  <2> QED BY <1>2, <2>1, EmptySeq, LenProperties
<1>5. step \notin AfterMint => proc[p].minted = None
  BY <1>1, <1>4 DEF KeepsItsToken
<1> QED BY <1>1, <1>2, <1>3, <1>5

\* A step that neither draws a token nor writes one.
LEMMA QuietKeeps ==
    ASSUME CommandsKeepTheirTokens, TokensInv', NEW p \in Process, NEW step, Take(p, step),
           step \notin {"take", "accept", "keep"},
           NEW mem \in Memory, Then(p, mem), mem.todo = proc[p].todo,
           mem.about = proc[p].about, mem.minted = proc[p].minted,
           step \in AfterMint => mem.photo.tokens = proc[p].photo.tokens
    PROVE  CommandsKeepTheirTokens'
<1>1. /\ proc[p].todo # <<>> /\ Head(proc[p].todo) = step /\ KeepsItsToken(proc[p])
      /\ step \notin AfterMint => proc[p].minted = None
  BY InKeeping
<1>2. ASSUME mem.minted # None
      PROVE  /\ mem.about \in Card
             /\ \A i \in 1..Len(mem.todo) : mem.todo[i] \in AfterMint
             /\ (Has(mem.todo, {"keep"}) /\ Head(mem.todo) # "keep") \/ InCopy(mem)
  BY <1>1, <1>2 DEF KeepsItsToken, InCopy
<1>3. KeepsItsToken(After(mem))
  BY <1>1, <1>2, AfterKeeps DEF KeepsItsToken
<1> QED BY <1>3, OneKeeps DEF Then

LEMMA QuietStepsKeep ==
    ASSUME CommandsKeepTheirTokens, TokensInv', NEW p \in Process,
           \/ WriteActor(p) \/ WriteJoined(p) \/ Lock(p) \/ Unlock(p) \/ SweepEnds(p)
           \/ TakeDown(p) \/ DeclineCard(p) \/ PinNote(p)
           \/ \E a \in Actor : OfferCard(p, a)
    PROVE  CommandsKeepTheirTokens'
<1>1. PICK step \in {"actor", "session", "lock", "unlock", "sweep", "down", "decline", "pin", "offer"} :
          Take(p, step) /\ Then(p, proc[p])
  BY DEF WriteActor, WriteJoined, Lock, Unlock, SweepEnds, TakeDown, DeclineCard, PinNote,
         OfferCard, Done
<1>2. proc[p] \in Memory
  BY <1>1, InKeeping
<1> QED BY <1>1, <1>2, QuietKeeps

LEMMA CopyStepsKeep ==
    ASSUME CommandsKeepTheirTokens, TokensInv', NEW p \in Process,
           ReadPrior(p) \/ Reread(p) \/ Fetch(p) \/ Number(p)
    PROVE  CommandsKeepTheirTokens'
<1>1. TokensInv
  BY DEF CommandsKeepTheirTokens
<1>2. PICK step \in {"prior", "reread", "fetch", "number"} :
        /\ Take(p, step)
        /\ \/ /\ step \in {"prior", "reread"}
              /\ Then(p, [proc[p] EXCEPT !.photo = WithId(Mine(p), OnDisk(Mine(p)))])
           \/ step = "fetch" /\ Then(p, [proc[p] EXCEPT !.fresh = OnDisk(Mine(p))])
           \/ /\ step = "number"
              /\ Then(p, [proc[p] EXCEPT !.photo = [proc[p].photo EXCEPT !.seq = @ + 1]])
  BY DEF ReadPrior, Reread, Fetch, Number, Prior
<1>3. /\ proc[p] \in Memory /\ proc[p].photo \in Photo /\ Mine(p) \in Session
      /\ TypesOf(current, record, card, wall, mutex, used) /\ RecordsSound(used, record)
  BY <1>1, <1>2, InCommand DEF Memory
<1>4. OnDisk(Mine(p)) \in Record
  BY <1>3, OnDiskSound
<1>5. WithId(Mine(p), OnDisk(Mine(p))) \in Photo
  BY <1>3, <1>4, WithIdType
<1>6. CASE step \in {"prior", "reread"}
  <2> DEFINE mem == [proc[p] EXCEPT !.photo = WithId(Mine(p), OnDisk(Mine(p)))]
  <2>1. /\ mem \in Memory /\ mem.todo = proc[p].todo /\ mem.about = proc[p].about
        /\ mem.minted = proc[p].minted
    BY <1>3, <1>5 DEF Memory
  <2>2. Then(p, mem) /\ step \notin AfterMint
    BY <1>2, <1>6 DEF AfterMint
  <2> HIDE DEF mem
  <2> QED BY <1>2, <1>6, <2>1, <2>2, QuietKeeps
<1>7. CASE step = "fetch"
  <2> DEFINE mem == [proc[p] EXCEPT !.fresh = OnDisk(Mine(p))]
  <2>1. /\ mem \in Memory /\ mem.todo = proc[p].todo /\ mem.about = proc[p].about
        /\ mem.minted = proc[p].minted /\ mem.photo = proc[p].photo
    BY <1>3, <1>4 DEF Memory
  <2>2. Then(p, mem)
    BY <1>2, <1>7
  <2> HIDE DEF mem
  <2> QED BY <1>2, <1>7, <2>1, <2>2, QuietKeeps
<1>8. CASE step = "number"
  <2> DEFINE next == [proc[p].photo EXCEPT !.seq = @ + 1]
             mem == [proc[p] EXCEPT !.photo = next]
  <2>1. next \in Photo /\ next.tokens = proc[p].photo.tokens
    BY <1>3 DEF Photo
  <2> HIDE DEF next
  <2>2. /\ mem \in Memory /\ mem.todo = proc[p].todo /\ mem.about = proc[p].about
        /\ mem.minted = proc[p].minted /\ mem.photo.tokens = proc[p].photo.tokens
    BY <1>3, <2>1 DEF Memory
  <2>3. Then(p, mem)
    BY <1>2, <1>8 DEF next
  <2> HIDE DEF mem
  <2> QED BY <1>2, <1>8, <2>2, <2>3, QuietKeeps
<1> QED BY <1>2, <1>6, <1>7, <1>8

\* MutateSession: the token goes into the record and into the copy alike.
LEMMA KeepTokenKeeps ==
    ASSUME CommandsKeepTheirTokens, TokensInv', NEW p \in Process, KeepToken(p)
    PROVE  CommandsKeepTheirTokens'
<1> DEFINE rec == [proc[p].fresh EXCEPT !.tokens[About(p)] = proc[p].minted]
           mem == [proc[p] EXCEPT !.photo.tokens = rec.tokens]
<1>1. Take(p, "keep") /\ Then(p, mem)
  BY DEF KeepToken, Mutate
<1>2. /\ proc[p] \in Memory /\ proc[p].todo # <<>> /\ Head(proc[p].todo) = "keep"
      /\ KeepsItsToken(proc[p])
  BY <1>1, InKeeping
<1>3. /\ proc[p].fresh \in Record /\ proc[p].photo \in Photo
      /\ proc[p].minted \in Token \cup {None} /\ About(p) = proc[p].about
  BY <1>2 DEF Memory, About
<1>4. rec.tokens \in Tokens /\ (About(p) \in Card => rec.tokens[About(p)] = proc[p].minted)
  BY <1>3 DEF Record, Tokens
<1> HIDE DEF rec
<1>5. /\ mem \in Memory /\ mem.todo = proc[p].todo /\ mem.about = proc[p].about
      /\ mem.minted = proc[p].minted /\ mem.photo.tokens = rec.tokens
  BY <1>2, <1>3, <1>4 DEF Memory, Photo
<1> HIDE DEF mem
<1>6. mem.minted # None =>
        /\ mem.about \in Card
        /\ \A i \in 1..Len(mem.todo) : mem.todo[i] \in AfterMint
        /\ InCopy(mem)
  BY <1>2, <1>3, <1>4, <1>5 DEF KeepsItsToken, InCopy
<1>7. MintsInOrder(mem.todo)
  BY <1>2, <1>5 DEF KeepsItsToken
<1>8. KeepsItsToken(After(mem))
  BY <1>2, <1>5, <1>6, <1>7, AfterKeeps
<1> QED BY <1>1, <1>8, OneKeeps DEF Then

LEMMA ForgetTokenKeeps ==
    ASSUME CommandsKeepTheirTokens, TokensInv', NEW p \in Process, ForgetToken(p)
    PROVE  CommandsKeepTheirTokens'
<1> DEFINE rec == [proc[p].fresh EXCEPT !.tokens[About(p)] = None]
           mem == [proc[p] EXCEPT !.photo.tokens = rec.tokens]
<1>1. Take(p, "forget") /\ Then(p, mem)
  BY DEF ForgetToken, Mutate
<1>2. proc[p] \in Memory /\ proc[p].fresh \in Record /\ proc[p].photo \in Photo
  BY <1>1, InKeeping DEF Memory
<1>3. rec.tokens \in Tokens
  BY <1>2 DEF Record, Tokens
<1> HIDE DEF rec
<1>4. /\ mem \in Memory /\ mem.todo = proc[p].todo /\ mem.about = proc[p].about
      /\ mem.minted = proc[p].minted
  BY <1>2, <1>3 DEF Memory, Photo
<1> HIDE DEF mem
<1>5. "forget" \notin AfterMint
  BY DEF AfterMint
<1> QED BY <1>1, <1>4, <1>5, QuietKeeps

LEMMA MintKeeps ==
    ASSUME CommandsKeepTheirTokens, TokensInv', NEW p \in Process, NEW t \in Token,
           TakeCard(p, t) \/ AcceptCard(p, t)
    PROVE  CommandsKeepTheirTokens'
<1> DEFINE mem == [proc[p] EXCEPT !.minted = t]
<1>1. PICK step \in {"take", "accept"} :
          Take(p, step) /\ Then(p, mem) /\ (step = "accept" => About(p) \in DOMAIN card)
  BY DEF TakeCard, AcceptCard, MayAccept, IsUp
<1>2. /\ proc[p] \in Memory /\ proc[p].todo # <<>> /\ Head(proc[p].todo) = step
      /\ KeepsItsToken(proc[p]) /\ About(p) \in Card /\ About(p) = proc[p].about
  BY <1>1, InKeeping DEF About
<1>3. mem \in Memory /\ mem.todo = proc[p].todo /\ mem.about = proc[p].about
  BY <1>2 DEF Memory
<1> HIDE DEF mem
<1>4. KeepsItsToken(After(mem))
  BY <1>1, <1>2, <1>3, AfterKeeps DEF KeepsItsToken
<1> QED BY <1>1, <1>4, OneKeeps DEF Then

\* The note about a card that was swept goes before what p had to do.
LEMMA SweepCardKeeps ==
    ASSUME CommandsKeepTheirTokens, TokensInv', NEW p \in Process, NEW c, SweepCard(p, c)
    PROVE  CommandsKeepTheirTokens'
<1> DEFINE todo == proc[p].todo
           new  == PinSteps \o todo
           mem  == [proc[p] EXCEPT !.todo = new]
<1>1. proc \in [Process -> Memory]
  BY InvParts DEF CommandsKeepTheirTokens
<1>2. Take(p, "sweep") /\ proc' = [proc EXCEPT ![p] = mem]
  BY <1>1 DEF SweepCard
<1>3. proc[p] \in Memory /\ KeepsItsToken(proc[p]) /\ proc[p].minted = None
  <2>1. "sweep" \notin AfterMint
    BY DEF AfterMint
  <2> QED BY <1>2, <2>1, InKeeping
<1>4. PinSteps \in Seq(Step) /\ Len(PinSteps) = 2 /\ todo \in Seq(Step) /\ Len(todo) \in Nat
  <2>1. PinSteps \in Seq(Step) /\ Len(PinSteps) = 2
    BY DEF PinSteps, Step
  <2>2. todo \in Seq(Step)
    BY <1>3 DEF Memory
  <2> QED BY <2>1, <2>2, LenProperties
<1>5. /\ new \in Seq(Step) /\ Len(new) = Len(PinSteps) + Len(todo)
      /\ \A i \in 1..Len(new) :
            new[i] = IF i <= Len(PinSteps) THEN PinSteps[i] ELSE todo[i - Len(PinSteps)]
  <2> HIDE DEF todo
  <2>1. new \in Seq(Step) /\ Len(new) = Len(PinSteps) + Len(todo)
    BY <1>4, ConcatProperties, Zenon
  <2>2. \A i \in 1..Len(PinSteps) + Len(todo) :
            new[i] = IF i <= Len(PinSteps) THEN PinSteps[i] ELSE todo[i - Len(PinSteps)]
    BY <1>4, ConcatProperties, Zenon
  <2> QED BY <2>1, <2>2
<1>6. mem \in Memory /\ mem.todo = new /\ mem.minted = None
  BY <1>3, <1>5 DEF Memory
<1> HIDE DEF mem, new, todo
<1>7. ASSUME NEW i \in 1..Len(new), i > 2 PROVE i - 2 \in 1..Len(todo) /\ new[i] = todo[i - 2]
  <2>1. i - 2 \in 1..Len(todo) /\ ~(i <= 2)
    BY <1>4, <1>5, <1>7
  <2> QED BY <1>4, <1>5, <2>1
<1>8. ASSUME NEW i \in 1..Len(todo) PROVE i + 2 \in 1..Len(new) /\ new[i + 2] = todo[i]
  <2>1. i + 2 \in 1..Len(new) /\ i + 2 > 2 /\ (i + 2) - 2 = i
    BY <1>4, <1>5
  <2> QED BY <1>7, <2>1
<1>9. ASSUME NEW i \in 1..Len(new), new[i] \in {"take", "accept"} PROVE i > 2
  <2>1. CASE i <= 2
    <3>1. i = 1 \/ i = 2
      BY <1>4, <1>5, <2>1
    <3>2. PinSteps[1] = "number" /\ PinSteps[2] = "pin"
      BY DEF PinSteps
    <3> QED BY <1>4, <1>5, <1>9, <3>1, <3>2
  <2>2. CASE ~(i <= 2)
    BY <1>4, <1>5, <2>2
  <2> QED BY <2>1, <2>2
<1>10. MintsInOrder(new)
  <2> SUFFICES ASSUME NEW i \in 1..Len(new), new[i] \in {"take", "accept"}
               PROVE  /\ \A j \in 1..Len(new) : i < j => new[j] \in AfterMint
                      /\ \E j \in 1..Len(new) : i < j /\ new[j] = "keep"
    BY DEF MintsInOrder
  <2>1. i > 2 /\ i - 2 \in 1..Len(todo) /\ todo[i - 2] \in {"take", "accept"}
    BY <1>7, <1>9
  <2>2. /\ \A j \in 1..Len(todo) : i - 2 < j => todo[j] \in AfterMint
        /\ \E j \in 1..Len(todo) : i - 2 < j /\ todo[j] = "keep"
    BY <1>3, <2>1 DEF KeepsItsToken, MintsInOrder, todo
  <2>3. ASSUME NEW j \in 1..Len(new), i < j PROVE new[j] \in AfterMint
    <3>1. j > 2 /\ i - 2 < j - 2
      BY <1>4, <1>5, <2>1, <2>3
    <3> QED BY <1>7, <2>2, <3>1
  <2>4. PICK j \in 1..Len(todo) : i - 2 < j /\ todo[j] = "keep"
    BY <2>2
  <2>5. i < j + 2
    BY <1>4, <1>5, <2>4
  <2> QED BY <1>8, <2>3, <2>4, <2>5
<1>11. KeepsItsToken(mem)
  BY <1>6, <1>10 DEF KeepsItsToken
<1> QED BY <1>2, <1>11, OneKeeps

LEMMA EndKeeps ==
    ASSUME CommandsKeepTheirTokens, TokensInv', NEW p \in Process, Refuse(p) \/ Crash(p)
    PROVE  CommandsKeepTheirTokens'
<1>1. CASE Crash(p)
  BY <1>1, IdleKeeps, OneKeeps DEF Crash
<1>2. CASE Refuse(p)
  <2> DEFINE mem == [proc[p] EXCEPT !.todo = <<"unlock">>]
  <2>1. PICK step \in {"offer", "accept", "down"} : Take(p, step)
    BY <1>2 DEF Refuse, MayRefuse
  <2>2. proc[p] \in Memory /\ proc[p].minted = None
    BY <2>1, InKeeping DEF AfterMint
  <2>3. proc \in [Process -> Memory]
    BY InvParts DEF CommandsKeepTheirTokens
  <2>4. proc' = [proc EXCEPT ![p] = mem] /\ mem.todo = <<"unlock">> /\ mem.minted = None
    BY <1>2, <2>2, <2>3 DEF Refuse, Memory
  <2> HIDE DEF mem
  <2>5. KeepsItsToken(mem)
    BY <2>4, ProgramsMintInOrder DEF KeepsItsToken
  <2> QED BY <2>4, <2>5, OneKeeps
<1> QED BY <1>1, <1>2

LEMMA BeginKeeps ==
    ASSUME CommandsKeepTheirTokens, TokensInv', NEW p \in Process,
           \/ PlainCommand(p)
           \/ \E c \in Card : Claim(p, c) \/ OnCard(p, c)
           \/ \E s \in Session : Join(p, s)
    PROVE  CommandsKeepTheirTokens'
<1>1. PICK steps \in {PinSteps, JoinSteps, ClaimSteps, DenySteps, ReleaseSteps, ReapSteps,
                      OfferSteps, AcceptSteps, DeclineSteps} :
          \E s, r, c : Begin(p, s, r, c, steps)
  <2>1. CASE PlainCommand(p)
    BY <2>1 DEF PlainCommand, Command
  <2>2. ASSUME NEW c \in Card, Claim(p, c)
        PROVE  \E s, r : Begin(p, s, r, c, ClaimSteps)
    BY <2>2 DEF Claim, Command
  <2>3. ASSUME NEW c \in Card, OnCard(p, c)
        PROVE  \E steps \in {ReleaseSteps, OfferSteps, AcceptSteps, DeclineSteps} :
                  \E s, r : Begin(p, s, r, c, steps)
    BY <2>3 DEF OnCard, Command
  <2>4. ASSUME NEW s \in Session, Join(p, s)
        PROVE  Begin(p, s, Blank, None, JoinSteps)
    BY <2>4 DEF Join
  <2> QED BY <2>1, <2>2, <2>3, <2>4
<1>5. PICK s, r, c : Begin(p, s, r, c, steps)
  BY <1>1
<1> DEFINE mem == [Idle EXCEPT !.todo = steps, !.photo = WithId(s, r), !.about = c]
<1>2. proc' = [proc EXCEPT ![p] = mem]
  BY <1>5 DEF Begin
<1>3. mem.todo = steps /\ mem.minted = None
  BY DEF Idle
<1> HIDE DEF mem
<1>4. KeepsItsToken(mem)
  BY <1>3, ProgramsMintInOrder DEF KeepsItsToken
<1> QED BY <1>2, <1>4, OneKeeps

LEMMA NextKeeps == CommandsKeepTheirTokens /\ [Next]_vars => CommandsKeepTheirTokens'
<1> SUFFICES ASSUME CommandsKeepTheirTokens, [Next]_vars PROVE CommandsKeepTheirTokens'
  OBVIOUS
<1>1. TokensInv'
  BY NextSound DEF CommandsKeepTheirTokens
<1>2. CASE UNCHANGED vars
  BY <1>1, <1>2 DEF vars, CommandsKeepTheirTokens
<1>3. CASE Next
  <2> PICK p \in Process :
        \/ \E s \in Session : Join(p, s)
        \/ PlainCommand(p)
        \/ \E c \in Card : Claim(p, c) \/ OnCard(p, c) \/ SweepCard(p, c)
        \/ WriteActor(p) \/ ReadPrior(p) \/ WriteJoined(p)
        \/ Lock(p) \/ Unlock(p)
        \/ \E t \in Token : TakeCard(p, t) \/ AcceptCard(p, t)
        \/ \E a \in Actor : OfferCard(p, a)
        \/ SweepEnds(p) \/ DeclineCard(p)
        \/ Reread(p) \/ TakeDown(p) \/ Refuse(p)
        \/ Fetch(p) \/ KeepToken(p) \/ ForgetToken(p)
        \/ Number(p) \/ PinNote(p) \/ Crash(p)
    BY <1>3 DEF Next
  <2>1. CASE \/ PlainCommand(p) \/ \E c \in Card : Claim(p, c) \/ OnCard(p, c)
             \/ \E s \in Session : Join(p, s)
    BY <1>1, <2>1, BeginKeeps
  <2>2. CASE \E c \in Card : SweepCard(p, c)
    BY <1>1, <2>2, SweepCardKeeps
  <2>3. CASE \/ WriteActor(p) \/ WriteJoined(p) \/ Lock(p) \/ Unlock(p) \/ SweepEnds(p)
             \/ TakeDown(p) \/ DeclineCard(p) \/ PinNote(p)
             \/ \E a \in Actor : OfferCard(p, a)
    BY <1>1, <2>3, QuietStepsKeep
  <2>4. CASE ReadPrior(p) \/ Reread(p) \/ Fetch(p) \/ Number(p)
    BY <1>1, <2>4, CopyStepsKeep
  <2>5. CASE KeepToken(p) \/ ForgetToken(p)
    BY <1>1, <2>5, KeepTokenKeeps, ForgetTokenKeeps
  <2>6. CASE \E t \in Token : TakeCard(p, t) \/ AcceptCard(p, t)
    BY <1>1, <2>6, MintKeeps
  <2>7. CASE Refuse(p) \/ Crash(p)
    BY <1>1, <2>7, EndKeeps
  <2> QED BY <2>1, <2>2, <2>3, <2>4, <2>5, <2>6, <2>7
<1> QED BY <1>2, <1>3

LEMMA InitKeeps == Init => CommandsKeepTheirTokens
<1> SUFFICES ASSUME Init PROVE CommandsKeepTheirTokens
  OBVIOUS
<1>1. \A p \in Process : proc[p] = Idle
  BY DEF Init
<1> QED BY <1>1, InitSound, IdleKeeps DEF CommandsKeepTheirTokens

\* Who writes a record, and what p does not do once its own token is on disk.
LEMMA OwnTokenStays ==
    ASSUME CommandsKeepTheirTokens, Next, NEW p \in Process, Recorded(p), proc'[p] # proc[p],
           record' # record
    PROVE  record'[Mine(p)].tokens[About(p)] = proc[p].minted
<1>1. PICK q \in Process : WriteJoined(q) \/ KeepToken(q) \/ ForgetToken(q) \/ Number(q)
  BY ZenonT(40) DEF Next, Join, PlainCommand, Command, Begin, Claim, OnCard, SweepCard, Archive,
         WriteActor, ReadPrior, Lock, Unlock, TakeCard, AcceptCard, OfferCard, SweepEnds,
         DeclineCard, Reread, TakeDown, Refuse, Fetch, PinNote, Crash
<1>2. q = p
  <2>1. \E mem : proc' = [proc EXCEPT ![q] = mem]
    BY <1>1 DEF WriteJoined, KeepToken, ForgetToken, Number, Mutate, Done, Then
  <2>2. proc \in [Process -> Memory]
    BY InvParts DEF CommandsKeepTheirTokens
  <2> QED BY <2>1, <2>2
<1>3. PICK step \in {"session", "keep", "forget", "number"} :
          Take(p, step) /\ (step = "number" => Number(p))
  BY <1>1, <1>2 DEF WriteJoined, KeepToken, ForgetToken, Number
<1>4. /\ proc[p] \in Memory /\ proc[p].todo # <<>> /\ Head(proc[p].todo) = step
      /\ KeepsItsToken(proc[p]) /\ (step \notin AfterMint => proc[p].minted = None)
  BY <1>3, InKeeping
<1>5. proc[p].minted # None /\ ~Has(proc[p].todo, {"keep"}) /\ InCopy(proc[p])
  BY <1>4 DEF Recorded, KeepsItsToken
<1>6. step # "keep"
  <2>1. proc[p].todo \in Seq(Step)
    BY <1>4 DEF Memory
  <2>2. 1 \in 1..Len(proc[p].todo) /\ proc[p].todo[1] = step
    BY <1>4, <2>1, EmptySeq, LenProperties
  <2> QED BY <1>5, <2>2 DEF Has
<1>7. Number(p)
  BY <1>3, <1>4, <1>5, <1>6 DEF AfterMint
<1>8. record'[Mine(p)].tokens = proc[p].photo.tokens
  <2>1. proc[p].photo \in Photo
    BY <1>4 DEF Memory
  <2> DEFINE next == [proc[p].photo EXCEPT !.seq = @ + 1]
  <2>2. next.tokens = proc[p].photo.tokens
    BY <2>1 DEF Photo
  <2>3. record' = Put(record, Mine(p), [seq |-> next.seq, tokens |-> next.tokens])
    BY <1>7 DEF Number, WriteSession
  <2> DEFINE rec == [seq |-> next.seq, tokens |-> next.tokens]
  <2>4. rec.tokens = next.tokens /\ record' = Put(record, Mine(p), rec)
    BY <2>3
  <2> HIDE DEF next, rec
  <2>5. record'[Mine(p)] = rec
    BY <2>4 DEF Put
  <2> QED BY <2>2, <2>4, <2>5
<1> QED BY <1>5, <1>8 DEF InCopy, About

\* A command never takes back the token that it has written itself, whatever other
\* processes of its session write in between (cmdClaim, cmdAccept, MutateSession, Pin).
THEOREM OwnTokensAreKept == Spec => OwnTokensStay
<1>1. Spec => []CommandsKeepTheirTokens
  BY InitKeeps, NextKeeps, PTL DEF Spec
<1>2. CommandsKeepTheirTokens /\ [Next]_vars =>
        [\A p \in Process :
            Recorded(p) /\ proc'[p] # proc[p] /\ record' # record
               => record'[Mine(p)].tokens[About(p)] = proc[p].minted]_vars
  BY OwnTokenStays
<1> QED BY <1>1, <1>2, PTL DEF Spec, OwnTokensStay

=============================================================================
