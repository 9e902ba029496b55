------------------------------ MODULE Sessions ------------------------------
(* Actors, their sessions and the notes they pin: .fridge/actors, sessions and     *)
(* notes (internal/store), with the commands that write them (internal/commands).  *)
(* A session record holds the secret token of each card the session took, and the  *)
(* number of the last note it pinned. Only some of its writes are made inside the  *)
(* registry mutex, and a command works on a copy of the record that it read when   *)
(* it started, so each read and each write is a step here. A process runs one      *)
(* command at a time: the steps that are left of it. Of a card only the owner, the *)
(* token hash and the offer matter; Claims models the rest.                        *)
EXTENDS Naturals, Sequences, SequencesExt

CONSTANTS Actor, Process, Session, Card, Token, None,
          ActorOf,   \* who runs a process
          MaxNotes,  \* how many notes one session pins, lost numbers included
          Faults     \* what may go wrong: {"crash"} or nothing

ASSUME ActorAssumption  == ActorOf \in [Process -> Actor]
ASSUME NoneAssumption   == None \notin Actor \cup Process \cup Session \cup Card \cup Token
ASSUME FaultsAssumption == Faults \subseteq {"crash"}

VARIABLES
    current,  \* actors/: the currentSessionId of each actor, None without one
    record,   \* sessions/: the session records
    card,     \* claims/: the cards that are up
    wall,     \* notes/: the numbers of the notes of each session, as they were pinned
    mutex,    \* the process that holds the registry mutex
    proc,     \* what each process has in memory
    used      \* every random id that was ever drawn, and for which session

vars == <<current, record, card, wall, mutex, proc, used>>

\* Of a process: the steps that are left of its command; its session, as it has it; the
\* record that MutateSession read; the card it is about; the token it has drawn.
Tokens  == [Card -> Token \cup {None}]
Record  == [seq: Nat, tokens: Tokens]
Photo   == [id: Session \cup {None}, seq: Nat, tokens: Tokens]
CardRec == [owner: Session, token: Token, to: Actor \cup {None}]
Step    == {"actor", "prior", "session", "lock", "sweep", "take", "offer", "accept", "decline",
            "reread", "down", "fetch", "keep", "forget", "number", "pin", "unlock"}
Memory  == [todo: Seq(Step), photo: Photo, fresh: Record,
            about: Card \cup {None}, minted: Token \cup {None}]

TypeOK ==
    /\ current \in [Actor -> Session \cup {None}]
    /\ DOMAIN record \subseteq Session /\ record \in [DOMAIN record -> Record]
    /\ DOMAIN card \subseteq Card /\ card \in [DOMAIN card -> CardRec]
    /\ wall \in [Session -> Seq(Nat)]
    /\ mutex \in Process \cup {None}
    /\ proc \in [Process -> Memory]
    /\ DOMAIN used \subseteq Session \cup Card \cup Token /\ used \in [DOMAIN used -> Session]

NoTokens == [c \in Card |-> None]
Blank == [seq |-> 0, tokens |-> NoTokens]
WithId(s, r) == [id |-> s, seq |-> r.seq, tokens |-> r.tokens]
Idle == [todo |-> <<>>, photo |-> WithId(None, Blank), fresh |-> Blank,
             about |-> None, minted |-> None]

Init ==
    /\ current = [a \in Actor |-> None]
    /\ record = [s \in {} |-> Blank] /\ card = [c \in {} |-> Blank]
    /\ wall = [s \in Session |-> <<>>]
    /\ mutex = None
    /\ proc = [p \in Process |-> Idle]
    /\ used = [x \in {} |-> None]

Put(dir, x, rec) == [y \in DOMAIN dir \cup {x} |-> IF y = x THEN rec ELSE dir[y]]
Unused(x) == x \notin DOMAIN used

OnDisk(s) == IF s \in DOMAIN record THEN record[s] ELSE Blank
Mine(p) == proc[p].photo.id
About(p) == proc[p].about
IsUp(p) == About(p) \in DOMAIN card

-----------------------------------------------------------------------------
(* Commands: what they read first, and the steps they then take. *)

\* Mutant of ClaimSteps: the note is pinned between the two halves of MutateSession.
ClaimStepsPinFirst == <<"lock", "sweep", "take", "fetch", "number", "pin", "keep", "unlock">>

PinSteps == <<"number", "pin">>
JoinSteps == <<"actor", "prior", "session", "number", "pin">>
ClaimSteps == <<"lock", "sweep", "take", "fetch", "keep", "number", "pin", "unlock">>
DenySteps == <<"lock", "sweep", "unlock", "number", "pin">>
ReleaseSteps == <<"lock", "reread", "down", "number", "pin", "fetch", "forget", "unlock">>
ReapSteps == <<"lock", "sweep", "unlock">>
OfferSteps == <<"lock", "offer", "unlock", "number", "pin">>
AcceptSteps == <<"lock", "accept", "fetch", "keep", "unlock", "number", "pin">>
DeclineSteps == <<"lock", "decline", "unlock", "number", "pin">>

\* (Bounds the numbers.)
MayPin(s) == OnDisk(s).seq < MaxNotes /\ Len(wall[s]) < MaxNotes

Begin(p, s, r, c, steps) ==
    /\ proc[p].todo = <<>> /\ MayPin(s)
    /\ proc' = [proc EXCEPT ![p] = [Idle EXCEPT !.todo = steps, !.photo = WithId(s, r), !.about = c]]
    /\ UNCHANGED <<current, record, card, wall, mutex>>

\* RequireActorMutating: the session is read here, and nowhere else by most commands.
Command(p, c, steps) ==
    LET s == current[ActorOf[p]]
    IN s \in DOMAIN record /\ Begin(p, s, record[s], c, steps)

\* A command that is about no card: pin, reap, and a claim that is denied or queued.
PlainCommand(p) ==
    /\ UNCHANGED used
    /\ \E steps \in {PinSteps, ReapSteps, DenySteps} : Command(p, None, steps)

\* claim, on a card of a new id.
Claim(p, c) ==
    /\ Unused(c) /\ Command(p, c, ClaimSteps)
    /\ used' = Put(used, c, current[ActorOf[p]])

\* release and the handoff commands name a card that was up at some time.
OnCard(p, c) ==
    /\ ~Unused(c) /\ UNCHANGED used
    /\ \E steps \in {ReleaseSteps, OfferSteps, AcceptSteps, DeclineSteps} : Command(p, c, steps)

\* Mutant of SessionFor: a second join starts over.
SessionForNew(a, s) == Unused(s)

\* JoinActor goes on with the session of the actor, if there is a record of it.
SessionFor(a, s) ==
    IF current[a] \in DOMAIN record THEN s = current[a] ELSE Unused(s)

Join(p, s) ==
    /\ SessionFor(ActorOf[p], s) /\ Begin(p, s, Blank, None, JoinSteps)
    /\ used' = IF Unused(s) THEN Put(used, s, s) ELSE used

-----------------------------------------------------------------------------
(* The steps. *)

\* The next step of p, after which it has mem in memory: nothing, when it is the last.
Take(p, step) == proc[p].todo # <<>> /\ Head(proc[p].todo) = step
After(mem) == IF Len(mem.todo) = 1 THEN Idle ELSE [mem EXCEPT !.todo = Tail(@)]
Then(p, mem) == proc' = [proc EXCEPT ![p] = After(mem)]
Done(p) == Then(p, proc[p])

WriteActor(p) ==
    /\ Take(p, "actor") /\ Done(p)
    /\ current' = [current EXCEPT ![ActorOf[p]] = Mine(p)]
    /\ UNCHANGED <<record, card, wall, mutex, used>>

\* Mutant of Prior: the session record is written without the tokens of the last one.
PriorWithoutTokens(s) == [seq |-> OnDisk(s).seq, tokens |-> NoTokens]

\* What a join carries over from the record that is there.
Prior(s) == OnDisk(s)

ReadPrior(p) ==
    /\ Take(p, "prior") /\ Then(p, [proc[p] EXCEPT !.photo = WithId(Mine(p), Prior(Mine(p)))])
    /\ UNCHANGED <<current, record, card, wall, mutex, used>>

WriteSession(p, r) ==
    /\ record' = Put(record, Mine(p), [seq |-> r.seq, tokens |-> r.tokens])
    /\ UNCHANGED <<current, card, wall, mutex, used>>

WriteJoined(p) == Take(p, "session") /\ Done(p) /\ WriteSession(p, proc[p].photo)

Lock(p) ==
    /\ Take(p, "lock") /\ Done(p) /\ mutex = None
    /\ mutex' = p
    /\ UNCHANGED <<current, record, card, wall, used>>

Unlock(p) ==
    /\ Take(p, "unlock") /\ Done(p)
    /\ mutex' = None
    /\ UNCHANGED <<current, record, card, wall, used>>

\* claim: RandomToken, SaveClaim.
TakeCard(p, t) ==
    /\ Take(p, "take") /\ Unused(t)
    /\ Then(p, [proc[p] EXCEPT !.minted = t])
    /\ card' = Put(card, About(p), [owner |-> Mine(p), token |-> t, to |-> None])
    /\ used' = Put(used, t, Mine(p))
    /\ UNCHANGED <<current, record, wall, mutex>>

\* release asks who the card belongs to, by its session or by the token.
Owns(s, tokens, c) == card[c].owner = s \/ tokens[c] = card[c].token

\* What the mutex shows to be right: the card is up, and it is p's to offer, to accept, or
\* to take down. With --force it need not be p's to offer, or to take down.
MayOffer(p)  == IsUp(p) /\ card[About(p)].owner = Mine(p)
MayAccept(p) == IsUp(p) /\ card[About(p)].to = ActorOf[p]
MayRefuse(p) ==
    \/ Take(p, "offer") /\ ~MayOffer(p)
    \/ Take(p, "accept") /\ ~MayAccept(p)
    \/ Take(p, "down") /\ (IsUp(p) => ~Owns(Mine(p), proc[p].photo.tokens, About(p)))

OfferCard(p, a) ==
    /\ Take(p, "offer") /\ Done(p) /\ IsUp(p)
    /\ card' = [card EXCEPT ![About(p)].to = a]
    /\ UNCHANGED <<current, record, wall, mutex, used>>

\* Mutant of Accepted: the token hash of the old owner stays on the card.
AcceptedSameToken(rec, s, t) == [rec EXCEPT !.owner = s, !.to = None]

Accepted(rec, s, t) == [rec EXCEPT !.owner = s, !.token = t, !.to = None]

AcceptCard(p, t) ==
    /\ Take(p, "accept") /\ MayAccept(p) /\ Unused(t)
    /\ Then(p, [proc[p] EXCEPT !.minted = t])
    /\ card' = [card EXCEPT ![About(p)] = Accepted(@, Mine(p), t)]
    /\ used' = Put(used, t, Mine(p))
    /\ UNCHANGED <<current, record, wall, mutex>>

\* decline: the offer is withdrawn, if there still is one.
DeclineCard(p) ==
    /\ Take(p, "decline") /\ Done(p)
    /\ card' = IF MayAccept(p) THEN [card EXCEPT ![About(p)].to = None] ELSE card
    /\ UNCHANGED <<current, record, wall, mutex, used>>

\* release: from here on it works on the record of now.
Reread(p) ==
    /\ Take(p, "reread") /\ Then(p, [proc[p] EXCEPT !.photo = WithId(Mine(p), OnDisk(Mine(p)))])
    /\ UNCHANGED <<current, record, card, wall, mutex, used>>

\* ArchiveClaim.
Archive(c) ==
    /\ card' = [x \in DOMAIN card \ {c} |-> card[x]]
    /\ UNCHANGED <<current, record, wall, mutex, used>>

TakeDown(p) == Take(p, "down") /\ Done(p) /\ IsUp(p) /\ Archive(About(p))

\* ReapStale, in claim and reap: whatever it finds stale goes, each with a note, whoever
\* it belongs to. (When a lease is over is for Claims to say.)
SweepCard(p, c) ==
    /\ Take(p, "sweep") /\ c \in DOMAIN card /\ Archive(c)
    /\ proc' = [proc EXCEPT ![p].todo = PinSteps \o @]

SweepEnds(p) ==
    /\ Take(p, "sweep") /\ Done(p)
    /\ UNCHANGED <<current, record, card, wall, mutex, used>>

\* The command ends here, with an error and without a note.
Refuse(p) ==
    /\ MayRefuse(p)
    /\ proc' = [proc EXCEPT ![p].todo = <<"unlock">>]
    /\ UNCHANGED <<current, record, card, wall, mutex, used>>

\* MutateSession: read the record of now ...
Fetch(p) ==
    /\ Take(p, "fetch") /\ Then(p, [proc[p] EXCEPT !.fresh = OnDisk(Mine(p))])
    /\ UNCHANGED <<current, record, card, wall, mutex, used>>

\* Mutant of Mutate: the copy in memory is left as it is.
MutateDiskOnly(p, t) ==
    LET rec == [proc[p].fresh EXCEPT !.tokens[About(p)] = t]
    IN WriteSession(p, rec) /\ Done(p)

\* ... and write it back with one token changed, which the copy in memory gets too.
Mutate(p, t) ==
    LET rec == [proc[p].fresh EXCEPT !.tokens[About(p)] = t]
    IN WriteSession(p, rec) /\ Then(p, [proc[p] EXCEPT !.photo.tokens = rec.tokens])

KeepToken(p)   == Take(p, "keep") /\ Mutate(p, proc[p].minted)
ForgetToken(p) == Take(p, "forget") /\ Mutate(p, None)

\* Pin: the next number, by the copy in memory, which is written as it is; then the
\* note, in a file of its own.
Number(p) ==
    LET next == [proc[p].photo EXCEPT !.seq = @ + 1]
    IN Take(p, "number") /\ Then(p, [proc[p] EXCEPT !.photo = next]) /\ WriteSession(p, next)

PinNote(p) ==
    /\ Take(p, "pin") /\ Done(p)
    /\ wall' = [wall EXCEPT ![Mine(p)] = Append(@, proc[p].photo.seq)]
    /\ UNCHANGED <<current, record, card, mutex, used>>

\* The process dies. What it held of the mutex is broken by the next one.
Crash(p) ==
    /\ "crash" \in Faults /\ proc[p].todo # <<>>
    /\ proc' = [proc EXCEPT ![p] = Idle]
    /\ mutex' = IF mutex = p THEN None ELSE mutex
    /\ UNCHANGED <<current, record, card, wall, used>>

Next ==
    \E p \in Process :
        \/ \E s \in Session : Join(p, s)
        \/ PlainCommand(p)
        \/ \E c \in Card : Claim(p, c) \/ OnCard(p, c) \/ SweepCard(p, c)
        \/ WriteActor(p) \/ ReadPrior(p) \/ WriteJoined(p)
        \/ Lock(p) \/ Unlock(p)
        \/ \E t \in Token : TakeCard(p, t) \/ AcceptCard(p, t)
        \/ \E a \in Actor : OfferCard(p, a)
        \/ SweepEnds(p) \/ DeclineCard(p)
        \/ Reread(p) \/ TakeDown(p) \/ Refuse(p)
        \/ Fetch(p) \/ KeepToken(p) \/ ForgetToken(p)
        \/ Number(p) \/ PinNote(p) \/ Crash(p)

Spec == Init /\ [][Next]_vars

-----------------------------------------------------------------------------
(* Properties. *)

\* By the ids drawn, u: tokens that the session s drew itself.
DrawnBy(u, s, tokens) ==
    \A c \in Card : tokens[c] # None => tokens[c] \in DOMAIN u /\ u[tokens[c]] = s

Sound(u, mem) ==
    /\ DrawnBy(u, mem.photo.id, mem.photo.tokens)
    /\ DrawnBy(u, mem.photo.id, mem.fresh.tokens)
    /\ mem.minted # None => mem.minted \in DOMAIN u /\ u[mem.minted] = mem.photo.id
    /\ mem.todo # <<>> => mem.photo.id \in Session
    /\ (\E i \in 1..Len(mem.todo) : mem.todo[i] = "take") => mem.about \in Card

\* Why a copy of a record does no harm however late it is written: wherever a token is
\* kept, on disk or in memory, it is one that the session of that record drew, and the
\* token hash of a card is that of a token its present owner drew.
TokensInv ==
    /\ TypeOK
    /\ \A c \in DOMAIN card : card[c].token \in DOMAIN used /\ used[card[c].token] = card[c].owner
    /\ \A s \in DOMAIN record : DrawnBy(used, s, record[s].tokens)
    /\ \A p \in Process : Sound(used, proc[p])

\* Whoever passes release's test of ownership is the session on the card: a card that
\* was handed over cannot be taken down by its old owner, whose token is still in its
\* record, nor by a copy of a session that an earlier command left in memory, whatever
\* the processes of a session overwrite of one another (cmdAccept, cmdRelease).
OnlyTheHolderOwns ==
    \A c \in DOMAIN card :
        /\ \A s \in DOMAIN record : Owns(s, record[s].tokens, c) => s = card[c].owner
        /\ \A p \in Process : Owns(Mine(p), proc[p].photo.tokens, c) => Mine(p) = card[c].owner

\* What the order of a command's steps guarantees: a note is pinned right after its number,
\* a token is written right after the record it goes into was read, a join goes from the
\* actor to the prior record to the session.
Follows(x, y) ==
    /\ y = "pin" => x = "number"
    /\ y \in {"keep", "forget"} => x = "fetch"
    /\ y # "actor"
    /\ x = "actor" => y = "prior"
    /\ x = "prior" => y = "session"

Ordered(todo) == \A i, j \in 1..Len(todo) : j = i + 1 => Follows(todo[i], todo[j])

\* A process that is in a command, and alone with its session: what it has of the record
\* is what is on disk, once it has read it.
Alone(p) ==
    LET s == Mine(p)
        next == Head(proc[p].todo)
    IN /\ s \in DOMAIN used /\ Ordered(proc[p].todo)
       /\ \A b \in Actor : b # ActorOf[p] => current[b] # s
       /\ \A q \in Process : q # p /\ proc[q].todo # <<>> => Mine(q) # s
       /\ current[ActorOf[p]] = s \/ (next = "actor" /\ current[ActorOf[p]] \notin DOMAIN record)
       /\ next \notin {"actor", "prior", "session"} => s \in DOMAIN record
       /\ next \notin {"actor", "prior"} => proc[p].photo = WithId(s, OnDisk(s))
       /\ next \in {"keep", "forget"} => proc[p].fresh = OnDisk(s)
       /\ next = "pin" => \A i \in 1..Len(wall[s]) : wall[s][i] < proc[p].photo.seq

\* "seq is a per-session monotonic counter" (protocol 3.4): no two notes of a session
\* have one number, and later ones have later numbers, crashes between the number and
\* the note included (Pin, MutateSession, JoinActor).
NotesCountUp ==
    \A s \in Session : \A i, j \in 1..Len(wall[s]) : i < j => wall[s][i] < wall[s][j]

\* Whoever joins again, after whatever crash, is the owner of the cards it left on the
\* door: none is up for a session that no actor goes on with (JoinActor).
NobodyLosesTheirCards ==
    \A c \in DOMAIN card : \E a \in Actor : current[a] = card[c].owner

\* Is one of the steps left in todo?
Has(todo, steps) == \E i \in 1..Len(todo) : todo[i] \in steps

\* Has p drawn a token in this command, and written it into the record of its session?
Recorded(p) == proc[p].minted # None /\ ~Has(proc[p].todo, {"keep"})

\* No command takes its own token back: the note that claim and accept pin at the end is
\* written with the record that they have in memory, and the token that MutateSession
\* put on disk before is in that copy too, whatever other processes of the session wrote
\* meanwhile (cmdClaim, cmdAccept; the last lines of MutateSession).
OwnTokensStay ==
    [][\A p \in Process :
          Recorded(p) /\ proc'[p] # proc[p] /\ record' # record
             => record'[Mine(p)].tokens[About(p)] = proc[p].minted]_vars

\* "writing it back afterwards silently reverts anything another process in the same
\* session recorded meanwhile. Callers mutate the fresh copy this hands them" (store.go):
\* the token of a card that a session holds never leaves the record of the session while
\* the card is up. It does, where a session has two processes: Pin writes the copy that
\* its command read at the start.
TokensNotReverted ==
    [][\A s \in DOMAIN record : \A c \in DOMAIN card \cap DOMAIN card' :
          (card[c].owner = s /\ card'[c].owner = s /\ record[s].tokens[c] = card[c].token)
             => record'[s].tokens[c] = card[c].token]_vars

\* Why NotesCountUp and NobodyLosesTheirCards hold as long as no session has two
\* processes at once: every session with a record is the one its actor goes on with, and
\* no other actor's; the owner of a card has a record; no note has a number that its
\* session's record has not reached.
AloneInv ==
    /\ TokensInv /\ NotesCountUp
    /\ \A a, b \in Actor : current[a] # None /\ current[a] = current[b] => a = b
    /\ \A a \in Actor : current[a] # None => current[a] \in DOMAIN used
    /\ \A s \in DOMAIN record : \E a \in Actor : current[a] = s
    /\ \A c \in DOMAIN card : card[c].owner \in DOMAIN record
    /\ \A s \in Session : \A i \in 1..Len(wall[s]) : wall[s][i] <= OnDisk(s).seq
    /\ \A p \in Process : proc[p].todo # <<>> => Alone(p)

=============================================================================
