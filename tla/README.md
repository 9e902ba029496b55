# Agent Fridge in TLA+

Agent Fridge keeps AI coding agents from overwriting each other's work. There is
no daemon: every command is a short-lived process, and all they share is a tree of
small JSON files under `.fridge/`. An agent *claims* path patterns by putting a
card on the door; the others see the card and keep off. These modules model the
Go implementation (`src/internal`), check it with TLC and prove part of it with
TLAPS.

## The system

| component | state | operations | interacts with |
|---|---|---|---|
| registry mutex (`mutex/mutex.go`) | `locks/registry.lock.d` with `owner.json`, and `registry.lock.d.break` | acquire, stamp, verify, refresh, release, break, doctor's recovery | every command that writes runs inside it |
| cards and leases (`commands/claims.go`, `store/store.go`) | `claims/`, `leases/`, `archive/claims/` | claim, heartbeat, extend, release, reap, run, renewal on any command | mutex, scopes, sessions, notes, waiting list, views |
| handoff offers (`commands/coord.go`) | `inbox/<actor>/`, `archive/messages/` | handoff, accept, decline, inbox | the fields `state`, `offeredTo`, `offeredMessageId` of a card |
| scopes (`paths/`) | none | normalise, materialise, overlap, cover | called by claim, check, guard |
| waiting list | `queue/` | wait, claim --queue, cleared with a card | cards |
| actors and sessions | `actors/`, `sessions/` (tokens, sequence number) | join, `MutateSession`, `Pin` | every command; only some of their writes are inside the mutex |
| notes wall | `notes/Y/M/D/` | `Pin`, read | sessions |
| views | `DOOR.md` | `render.Auto` after every command | reads everything |
| doctor | none | scan, fix | all of the above, partly outside the mutex |
| configuration, init, migrate | `config.json`, legacy files | set, init, import | mutex (migrate refreshes it) |
| check, guard | none | verdicts | reads cards |
| Node implementation (`src/src`) | the same files | the same protocol | may run beside the Go one |

What makes it hard: processes die between any two writes; they stall between a
look and the act it justifies; they meet on a shared disk from several machines
where a pid means nothing; records are read before the mutex is taken; cards expire
while others decide; on Windows a removal fails while somebody has the file open.
`PROJECT.json` lists the hazards at their lines, with the properties that cover them.

What makes each part correct:

- mutex: one function at a time; a lock is removed only on evidence that still
  holds; a crash anywhere never wedges it.
- cards: no two owners on one path; nobody decides while overlooking a card; what a
  crash interrupts is never lost; a card and its lease come and go together; an
  abandoned card falls off.
- offers: at most one is open for a card; a card changes hands only by an open
  offer; the end of an offer is recorded once.
- scopes: an overlap is never missed, and the intersection of two patterns is exact.
- sessions: a token never counts for anybody but the session that drew it and is
  never reverted, not by the command that recorded it and not by another one (the latter
  fails); note numbers never repeat; whoever joins again owns its cards (with one process
  per actor).
- waiting list: no entry outlives its card. Views: the last render shows the last
  state. Doctor: its rounds suffice, and no fix undoes the work of a command.

## The modules

### The mutex

`Mutex` is the promise: a call waits, then runs its function or returns without
having run it, and never while another runs.

`RegistryMutex` is the protocol of `mutex.go`. One action is one system call that
others can observe, or one branch that a call takes on what it has read:

- acquiring: `Mkdir`, `EnsureLockDir` (what `WriteAtomic` does first: it silently
  re-creates a lock directory that was broken meanwhile), `Stamp`, `Verify`; a lock that
  cannot be stamped is renamed away (`DropUnstamped`) or taken apart in place
  (`DropUnstampedFails`, `Scrap`);
- looking at somebody else's lock: `Judge`, with `Recoverable` as the two reasons to
  break (a dead pid of the same machine, or no activity for `staleMs`), `Timeout`; a
  doctor looks a single time (`LookOnce`);
- `withBreakLock`: `Knock`, `KnockFails`, `Sweep`, `LeaveBreak`, entered to break
  (`RereadAsBreaker`), to release (`RereadToRelease`) and to refresh
  (`RereadToRefresh`), followed by `RenameAside`, `RenameFails`/`Rmdir` (the
  fallback in place) or `WriteHeartbeat`;
- the rest of a call: `CallRefresh`, `FnReturns`, `Signal` (the goroutine that
  releases before or under a running function, or instead of its refresh),
  `FnOutrunsExit`, `CutOff` (a signal, or the end of the command, finds a release under
  way and ends the process in the middle of it), `TryAgain`, `GiveUp`.

Each call stands for one acquisition by a process of its own; its nonce is its name.
Time is "older than `staleMs` or not" for each directory. The environment makes a
directory old when nobody alive answers for it, and otherwise only under a fault.
`Faults` names everything that may go wrong, so that each run and each theorem says
under which faults it holds:

| fault | meaning |
|---|---|
| `crash` | a process dies, outside the two windows below |
| `crash_stamp` | ... between `mkdir` and `owner.json` |
| `crash_breaker` | ... inside the break directory |
| `stall_holder` | a live holder does not refresh for `staleMs` |
| `stall_stamp` | a live acquirer needs longer than `staleMs` to stamp |
| `signal` | SIGINT or SIGTERM reaches a holder |
| `stamp_error` | `owner.json` cannot be written; its lock is removed by name, without a fence |
| `share` | a rename fails (an open handle on Windows) |
| `rmdir` | the removal in place fails after the unlink of `owner.json` |

Left out: a `stat` that fails and the in-memory suspicion timer that replaces it,
`mkdir` errors other than "exists", a refresh whose write fails, the notes about
broken and slow locks.

### The door

`Door` is the promise: a card goes up once, in nobody's way; it is about other work
later only if that adds nobody to those whose way it is in; it moves only to the one it
is offered to at that moment; it comes down for good. Leases, clocks, inboxes, `archive/`
and the order of the writes are not in it.

`Claims` models the commands that change cards, leases and offers. A command is one
step, because it writes inside the mutex, except where it is not atomic in the code:

- accept and decline find the offer before they take the mutex (`FindOffer`, then
  `Accept`, `AcceptTooLate` or `Decline` on what was read);
- claim sweeps (`SweepToClaim`), then lists and decides (`Decide`: `Denied`, `Merge`
  or `TakeCard`, or `ClaimFails`), and time may pass between the two under `lapse`;
- under `crash` a process dies after any of its writes, in the order of the code:
  `Torn` for `ArchiveClaim`, `Writes(n)` for the commands with n writes.

A directory of records is a function over the files in it. A pattern is the set of
paths it can match, so `Overlap` is `ScopesOverlap` with its exclusions but without
the glob algebra, which is `Globs`. A card's clock is `age`: good, expired within the
grace period, or past it; `Stale` is `Decorate`'s verdict, which for a card of the own
machine also asks whether its process lives. The process of a card is over as soon
as its command has answered, or, for `fridge run`, when its child has.

The constants: `MayForce` says whether `--force` is used (it also stands for
`--allow-multihost`), `Runners` who uses `fridge run`, `Mortal` who may vanish,
`Excludable` which patterns are given to `--exclude`. A merge goes into any of the
session's overlapping cards where the code takes the oldest. There is one session per
actor; tokens and notes are in `Sessions`, waiters, views and unreadable records in
`Upkeep`.

`Claims` implements `Door` (`ImplementsDoor`): `Seen` is what the readers of `claims/` see
of the cards, `Ended` the cards in `archive/` that are not up any more. A card that a crash
left both in `archive/` and in `claims/` is still up. The promise does not hold with
`--exclude` or under `lapse`, as the violations below show. With its single card, the run
`claims_offers` checks everything in `Door` but the collisions; with `PROPERTY
ImplementsDoor` added, `ClaimsCrash.cfg` checks those, and crashes, and passes as well
(735517 states), but it is the slowest instance as it is. `RefinesDoor` proves it all.

### Patterns

`CharRanges` is the arithmetic of one character: ranges, their normal form, folding,
negation, and `CharsIntersect`, which decides whether two tokens accept a common
character. The alphabet is a constant: code points `0..MaxRune`, with the places of
the letters, the separator and `Fold`, which stands for `unicode.SimpleFold`: of all the
forms of a character, it names one.

`Globs` is everything above it, twice over as in the code: what a pattern *matches*
(`ExpandBraces`, `Regexp`, `Match`: the expression that `PatternToRegExp` compiles,
run over a file name) and whether two patterns *can* match a common path
(`SegmentsIntersect`, `GlobsIntersect`, `PatternsCanIntersect`), with `PatternCovers`,
`ScopesOverlap` and `buildScope` (`Materialized`). Patterns are sequences of symbols,
so nothing is parsed; a brace without an end, which is an error in the code, stands for
no pattern at all. Loops that build a list are folds (`Joined`, `Inserted`, `Split`,
`Collapsed` are their bodies), and what is recursive is a recursive function, over pairs
of positions where the code has a memo table (`SegmentsIntersect`, `GlobsIntersect`) and
for the matcher, which in the code is Go's `regexp`.

What happens beyond ASCII is arbitrary, but for one assumption: nothing but `/` is
folded to `/`, as in Unicode. Three constants say what the code does there, each in its
own way. Characters are compared by `Fold` (`EqualFold`), texts by `Lower` (`CaseFold`,
which is `ToLower`), and the two differ: the lower-case form of U+0130 is `i`, but it is
no form of `i`. And `segmentToRegex` writes every byte of a pattern as a character of
its own, so that beyond ASCII the expression is one for other names: `ByteWise`, with
`Bytes` for the encoding. `CaseBlind` says whether `os.Stat` finds a directory by its
name in another case (`StatFinds`).

`ScopeQueries` types a request, its `--exclude` and a card word by word, or picks two
tokens, and compares the answers with an enumeration of the files of a bounded tree.

Two things the comparison takes a stand on. In Go `[!b]` compiles to `[^b]`, which
accepts `/`; the protocol has classes stay within a segment. `Accepts` has both
(`cross`): `Materialized` is what the code lists, the promises about `ScopesOverlap`
use the protocol's reading, of characters and not of bytes. And `TokensDecided` excuses
the approximations that err on the safe side: `?`, two negated classes, folding beyond ASCII.

### Sessions

`Sessions` takes the commands apart into the reads and writes of `actors/`,
`sessions/` and `notes/`. A command reads its session before it takes the mutex and
works on that copy, its `photo`; `MutateSession` reads the record anew (`Fetch`) and
writes it back with one token changed (`KeepToken`, `ForgetToken`); `Pin` writes the
photo with the next number (`Number`) and then the note (`PinNote`). A process has the
steps that are left of its command in `todo` (`ClaimSteps`, `ReleaseSteps`, ...); the
order of these lists is the order of the calls in the code. A sweep puts a note for
each card it takes down before what is left (`SweepCard`). Whether a card is stale and
whether a claim conflicts is for `Claims` to say: here a sweep may find any card
stale, and a claim may be denied. A release by another session's `--force` is allowed,
since the session and token test passes or is skipped.

`used` is what was ever drawn at random, and for which session: ids do not repeat.
`Crash` drops the rest of a command at any point.

### Upkeep

`Upkeep` is the door seen by those who tidy it: the sweep, the waiting list,
`render.Auto` and `doctor --fix`. It starts from any damage: torn records, leases
without a card, cards without a lease, staged files, a lock nobody holds. Commands
are again lists of steps. `Snapshot` is what `DOOR.md` shows and what the state key
is a hash of; `TakeSnapshot`, `WriteDoor` and the look after it (`Rendered`,
`LookAgain`, `GivesUp`) are the loop of `Auto`. A doctor scans (`Scan`) and takes the
`Repairs` it found as its next steps, in the order of the code, most of them outside
the mutex, then scans again, four times at most. Its scan is one step, and so is the
listing of a sweep: both read directories file by file in the code. A sweep lists what
is stale (`Sweep`) and then archives card by card (`Reap`, which becomes the writes of
`Archive`), so a card may be renewed, quarantined or mended between the two by those
who do not need the mutex.

Four variables are there for the properties only: `kept`, `stray`, `behind`, `alone`.
Of the constants it is assumed that `None` and "dead", the holder of a lock nobody holds,
are no ids (`NoneAssumption`, `ProcessAssumption`), and that directories are finite
(`FilesAssumption`).

A claim may fail behind its sweep (`ClaimFails`): cards are archived and notes pinned,
and it returns without rendering. A lock that nobody holds is "dead" when it can be
broken and "recent" while that cannot be told: no owner is written in it, or one of
another machine. `BreakMutex` leaves a recent lock alone, `AgeMutex` makes it dead.

The excuses of `DoorKeepsUp` are named by `Untended`: `wait` writes and removes its
queue entry without rendering, the heartbeat of `run` does not render, a claim fails
behind its sweep, a card expires by the clock, a staged file was cleared by a doctor, a
renderer gives up after three attempts, a doctor after its last scan. They are departures
from protocol I5b ("after any command", "including commands that fail"); the run and the
theorem show that no other step of the model leaves the door behind. `claim --queue`, a
claim that is denied and the other errors are no excuse: the first two render, and the
others come before anything has changed.

A doctor starts even where a command would refuse to open the
workspace; the damage that keeps *everybody* out (an unreadable VERSION or
config.json) is not modelled.

`MCRegistryMutex`, `MCClaims`, `MCScopeQueries`, `MCSessions` and `MCUpkeep` hold the
instances for TLC.

## What the runs check

| run | instance | shows |
|---|---|---|
| `mutex_safe` | 3 callers and a doctor, one caller on another machine, faults `crash`, `stamp_error` (the removal of the unstamped lock may fail too), `share`, one refresh | `MutualExclusion`, `HolderOwnsLock`, `BreakersExclude`, `EvidenceStable`, `OnlyTheDeadAreBroken`, that the protocol implements `Mutex`, and the two inductive invariants of the proofs |
| `mutex_live` | 2 callers and a doctor on another machine, all faults but `stall_stamp` | `EveryCallEnds` |
| `claims_crash` | 2 sessions on one machine, 2 cards, exclusive and shared, 1 offer, crashes | `NoTwoOwnersUnlessHanded`, `ClaimsInv`, `NothingLost` |
| `claims_offers` | 3 sessions on 2 machines, 1 card, 2 offers, a runner, a session that may vanish, `--force` | `OneOpenOffer`, `LeasesMatchCards`, `HandsChangeByOpenOffer`, `AbandonedCardsFall`, that the commands implement `Door`, and the inductive invariant of the proofs, `OffersInv` |
| `sessions` | 2 actors with a process each, 2 sessions, 1 card, 2 tokens, 3 notes per session, crashes | `TokensInv`, `OnlyTheHolderOwns`, `NotesCountUp`, `NobodyLosesTheirCards`, `OwnTokensStay`, and `AloneInv`, the inductive invariant of the proofs about notes and cards |
| `globs` | patterns of up to two words out of eight (stars, globstars, braces, letters in both cases), four words per question; every pair of 120 tokens; 228 files | `OverlapNeverMissed` and, with `--exclude`, `ExcludesHideNothing`; `OverlapSymmetric`, `IntersectionExact`, `TokensDecided` |
| `upkeep` | 2 processes, each command or doctor, 1 card, 2 entries, any damage, 2 notes or leases before the last command starts | `DoorKeepsUp`, `DoctorHeals`, `OrphansStayOrphans`, `WaitersGoWithTheirCard`, `KeptCardsStay` |

Five runs look for a violation of what the repository says of the program, and find it:

| run | what the text says | what the code does |
|---|---|---|
| `mutex_unread` | if the lock changed hands, the break is abandoned (`mutex.go:416`) | two locks without `owner.json` are not told apart |
| `claims_two_owners` | no two held claims of different sessions overlap (I4) | accept does not look at the neighbours of the card |
| `claims_offer_ends` | transitions of a message happen under the mutex, one writer at a time (protocol 4) | two answers to one offer file two ends, the second over the first |
| `sessions_photograph` | a session object read before the mutex must not be written back (`store.go:630`) | `Pin` does just that: two processes of one session revert a token |
| `globs_materialized` | the overlap test never says no when the materialized sets intersect (`paths.go:3`) | excluding `a/**` is taken to exclude `a`, which it does not match while `a` is a file |

Eight more come out of the same modules by changing constants, and are not runs:

| change | violated | why |
|---|---|---|
| `MutexUnread.cfg` with `Faults = {"stall_stamp"}` | `MutualExclusion` | a process whose lock was broken before its stamp stamps the replacement and passes its own verification (protocol 5.1) |
| `MutexUnread.cfg` with `Faults = {"crash_breaker"}` and `BreakersExclude` | `BreakersExclude` | an abandoned break directory is swept by name, and the sweep of a second waiter removes a fresh one (`mutex.go:410`) |
| `ClaimsTwoOwners.cfg` with `Message = {}`, `Pattern <- TwoPatterns`, `Excludable <- OnlyTheFirst`, exclusive cards | `NoTwoOwners` | a merge drops the request's `--exclude`, after checking with it |
| `GlobsMaterialized.cfg` with `Word <- RangeWords`, `File <- LetterFiles` and `ExcludesHideNothing` | the same | `PatternCovers` should say that *every* path of the one pattern is one of the other (`intersect.go:390`), but compares texts in lower case, the bounds of classes included (`paths.go:41`): where case does not count, excluding `[a-z]` is taken to cover `[A-z]`, which also accepts `_` |
| `Globs.cfg` with `Word <- DottedWords` and `File <- LetterFiles` | `ExcludesHideNothing` | the same comparison of texts in lower case: excluding U+0130 is taken to cover `i`, which it does not match (`intersect.go:146`) |
| `ClaimsCrash.cfg` with `Faults = {"lapse"}` | `ClaimsInv` | a card that expires between the sweep and the listing is overlooked |
| `SessionsPhotograph.cfg` with `NotesCountUp` | the same | two commands of one session pin with one photograph: two notes of one number |
| `SessionsPhotograph.cfg` with `NobodyLosesTheirCards` | the same | two first joins of one actor at once make two sessions; a card taken by the first is nobody's once the second is written (`store_test.go:137`: "re-joining abandoned the live session") |

### Bounds

Three callers are what the hazards of the mutex need: a corpse, a waiter that acts
on an old judgement, and the one that takes the lock in between; the doctor makes a
fourth, with no loop of its own. `MaxBeat = 1` lets the heartbeat change between a
judgement and its second look. That is `mutex_safe`; for liveness, in `mutex_live`, two
takers and a doctor are enough to wait for one another, and the faults are many. For the door, two cards of two sessions give a clash,
a third session gives a second addressee, two offers give a withdrawn one. An
identifier is used once, as in the code, so the number of cards bounds the number of
claims in a behaviour; two suffice for a card that is taken down and its successor.

`MaxNotes` in `Sessions` lets one session join, claim and hand over, or join, claim and
pin again: a number that repeats needs no more. Two tokens give a card its second
owner. In `Upkeep` two writes after the damage are enough for a renderer to be
overtaken and for a repair to meet a claim; one card is one claim and one lease, and
every repair is about a single card. The theorems below have the same properties for
any number of cards, processes and writes. Two words per pattern make `**` out of `*` and
`*`, and put every construct next to every other; the files have up to three segments.

Card and message names are interchangeable everywhere; sessions only where all are on
one machine, path names only where nothing is excluded. In `Sessions` ids are, and two
actors with a process each (`IdsAndActors`); in `Upkeep` processes and entries
(`Alike`). The runs with a liveness property use no symmetry.

### Fairness

`RegistryMutex`: every live process that has started is scheduled (weak fairness of
`Progress`); lock and break directories nobody answers for grow old (weak fairness of
`AgeLock`, `AgeBreak`); a retry ends with `releaseTimeoutMs` (strong fairness of
`GiveUp`, which a retry enables again and again); a rename that is tried again and
again succeeds once (strong fairness of `RenameAside`: the handle that blocks it is
open for microseconds; if it never were to, the code would go round past its deadline,
which no run would show). The deadline of an acquisition is not relied on, nor is the
user assumed to start anything.

`Claims`: time passes (strong fairness of `AgeCard`, which a claim in progress
disables for a moment), a claim inside the mutex ends, a child ends, and the sessions
that stay go on sweeping (`Reap`). The last one is an assumption about the house, not
about the program: without a daemon, an expired card stays until somebody claims,
reaps or runs `doctor --fix`.

`Sessions`, `Upkeep` and `ScopeQueries` state no fairness: what they promise is safety.
Deadlock is checked except in `Sessions` and `Upkeep`, where the bounds on notes stop
the commands.

## What is proved

`RegistryMutexProofs`, for every set of calls, doctors and machines:

- `TypeCorrect`, under all faults;
- `FenceHolds`, `EvidenceIsStable` and `BreakersAreExclusive`, under `FencedFaults` (no
  death or stall in the two windows; a live holder may stall). The inductive invariant is
  `FenceInv`: the break directory belongs to the one call that is inside (`BreakInv`);
  a lock without `owner.json` is the work in progress of the call that made it
  (`StampInv`); so nobody ever judges a lock that names no owner (`JudgeInv`). Without
  the last two, the second look would prove nothing, which is what `mutex_unread` shows;
- `ExclusionHolds`, `MutualExclusionHolds`, `HolderOwnsItsLock`, `OnlyDeadLocksAreBroken`
  and `RefinesMutex`, under `BenignFaults` (also no live holder past `staleMs` and no
  signal). The inductive invariant is `ExclusionInv`, the fence and `HoldInv`, which says what a call may rely on from its stamp to the end of its
  release, and that whatever is judged dead is past using its lock.

`ClaimsProofs`, for every set of sessions, cards, messages, patterns and modes, with
crashes and `--force`:

- `TypeCorrect`;
- `NoTwoOwnersUnlessHandedHolds`: two cards that clash come about only by a handoff, if
  no card lapses inside a claim and nobody uses `--exclude` (the code guarantees neither,
  and the rows on `lapse` and on the merge in the table above show that both are needed).
  The decision of a claim rests on one fact, `ClaimsInv`: inside a claim nothing is
  stale, so the cards it compares with are all there are. It is little more than the
  first assumption, and the lemma `ClaimsInvHolds` is there for the proof only;
- `RefinesDoor`, under the same assumptions. Each step of the commands maps to one step of
  `Door` or is not seen there: an archiving that is cut short ends the cards it has
  unlinked; a merge is a `Widen` because the request was compared with every card that is
  up (`ClaimSeesAll`) and no exclusion is in use; a handoff is seen with its last write.

`OffersProofs` goes on with `Claims`:

- `OffersInvHolds`, while no process dies between two writes, with `--force`, runners
  and sessions that vanish: `OffersInv` is inductive. That a card names at most one open
  offer cannot be shown from the card alone: an answer under way may be to an offer that
  was withdrawn, or to one whose card was taken down, and it files what it found without
  a look at the card. So the invariant says that an offer in an inbox has no end on
  record and is the one its card names if the card is up, that a card id which is not up
  yet was never offered, and that an answer agrees with the message it found as long as
  the message is there;
- `OneOpenOfferHolds`, `LeasesMatchCardsHolds` and `HandsChangeByOpenOfferHolds` follow;
- `NothingLostHolds`, with crashes at every write and every other fault: nothing that is
  on record is ever taken off it before its successor is written.

`SessionsProofs`, for any number of actors, processes of one session, cards and
tokens, with crashes anywhere:

- `TokensAreSound`: `TokensInv` is inductive. A test of ownership could be passed with
  an old copy of a session, and copies are written back late; what saves it is that a
  token is drawn by the session that will keep it and never moves to another, in memory
  or on disk, so that `used` tells whose it is;
- `OnlyTheHolderOwnsACard` follows: whoever passes release's test is the session on
  the card, although its previous owner keeps the old token for ever;
- `OwnTokensAreKept`: the note that claim and accept pin at their end is written with the
  copy of the record that the command has in memory. The token it recorded before is in
  that copy, since `MutateSession` changes it too, and nothing between the two replaces
  the copy, whatever other processes of the session do. What *they* recorded may be
  reverted, as `sessions_photograph` shows.

`OneProcessProofs` goes on with `Sessions`, for any number of actors that run one
process at a time (`OneProcessEach`), with crashes anywhere. Without
the assumption both conclusions are false, as the last rows of the table above show:

- `AloneInvHolds`: `AloneInv` is inductive. A process in a command is alone with its
  session, so what it has of the record is what is on disk (`Alone`), except before a
  join has read it; and what is left of a command keeps its order (`Ordered`): a number
  is followed by its note, a token is written right after the record was read, and after
  the card;
- `NotesCountUpHolds` and `NobodyLosesTheirCardsHolds` follow.

`UpkeepProofs`, for any number of processes, cards, entries and writes, whatever is
damaged to begin with. What a process is about to do is a list of steps, so the argument
is about lists: `Fits` says which step may come somewhere before which, `Follows` which
comes right after which, `Leads` which must still come (an unlock after every step that
needs the mutex, a look at the door after every step that changes it, a scan after every
repair). Each list a command starts with is shown to have that `Shape`, and that it keeps
it when its first step is done or others take its place.

- `TypeCorrect` and `GuardedByTheMutex`. The inductive invariant is `TypeOK` with
  `SectionInv`: what is left of every command has the shape, and without the mutex there
  is a `lock` in it before anything that needs the mutex (`Shut`). The order is needed for
  it: an error drops the rest of a command, and the mutex must not stay behind;
- `OrphansAreOrphans` and `CountedCardsStay`. `CardInv` says what must be true of a card
  as long as steps about it are left (`Keeps`): a `save` is of an id that was never used,
  so no claim can come up between the scan that found an orphan and its unlink; whoever
  is about to archive a card found it stale or has read it as its own, and in the mutex,
  so nobody renewed it since; a lease is written for a card only after the card. And the
  lease of a card that is counted on did not run out (`Sound`);
- `WaitersAreCleared`. `WaitInv` strengthens the property: the process that is to clear
  the entries has nothing but the unlink of the card and of its lease before that
  (`Clears`), so nothing in between can fail and drop it;
- `DoorIsKeptUp`. That somebody will look at the door is not enough to be inductive,
  since the look may find the door as it remembers it and go away, while an older snapshot
  is written after. `DoorUp` asks for one that counts (`Counts`): who is yet to take a
  snapshot or to write one, or who is about to look with a snapshot that is *not* the
  present state. A command that may still be refused does not count, nor one that is yet
  to sweep, since the sweep may end in an error before it has changed anything; a doctor
  does, and `SweepInv` is why its sweep does not: it has a step before that moves away
  every card that cannot be read. A claim counts from the end of its sweep until it fails,
  which is an excuse by name: the proof leans on no claim that comes to its render;
- `DoctorsHeal`. `HealInv` says what a doctor that has been alone since its first scan
  knows in each round: after a scan, every fault has its repair among the steps that are
  left (`Found`, which is `Cured` for each card); the repairs of the first round uncover at
  most leases without a card and a door that is behind (`OnlyOrphans`), and those of the
  second uncover nothing. So for the damage that is modelled two rounds are enough, of
  the four of `DoctorPasses`: the third scan finds nothing, but for a lock that is not
  old enough to be broken (`Healed`). A doctor whose sweep waits for such a lock goes on
  when it is, and breaks it in the round after (`Found`).

`ScopeProofs`, for every layout of the letters, all words and all lengths of patterns:

- `TokensAreDecided`. What the code computes for two classes is shown to be what it means:
  sorting and joining leave the characters of a list of ranges alone and put them in order
  and `Apart` (`NormalizedRanges`); folding splits a range at the letters and keeps what
  it has (`FoldedRangesHas`); and only for ranges that are apart does the cursor of
  `HasOutside` find each character outside (`HasOutsideExact`);
- `OverlapIsSymmetric`. The two tables, of `SegmentsIntersect` and of `GlobsIntersect`,
  are the transposed tables of the question turned round (`GridInduction`), since
  `CharsIntersect` is symmetric.

`OverlapProofs` goes on with them, for every set of names too:

- `OverlapIsNeverMissed`. The verdict must be positive whenever both sides own one name,
  but the matcher and the comparison have nothing in common: one runs a regular
  expression along a name, the other two lists of segments along each other. So the
  regular expression is first shown to read a name segment by segment (`PatternReads`).
  Then, of two readings of one name, each of the two tables of the comparison is shown to
  hold at every pair of places that the readings pass together: inside a segment
  (`SegmentsMeet`, where the characters met are read by both, hence `CharsDecided`), and
  over the segments (`WalksMeet`, with a `**` on either side). That gives
  `MatchersIntersect`: two patterns without braces that match one name intersect. What is
  *owned* is more than what is matched: `X/**` names X, and who names a directory owns
  what is below. So the name both match is not the one that both own, but one below it, as
  if it were a directory: `ReachesBelow` shows that each side's pattern, or its pattern
  with the wildcard of `WithSubtree` behind it, matches that name. The wildcard is put
  behind the pattern, the braces are expanded afterwards: `SubtreeBraces` shows that it
  ends up behind each alternative.
- `PlainExcludesHideNothing`. A pair of scopes is left out of the conflicts where the
  exclude of the one *covers* the include of the other: the texts are the same but for
  their cases, or the exclude is `X/**` with X free of wildcards and the include begins
  with X. Texts are compared and names are meant, so covered has to imply owned. For equal
  texts, symbol after symbol accepts the same (`FoldedStands`), also in the forms without
  the trailing `/**` (`TrimmedSame`). For `X/**`, the regular expression of the include is
  cut behind X, and with it every reading of a name (`SegmentsLead`, `ReadingCut`): X has
  read the name up to a separator (`MatchCut`), which is a name above the one that was
  matched, and who owns that owns what is below (`CoveredMatches`). The premise
  `PlainPatterns` is what the code needs and does not check: where case does not count, no
  class on either side has a range such as `[A-z]`, whose folded bounds say less than it
  accepts, and no two characters have one lower-case form without being forms of one
  another (the rows on `[A-z]` and on U+0130 in the table of what does not hold, above). It
  is true wherever case counts, and in every state of the run `globs`.

The provers know neither recursive functions nor folds, and the library's theorems about
them take operators. So the module first proves, by least counterexample, that what is
defined by recursion over numbers, over pairs of numbers or over lists that get shorter
exists (`Ranked`, `Recursion`, `GridRecursion`), and that a fold is the last of its rounds
(`FoldPlaces`).

Only checked, not proved: liveness (`EveryCallEnds`, `AbandonedCardsFall`), which the
prover does not handle; and of the comparisons of `ScopeQueries` that the intersection is
exact (`IntersectionExact`, on words of letters, stars and braces, without `?` and
classes), which is no statement for every value of the constants: it is
false where the set of names lacks the witness. `ExcludesHideNothing` itself is checked
without the premise of the theorem, on words of ASCII without classes.

## Not modelled

- configuration, init, migration: one writer, or one long critical section; what they
  validate is input checking;
- the command line, output, JSON, error texts, secrets, adapters: no shared state;
- simulate and conform: test drivers;
- the Node implementation, which follows the same protocol on the same files and would
  be a second translation of the same modules;
- of the scopes: syntax errors, the bound of 256 alternatives, the path arithmetic and
  symlinks of `NormalizePattern`, the limit on materialized files;
- of the mutex: a `stat` that fails and its in-memory suspicion timer, a refresh whose
  write fails, the notes about broken and slow locks;
- of the claim commands: `claim --wait` and the polling of `wait`, labels, tasks;
- of the views: the texts; of doctor: damage that it cannot fix, and the damage to
  VERSION and config.json that keeps every command from opening the workspace.

## Plan

What is left, the most consequential first:

1. an abstract specification of the waiting list and the door of `Upkeep`, and a proof
   that the steps implement it;
2. `claim --wait` and the polling of `wait` as a composition of `Claims` and the
   waiting list: does a waiter always get its answer;
3. the theorems of `OneProcessProofs` under a weaker assumption: one process at a time
   per session, not per actor.
