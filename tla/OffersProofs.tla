----------------------------- MODULE OffersProofs -----------------------------
(* Claims again: the bookkeeping of leases and offers while no process dies between *)
(* two of its writes, and what is left on record when one does.                     *)
EXTENDS ClaimsProofs

-----------------------------------------------------------------------------
(* No process dies: every command makes all of its writes. *)

LEMMA AllWrites ==
    ASSUME "crash" \notin Faults
    PROVE  /\ \A n : Writes(n) = {n}
           /\ \A S : Torn(S) = {AllOf(S)}
BY DEF Writes, Torn

\* The three parts of OffersInv that are about offers.
CardsNameOffers ==
    \A c \in Up : Offered(c) =>
        /\ door[c].offer \in DOMAIN inbox
        /\ inbox[door[c].offer] = [card |-> c, to |-> door[c].to]

OffersNameCards ==
    \A m \in DOMAIN inbox :
        /\ filed[m] = "open" /\ ~Fresh(inbox[m].card)
        /\ inbox[m].card \in Up => door[inbox[m].card].offer = m

AnswersToOffers ==
    \A a \in answers : a.msg \in DOMAIN inbox => inbox[a.msg] = [card |-> a.card, to |-> a.who]

LEMMA OffersParts ==
    OffersInv <=>
      TypeOK /\ LeasesMatchCards /\ CardsNameOffers /\ OffersNameCards /\ AnswersToOffers
BY DEF OffersInv, CardsNameOffers, OffersNameCards, AnswersToOffers

LEMMA UpTypes ==
    ASSUME TypeOK
    PROVE  /\ Up \subseteq Card /\ \A c \in Up : door[c] \in CardRecord
           /\ DOMAIN inbox \subseteq Message /\ \A m \in DOMAIN inbox : inbox[m].card \in Card
BY DEF TypeOK, Up, Offer

\* A step that is not about offers: the cards that stay up keep theirs, a card that goes
\* up is new and has none, and a card that was ever up is never new again.
KeepsOffers ==
    /\ UNCHANGED offerVars /\ answers' \subseteq answers
    /\ \A c \in Up' :
          \/ c \in Up /\ door'[c].offer = door[c].offer /\ door'[c].to = door[c].to
          \/ Fresh(c) /\ door'[c].offer = None
    /\ \A c \in Card : Fresh(c)' => Fresh(c)

LEMMA KeepsOffersSound ==
    ASSUME OffersInv, TypeOK', LeasesMatchCards', KeepsOffers
    PROVE  OffersInv'
<1>1. /\ TypeOK /\ CardsNameOffers /\ OffersNameCards /\ AnswersToOffers
  BY OffersParts
<1>2. inbox' = inbox /\ filed' = filed
  BY DEF KeepsOffers, offerVars
<1>3. CardsNameOffers'
  <2> SUFFICES ASSUME NEW c \in Up', Offered(c)'
               PROVE  /\ door'[c].offer \in DOMAIN inbox
                      /\ inbox[door'[c].offer] = [card |-> c, to |-> door'[c].to]
    BY <1>2 DEF CardsNameOffers
  <2>1. c \in Up /\ door'[c].offer = door[c].offer /\ door'[c].to = door[c].to
    BY DEF KeepsOffers, Offered
  <2> QED BY <1>1, <2>1 DEF CardsNameOffers, Offered
<1>4. OffersNameCards'
  <2> SUFFICES ASSUME NEW m \in DOMAIN inbox
               PROVE  /\ filed[m] = "open" /\ ~Fresh(inbox[m].card)'
                      /\ inbox[m].card \in Up' => door'[inbox[m].card].offer = m
    BY <1>2 DEF OffersNameCards, Fresh
  <2> DEFINE c == inbox[m].card
  <2>1. filed[m] = "open" /\ ~Fresh(c) /\ c \in Card /\ (c \in Up => door[c].offer = m)
    BY <1>1, UpTypes DEF OffersNameCards
  <2>2. ~Fresh(c)'
    BY <1>2, <2>1 DEF KeepsOffers, Fresh
  <2> QED BY <2>1, <2>2 DEF KeepsOffers
<1>5. AnswersToOffers'
  BY <1>1, <1>2 DEF AnswersToOffers, KeepsOffers
<1> QED BY <1>3, <1>4, <1>5, OffersParts DEF OffersInv, CardsNameOffers, OffersNameCards, AnswersToOffers

-----------------------------------------------------------------------------
(* Commands that are not about offers. *)

\* A card goes down with its lease, and its record stays (ArchiveClaim).
LEMMA ArchiveAll ==
    ASSUME TypeOK, LeasesMatchCards, NEW S \in SUBSET Up, NEW end \in [Card -> CardEnds],
           ArchiveClaims(AllOf(S), end), UNCHANGED offerVars, answers' \subseteq answers
    PROVE  LeasesMatchCards' /\ KeepsOffers
<1>1. /\ closed' = [c \in Card |-> IF c \in S THEN end[c] ELSE closed[c]]
      /\ door' = Remove(door, S) /\ lease' = Remove(lease, S)
  BY DEF ArchiveClaims, AllOf
<1>2. /\ Up' = Up \ S /\ \A c \in Up' : door'[c] = door[c]
      /\ DOMAIN lease' = DOMAIN lease \ S
  BY <1>1 DEF Remove, Up
<1>3. LeasesMatchCards'
  BY <1>2 DEF LeasesMatchCards, Up
<1>4. \A c \in Card : Fresh(c)' => Fresh(c)
  BY <1>1, <1>2 DEF Fresh, CardEnds
<1> QED BY <1>2, <1>3, <1>4 DEF KeepsOffers

\* A lease is written only for a card that is up (WriteLease).
LEMMA LeaseAll ==
    ASSUME TypeOK, LeasesMatchCards, NEW S \in SUBSET Up, NEW s, WriteLease(S, s),
           closed' = closed, UNCHANGED offerVars, answers' \subseteq answers
    PROVE  LeasesMatchCards' /\ KeepsOffers
<1>1. /\ Up' = Up /\ DOMAIN lease' = DOMAIN lease \cup S
      /\ \A c \in Up : door'[c] = IF c \in S THEN [door[c] EXCEPT !.age = 0] ELSE door[c]
  BY DEF WriteLease, Up
<1>2. \A c \in Up : door'[c].offer = door[c].offer /\ door'[c].to = door[c].to
  BY <1>1, UpTypes DEF CardRecord
<1>3. LeasesMatchCards'
  BY <1>1 DEF LeasesMatchCards, Up
<1> QED BY <1>1, <1>2, <1>3 DEF KeepsOffers, Fresh

\* A step that leaves the door and its leases alone.
LEMMA StillCards ==
    ASSUME LeasesMatchCards, UNCHANGED cardVars, UNCHANGED offerVars, answers' \subseteq answers
    PROVE  LeasesMatchCards' /\ KeepsOffers
BY DEF cardVars, LeasesMatchCards, KeepsOffers, Fresh, Up

\* A claim puts up a new card, or widens one of its own.
LEMMA DecideKeepsOffers ==
    ASSUME "crash" \notin Faults, OffersInv, NEW s \in Session, Decide(s)
    PROVE  LeasesMatchCards' /\ KeepsOffers
<1>1. TypeOK /\ LeasesMatchCards
  BY OffersParts
<1>2. PICK mode \in Modes, scope \in {x \in Scope : x.include # {}} :
        \/ Denied(s, mode, scope)
        \/ \E c \in Card, run \in BOOLEAN :
             \/ Merge(s, mode, scope, c, run)
             \/ \E strict \in BOOLEAN : TakeCard(s, mode, scope, c, strict, run)
  BY DEF Decide
<1>3. CASE Denied(s, mode, scope)
  BY <1>1, <1>3, StillCards DEF Denied
<1>4. ASSUME NEW c \in Card, NEW run \in BOOLEAN, Merge(s, mode, scope, c, run)
      PROVE  LeasesMatchCards' /\ KeepsOffers
  <2>1. /\ c \in Up /\ UNCHANGED offerVars /\ answers' = answers /\ closed' = closed
    BY <1>4 DEF Merge, MineOverlapping, Existing
  <2> DEFINE Wide(k) ==
        /\ door' = [door EXCEPT ![c].scope.include = @ \cup scope.include,
                                ![c].age = IF k = 2 THEN 0 ELSE @]
        /\ lease' = IF k = 2 THEN Put(lease, c, s) ELSE lease
  <2>a. \E k \in Writes(2) : Wide(k)
    BY <1>4 DEF Merge
  <2>b. Writes(2) = {2}
    BY AllWrites
  <2>c. Wide(2)
    BY <2>a, <2>b
  <2>2. /\ door' = [door EXCEPT ![c].scope.include = @ \cup scope.include, ![c].age = 0]
        /\ lease' = Put(lease, c, s)
    BY <2>c
  <2>3. /\ Up' = Up /\ DOMAIN lease' = DOMAIN lease \cup {c}
        /\ \A d \in Up : door'[d].offer = door[d].offer /\ door'[d].to = door[d].to
    BY <1>1, <2>1, <2>2, UpTypes DEF Up, Put, CardRecord, Scope
  <2> QED BY <1>1, <2>1, <2>3 DEF LeasesMatchCards, KeepsOffers, Fresh, Up
<1>5. ASSUME NEW c \in Card, NEW run \in BOOLEAN, NEW strict \in BOOLEAN,
             TakeCard(s, mode, scope, c, strict, run)
      PROVE  LeasesMatchCards' /\ KeepsOffers
  <2>1. Fresh(c) /\ UNCHANGED offerVars /\ answers' = answers /\ closed' = closed
    BY <1>5 DEF TakeCard
  <2>2. PICK rec : door' = Put(door, c, rec) /\ rec.offer = None /\ lease' = Put(lease, c, s)
    BY <1>5, AllWrites DEF TakeCard
  <2>3. /\ Up' = Up \cup {c} /\ DOMAIN lease' = DOMAIN lease \cup {c}
        /\ door'[c] = rec /\ \A d \in Up : d # c => door'[d] = door[d]
    BY <2>2 DEF Up, Put
  <2> QED BY <1>1, <2>1, <2>2, <2>3 DEF LeasesMatchCards, KeepsOffers, Fresh, Up
<1> QED BY <1>2, <1>3, <1>4, <1>5

LEMMA ClaimingKeepsOffers ==
    ASSUME "crash" \notin Faults, OffersInv, NEW s \in Session, Claiming(s)
    PROVE  LeasesMatchCards' /\ KeepsOffers
<1>1. TypeOK /\ LeasesMatchCards
  BY OffersParts
<1>2. CASE SweepToClaim(s)
  <2>1. FallenCards(s, FALSE) \in SUBSET Up /\ [c \in Card |-> "expired"] \in [Card -> CardEnds]
    BY DEF FallenCards, CardEnds
  <2> QED BY <1>1, <1>2, <2>1, ArchiveAll DEF SweepToClaim, ReapStale
<1>3. CASE Decide(s)
  BY <1>3, DecideKeepsOffers
<1>4. CASE ClaimFails(s)
  BY <1>1, <1>4, StillCards DEF ClaimFails
<1> QED BY <1>2, <1>3, <1>4 DEF Claiming

LEMMA TakingDownKeepsOffers ==
    ASSUME "crash" \notin Faults, OffersInv, NEW s \in Session, TakingDown(s)
    PROVE  LeasesMatchCards' /\ KeepsOffers
<1>1. TypeOK /\ LeasesMatchCards
  BY OffersParts
<1>2. ASSUME NEW force \in MayForce, Reap(s, force) PROVE LeasesMatchCards' /\ KeepsOffers
  <2>1. FallenCards(s, force) \in SUBSET Up /\ [c \in Card |-> "expired"] \in [Card -> CardEnds]
    BY DEF FallenCards, CardEnds
  <2>2. ArchiveClaims(AllOf(FallenCards(s, force)), [c \in Card |-> "expired"])
    BY <1>2, AllWrites DEF Reap, ReapStale
  <2> QED BY <1>1, <1>2, <2>1, <2>2, ArchiveAll DEF Reap
<1>3. ASSUME NEW S \in SUBSET Up, NEW force \in MayForce, Release(s, S, force)
      PROVE  LeasesMatchCards' /\ KeepsOffers
  <2>1. ArchiveClaims(AllOf(S), EndBy(s))
    BY <1>3, AllWrites DEF Release
  <2> QED BY <1>1, <1>3, <2>1, EndTypes, ArchiveAll DEF Release
<1>4. ASSUME ReleaseAll(s) PROVE LeasesMatchCards' /\ KeepsOffers
  <2>1. ArchiveClaims(AllOf(OwnCards(s)), EndBy(s)) /\ OwnCards(s) \in SUBSET Up
    BY <1>4, AllWrites DEF ReleaseAll, OwnCards
  <2> QED BY <1>1, <1>4, <2>1, EndTypes, ArchiveAll DEF ReleaseAll
<1>5. ASSUME RunEnds(s) PROVE LeasesMatchCards' /\ KeepsOffers
  <2>1. CASE UNCHANGED cardVars
    BY <1>1, <1>5, <2>1, StillCards DEF RunEnds
  <2>2. CASE running[s] \in Up /\ ArchiveClaims(AllOf({running[s]}), EndBy(s))
    <3>1. {running[s]} \in SUBSET Up
      BY <2>2
    <3> QED BY <1>1, <1>5, <2>2, <3>1, EndTypes, ArchiveAll DEF RunEnds
  <2>3. Torn({running[s]}) = {AllOf({running[s]})}
    BY AllWrites
  <2> QED BY <1>5, <2>1, <2>2, <2>3 DEF RunEnds
<1> QED BY <1>2, <1>3, <1>4, <1>5 DEF TakingDown

LEMMA RenewingKeepsOffers ==
    ASSUME OffersInv, NEW s \in Session, Renewing(s)
    PROVE  LeasesMatchCards' /\ KeepsOffers
<1>1. TypeOK /\ LeasesMatchCards
  BY OffersParts
<1>2. PICK S \in SUBSET Up : WriteLease(S, s)
  <2>1. CASE \E S \in SUBSET Up : Heartbeat(s, S)
    BY <2>1 DEF Heartbeat
  <2>2. CASE RenewOwnLeases(s)
    BY <2>2 DEF RenewOwnLeases, OwnCards
  <2>3. CASE (\E c \in Up : Extend(s, c)) \/ RunHeartbeat(s)
    BY <2>3 DEF Extend, RunHeartbeat
  <2> QED BY <2>1, <2>2, <2>3 DEF Renewing
<1>3. closed' = closed /\ UNCHANGED offerVars /\ answers' = answers
  BY DEF Renewing, Heartbeat, RenewOwnLeases, Extend, RunHeartbeat
<1> QED BY <1>1, <1>2, <1>3, LeaseAll

LEMMA EnvironmentKeepsOffers ==
    ASSUME OffersInv, Environment
    PROVE  LeasesMatchCards' /\ KeepsOffers
<1>1. TypeOK /\ LeasesMatchCards
  BY OffersParts
<1>2. ASSUME NEW c \in Up, AgeCard(c) \/ ProcessEnds(c) PROVE LeasesMatchCards' /\ KeepsOffers
  <2>1. /\ UNCHANGED <<lease, closed, offerVars, answers>>
        /\ \/ door' = [door EXCEPT ![c].age = @ + 1]
           \/ door' = [door EXCEPT ![c].proc = "ended"]
    BY <1>2 DEF AgeCard, ProcessEnds
  <2>2. Up' = Up /\ \A d \in Up : door'[d].offer = door[d].offer /\ door'[d].to = door[d].to
    BY <1>1, <2>1, UpTypes DEF Up, CardRecord
  <2> QED BY <1>1, <2>1, <2>2 DEF LeasesMatchCards, KeepsOffers, Fresh, Up
<1>3. ASSUME NEW s \in Session, Vanish(s) PROVE LeasesMatchCards' /\ KeepsOffers
  <2>1. answers' \subseteq answers
    BY <1>3 DEF Vanish
  <2> QED BY <1>1, <1>3, <2>1, StillCards DEF Vanish
<1> QED BY <1>2, <1>3 DEF Environment

-----------------------------------------------------------------------------
(* Handing over. *)

\* The offer that a card names and an answer is to: in the inbox, of that card, to
\* the one who answers.
LEMMA AnswerFits ==
    ASSUME OffersInv, NEW a \in answers, NEW c \in Up, door[c].offer = a.msg
    PROVE  /\ a.msg \in DOMAIN inbox /\ inbox[a.msg] = [card |-> a.card, to |-> a.who]
           /\ c = a.card /\ door[c].to = a.who
<1>1. TypeOK /\ CardsNameOffers /\ AnswersToOffers
  BY OffersParts
<1>2. a.msg \in Message
  BY <1>1 DEF TypeOK, Answer
<1>3. Offered(c)
  BY <1>2, NoneAssumption DEF Offered
<1>4. a.msg \in DOMAIN inbox /\ inbox[a.msg] = [card |-> c, to |-> door[c].to]
  BY <1>1, <1>3 DEF CardsNameOffers
<1>5. inbox[a.msg] = [card |-> a.card, to |-> a.who]
  BY <1>1, <1>4 DEF AnswersToOffers
<1> QED BY <1>4, <1>5

\* An offer filed for good, cleared from the card that names it.
LEMMA FilingKeepsOffers ==
    ASSUME OffersInv, NEW m \in Message, NEW end \in OfferEnds, FileOffer(m, end, 2),
           answers' \subseteq answers, Up' = Up, closed' = closed,
           \A c \in Up :
              \/ door[c].offer = m /\ door'[c].offer = None
              \/ door[c].offer # m /\ door'[c].offer = door[c].offer /\ door'[c].to = door[c].to
    PROVE  CardsNameOffers' /\ OffersNameCards' /\ AnswersToOffers'
<1>1. TypeOK /\ CardsNameOffers /\ OffersNameCards /\ AnswersToOffers
  BY OffersParts
<1>2. /\ DOMAIN inbox' = DOMAIN inbox \ {m}
      /\ \A p \in DOMAIN inbox' : inbox'[p] = inbox[p] /\ filed'[p] = filed[p]
  BY <1>1 DEF FileOffer, Remove, TypeOK
<1>3. CardsNameOffers'
  <2> SUFFICES ASSUME NEW c \in Up, door'[c].offer # None
               PROVE  /\ door'[c].offer \in DOMAIN inbox'
                      /\ inbox'[door'[c].offer] = [card |-> c, to |-> door'[c].to]
    BY DEF CardsNameOffers, Offered
  <2>1. /\ door[c].offer # m /\ door'[c].offer = door[c].offer
        /\ door'[c].to = door[c].to /\ Offered(c)
    BY DEF Offered
  <2> QED BY <1>1, <1>2, <2>1 DEF CardsNameOffers
<1>4. OffersNameCards'
  <2> SUFFICES ASSUME NEW p \in DOMAIN inbox'
               PROVE  /\ filed'[p] = "open" /\ ~Fresh(inbox[p].card)'
                      /\ inbox'[p].card \in Up => door'[inbox'[p].card].offer = p
    BY DEF OffersNameCards
  <2>1. p \in DOMAIN inbox /\ p # m /\ inbox'[p] = inbox[p] /\ filed'[p] = filed[p]
    BY <1>2
  <2>2. /\ filed[p] = "open" /\ ~Fresh(inbox[p].card)
        /\ inbox[p].card \in Up => door[inbox[p].card].offer = p
    BY <1>1, <2>1 DEF OffersNameCards
  <2>3. ~Fresh(inbox[p].card)'
    BY <2>1, <2>2 DEF Fresh
  <2> QED BY <2>1, <2>2, <2>3
<1>5. AnswersToOffers'
  BY <1>1, <1>2 DEF AnswersToOffers
<1> QED BY <1>3, <1>4, <1>5

\* A new offer, the prior one withdrawn.
LEMMA HandoffKeepsOffers ==
    ASSUME "crash" \notin Faults, OffersInv, NEW s \in Session, NEW c \in Up, NEW m \in Message,
           NEW to \in Session, NEW force, Handoff(s, c, m, to, force)
    PROVE  LeasesMatchCards' /\ CardsNameOffers' /\ OffersNameCards' /\ AnswersToOffers'
<1>1. TypeOK /\ LeasesMatchCards /\ CardsNameOffers /\ OffersNameCards /\ AnswersToOffers
  BY OffersParts
<1> DEFINE Sent(k) ==
      /\ filed' = [p \in Message |-> IF p \in Prior(c) THEN "withdrawn" ELSE filed[p]]
      /\ inbox' = LET kept == IF k = 1 THEN inbox ELSE Remove(inbox, Prior(c))
                  IN IF k > 2 THEN Put(kept, m, [card |-> c, to |-> to]) ELSE kept
      /\ door' = IF k = 4 THEN [door EXCEPT ![c].offer = m, ![c].to = to] ELSE door
<1>2. Sent(4)
  <2>1. \E k \in Writes(4) : Sent(k)
    BY DEF Handoff
  <2>2. Writes(4) = {4}
    BY AllWrites
  <2> QED BY <2>1, <2>2
<1>3. /\ NewMessage(m) /\ answers' = answers /\ closed' = closed /\ lease' = lease
  BY DEF Handoff
<1>4. /\ Up' = Up /\ door'[c].offer = m /\ door'[c].to = to
      /\ \A d \in Up : d # c => door'[d] = door[d]
  BY <1>1, <1>2, UpTypes DEF Up, CardRecord
<1>5. /\ DOMAIN inbox' = (DOMAIN inbox \ Prior(c)) \cup {m}
      /\ inbox'[m] = [card |-> c, to |-> to]
      /\ \A p \in DOMAIN inbox' : p # m => inbox'[p] = inbox[p] /\ filed'[p] = filed[p]
  <2>1. inbox' = Put(Remove(inbox, Prior(c)), m, [card |-> c, to |-> to])
    BY <1>2
  <2>2. DOMAIN inbox \subseteq Message
    BY <1>1 DEF TypeOK
  <2> QED BY <1>2, <2>1, <2>2 DEF Put, Remove
<1>6. filed'[m] = "open"
  BY <1>2, <1>3 DEF NewMessage, Prior
<1>7. \A p \in DOMAIN inbox : inbox[p].card = c => p \in Prior(c)
  <2> SUFFICES ASSUME NEW p \in DOMAIN inbox, inbox[p].card = c PROVE p \in Prior(c)
    OBVIOUS
  <2>1. door[c].offer = p
    BY <1>1 DEF OffersNameCards
  <2>2. p # None
    BY <1>1, NoneAssumption DEF TypeOK
  <2>3. inbox[p] = [card |-> c, to |-> door[c].to]
    BY <1>1, <2>1, <2>2 DEF CardsNameOffers, Offered
  <2> QED BY <2>1, <2>3 DEF Prior
<1>8. CardsNameOffers'
  <2> SUFFICES ASSUME NEW d \in Up, door'[d].offer # None
               PROVE  /\ door'[d].offer \in DOMAIN inbox'
                      /\ inbox'[door'[d].offer] = [card |-> d, to |-> door'[d].to]
    BY <1>4 DEF CardsNameOffers, Offered
  <2>1. CASE d = c
    BY <1>4, <1>5, <2>1
  <2>2. CASE d # c
    <3>1. door'[d] = door[d] /\ Offered(d)
      BY <1>4, <2>2 DEF Offered
    <3>2. door[d].offer \in DOMAIN inbox /\ inbox[door[d].offer] = [card |-> d, to |-> door[d].to]
      BY <1>1, <3>1 DEF CardsNameOffers
    <3>3. door[d].offer \notin Prior(c)
      <4> SUFFICES ASSUME door[d].offer \in Prior(c) PROVE FALSE
        OBVIOUS
      <4>1. door[c].offer = door[d].offer /\ Offered(c)
        BY <3>1 DEF Prior, Offered
      <4>2. inbox[door[c].offer] = [card |-> c, to |-> door[c].to]
        BY <1>1, <4>1 DEF CardsNameOffers
      <4> QED BY <2>2, <3>2, <4>1, <4>2
    <3>4. door[d].offer # m
      BY <1>3, <3>2 DEF NewMessage
    <3> QED BY <1>5, <3>1, <3>2, <3>3, <3>4
  <2> QED BY <2>1, <2>2
<1>9. OffersNameCards'
  <2> SUFFICES ASSUME NEW p \in DOMAIN inbox'
               PROVE  /\ filed'[p] = "open" /\ ~Fresh(inbox[p].card)'
                      /\ inbox'[p].card \in Up => door'[inbox'[p].card].offer = p
    BY <1>4 DEF OffersNameCards
  <2>1. CASE p = m
    BY <1>4, <1>5, <1>6, <2>1 DEF Fresh
  <2>2. CASE p # m
    <3>1. p \in DOMAIN inbox /\ p \notin Prior(c) /\ inbox'[p] = inbox[p] /\ filed'[p] = filed[p]
      BY <1>5, <2>2
    <3>2. /\ filed[p] = "open" /\ ~Fresh(inbox[p].card) /\ inbox[p].card # c
          /\ inbox[p].card \in Up => door[inbox[p].card].offer = p
      BY <1>1, <1>7, <3>1 DEF OffersNameCards
    <3>3. ~Fresh(inbox[p].card)'
      BY <1>3, <1>4, <3>1, <3>2 DEF Fresh
    <3> QED BY <1>4, <3>1, <3>2, <3>3
  <2> QED BY <2>1, <2>2
<1>10. AnswersToOffers'
  BY <1>1, <1>3, <1>5 DEF AnswersToOffers, NewMessage
<1> QED BY <1>1, <1>3, <1>4, <1>8, <1>9, <1>10 DEF LeasesMatchCards, Up

\* The offer is accepted: nobody is invited any more.
LEMMA AcceptKeepsOffers ==
    ASSUME "crash" \notin Faults, OffersInv, NEW a \in answers, Accept(a)
    PROVE  /\ LeasesMatchCards' /\ CardsNameOffers' /\ OffersNameCards' /\ AnswersToOffers'
           /\ a.msg \in DOMAIN inbox /\ inbox[a.msg] = [card |-> a.card, to |-> a.who]
           /\ a.card \in Up /\ a.msg \in Message /\ FileOffer(a.msg, "accepted", 2)
           /\ door'[a.card].owner = a.who
           /\ \A c \in Up : c # a.card => door'[c] = door[c]
<1>1. TypeOK /\ LeasesMatchCards
  BY OffersParts
<1>2. /\ a.card \in Up /\ door[a.card].offer = a.msg /\ a.msg \in Message
      /\ answers' \subseteq answers /\ closed' = closed
  BY <1>1 DEF Accept, OfferIsLive, Acts, TypeOK, Answer
<1> DEFINE Taken(k) ==
      /\ door' = [door EXCEPT ![a.card].owner = a.who, ![a.card].proc = "command",
                              ![a.card].offer = None, ![a.card].to = None,
                              ![a.card].handed = TRUE,
                              ![a.card].age = IF k > 1 THEN 0 ELSE @]
      /\ lease' = IF k > 1 THEN Put(lease, a.card, a.who) ELSE lease
      /\ IF k > 2 THEN FileOffer(a.msg, "accepted", k - 2) ELSE UNCHANGED offerVars
<1>3. Taken(4)
  <2>1. \E k \in Writes(4) : Taken(k)
    BY DEF Accept
  <2>2. Writes(4) = {4}
    BY AllWrites
  <2> QED BY <2>1, <2>2
<1>4. /\ door' = [door EXCEPT ![a.card].owner = a.who, ![a.card].proc = "command",
                              ![a.card].offer = None, ![a.card].to = None,
                              ![a.card].handed = TRUE, ![a.card].age = 0]
      /\ lease' = Put(lease, a.card, a.who)
      /\ FileOffer(a.msg, "accepted", 4 - 2)
  BY <1>3
<1>5. FileOffer(a.msg, "accepted", 2)
  BY <1>4
<1>6. /\ Up' = Up /\ DOMAIN lease' = DOMAIN lease \cup {a.card}
      /\ door'[a.card].offer = None /\ door'[a.card].owner = a.who
      /\ \A c \in Up : c # a.card => door'[c] = door[c]
  BY <1>1, <1>2, <1>4, UpTypes DEF Up, Put, CardRecord
<1>7. \A c \in Up :
         \/ door[c].offer = a.msg /\ door'[c].offer = None
         \/ door[c].offer # a.msg /\ door'[c].offer = door[c].offer /\ door'[c].to = door[c].to
  BY <1>2, <1>6, AnswerFits
<1>8. CardsNameOffers' /\ OffersNameCards' /\ AnswersToOffers'
  <2>1. "accepted" \in OfferEnds
    BY DEF OfferEnds
  <2> QED BY <1>2, <1>5, <1>6, <1>7, <2>1, FilingKeepsOffers
<1> QED BY <1>1, <1>2, <1>5, <1>6, <1>8, AnswerFits DEF LeasesMatchCards, Up

\* The offer that is answered too late is not the one its card names, nor any other's.
LEMMA AcceptTooLateKeepsOffers ==
    ASSUME "crash" \notin Faults, OffersInv, NEW a \in answers, AcceptTooLate(a)
    PROVE  LeasesMatchCards' /\ CardsNameOffers' /\ OffersNameCards' /\ AnswersToOffers'
<1>1. TypeOK /\ LeasesMatchCards
  BY OffersParts
<1>2. /\ a.msg \in Message /\ answers' \subseteq answers
      /\ door' = door /\ lease' = lease /\ closed' = closed
  BY <1>1 DEF AcceptTooLate, Acts, TypeOK, Answer, cardVars
<1>3. FileOffer(a.msg, "expired", 2)
  <2>1. Writes(2) = {2}
    BY AllWrites
  <2> QED BY <2>1 DEF AcceptTooLate
<1>4. \A c \in Up : door[c].offer # a.msg
  BY AnswerFits DEF AcceptTooLate, OfferIsLive
<1>5. "expired" \in OfferEnds
  BY DEF OfferEnds
<1>6. CardsNameOffers' /\ OffersNameCards' /\ AnswersToOffers'
  BY <1>2, <1>3, <1>4, <1>5, FilingKeepsOffers DEF Up
<1> QED BY <1>1, <1>2, <1>6 DEF LeasesMatchCards, Up

\* The offer is declined: cleared from the card, if the card names it.
LEMMA DeclineKeepsOffers ==
    ASSUME "crash" \notin Faults, OffersInv, NEW a \in answers, Decline(a)
    PROVE  /\ LeasesMatchCards' /\ CardsNameOffers' /\ OffersNameCards' /\ AnswersToOffers'
           /\ \A c \in Up : door'[c].owner = door[c].owner
<1>1. TypeOK /\ LeasesMatchCards
  BY OffersParts
<1>2. a.msg \in Message /\ answers' \subseteq answers /\ lease' = lease /\ closed' = closed
  BY <1>1 DEF Decline, Acts, TypeOK, Answer
<1>3. "declined" \in OfferEnds
  BY DEF OfferEnds
<1>4. CASE a.card \in Up /\ door[a.card].offer = a.msg
  <2> DEFINE Cleared(k) ==
        /\ door' = [door EXCEPT ![a.card].offer = None, ![a.card].to = None]
        /\ IF k > 1 THEN FileOffer(a.msg, "declined", k - 1) ELSE UNCHANGED offerVars
  <2>1. Cleared(3)
    <3>1. \E k \in Writes(3) : Cleared(k)
      BY <1>4 DEF Decline
    <3>2. Writes(3) = {3}
      BY AllWrites
    <3> QED BY <3>1, <3>2
  <2>2. /\ door' = [door EXCEPT ![a.card].offer = None, ![a.card].to = None]
        /\ FileOffer(a.msg, "declined", 3 - 1)
    BY <2>1
  <2>3. FileOffer(a.msg, "declined", 2)
    BY <2>2
  <2>4. /\ Up' = Up /\ door'[a.card].offer = None
        /\ \A c \in Up : door'[c].owner = door[c].owner /\ (c # a.card => door'[c] = door[c])
    BY <1>1, <1>4, <2>2, UpTypes DEF Up, CardRecord
  <2>5. \A c \in Up :
           \/ door[c].offer = a.msg /\ door'[c].offer = None
           \/ door[c].offer # a.msg /\ door'[c].offer = door[c].offer /\ door'[c].to = door[c].to
    BY <1>4, <2>4, AnswerFits
  <2>6. CardsNameOffers' /\ OffersNameCards' /\ AnswersToOffers'
    BY <1>2, <1>3, <2>3, <2>4, <2>5, FilingKeepsOffers
  <2> QED BY <1>1, <1>2, <2>4, <2>6 DEF LeasesMatchCards, Up
<1>5. CASE ~(a.card \in Up /\ door[a.card].offer = a.msg)
  <2>1. door' = door
    BY <1>5 DEF Decline
  <2>2. FileOffer(a.msg, "declined", 2)
    <3>1. Writes(2) = {2}
      BY AllWrites
    <3> QED BY <1>5, <3>1 DEF Decline
  <2>3. \A c \in Up : door[c].offer # a.msg
    BY <1>5, AnswerFits
  <2>4. CardsNameOffers' /\ OffersNameCards' /\ AnswersToOffers'
    BY <1>2, <1>3, <2>1, <2>2, <2>3, FilingKeepsOffers DEF Up
  <2> QED BY <1>1, <1>2, <2>1, <2>4 DEF LeasesMatchCards, Up
<1> QED BY <1>4, <1>5

-----------------------------------------------------------------------------
(* The theorems. *)

LEMMA OffersInit == Init => OffersInv
<1> SUFFICES ASSUME Init PROVE OffersInv
  OBVIOUS
<1>1. TypeOK
  BY TypeInit
<1>2. DOMAIN door = {} /\ DOMAIN lease = {} /\ DOMAIN inbox = {} /\ answers = {}
  BY DEF Init
<1> QED BY <1>1, <1>2 DEF OffersInv, LeasesMatchCards, Up

LEMMA OffersStep ==
    ASSUME "crash" \notin Faults
    PROVE  OffersInv /\ [Next]_vars => OffersInv'
<1> SUFFICES ASSUME OffersInv, [Next]_vars PROVE OffersInv'
  OBVIOUS
<1>1. TypeOK /\ LeasesMatchCards /\ CardsNameOffers /\ OffersNameCards /\ AnswersToOffers
  BY OffersParts
<1>2. TypeOK'
  BY <1>1, TypeStep
<1>3. ASSUME LeasesMatchCards', KeepsOffers PROVE OffersInv'
  BY <1>2, <1>3, KeepsOffersSound
<1>4. ASSUME LeasesMatchCards', CardsNameOffers', OffersNameCards', AnswersToOffers'
      PROVE  OffersInv'
  BY <1>2, <1>4 DEF OffersInv, CardsNameOffers, OffersNameCards, AnswersToOffers
<1>5. ASSUME NEW s \in Session, Claiming(s) \/ TakingDown(s) \/ Renewing(s) PROVE OffersInv'
  BY <1>3, <1>5, ClaimingKeepsOffers, TakingDownKeepsOffers, RenewingKeepsOffers
<1>6. ASSUME NEW s \in Session, Offering(s) PROVE OffersInv'
  <2>1. ASSUME NEW c \in Up, NEW m \in Message, NEW to \in Session, NEW force \in MayForce,
               Handoff(s, c, m, to, force)
        PROVE  OffersInv'
    BY <1>4, <2>1, HandoffKeepsOffers
  <2>2. ASSUME NEW m \in DOMAIN inbox, NEW verb \in {"accept", "decline"}, FindOffer(s, m, verb)
        PROVE  OffersInv'
    <3>1. /\ UNCHANGED <<cardVars, offerVars>>
          /\ answers' = answers \cup {[who |-> s, msg |-> m, card |-> inbox[m].card, verb |-> verb]}
          /\ inbox[m].to = s /\ inbox[m] \in Offer
      BY <1>1, <2>2 DEF FindOffer, TypeOK
    <3>2. inbox[m] = [card |-> inbox[m].card, to |-> s]
      BY <3>1 DEF Offer
    <3>3. AnswersToOffers'
      BY <1>1, <3>1, <3>2 DEF AnswersToOffers, offerVars
    <3>4. LeasesMatchCards' /\ CardsNameOffers' /\ OffersNameCards'
      BY <1>1, <3>1 DEF LeasesMatchCards, CardsNameOffers, OffersNameCards, Offered, Up, Fresh,
                        cardVars, offerVars
    <3> QED BY <1>4, <3>3, <3>4
  <2> QED BY <1>6, <2>1, <2>2 DEF Offering
<1>7. ASSUME Answers PROVE OffersInv'
  BY <1>4, <1>7, AcceptKeepsOffers, AcceptTooLateKeepsOffers, DeclineKeepsOffers DEF Answers
<1>8. ASSUME Environment PROVE OffersInv'
  BY <1>3, <1>8, EnvironmentKeepsOffers
<1>9. CASE UNCHANGED vars
  <2>1. LeasesMatchCards' /\ KeepsOffers
    BY <1>1, <1>9, StillCards DEF vars, cardVars, offerVars
  <2> QED BY <1>3, <2>1
<1> QED BY <1>5, <1>6, <1>7, <1>8, <1>9 DEF Next, Commands

\* Cards and offers name one another, in every reachable state of any household whose
\* processes live through their writes.
THEOREM OffersInvHolds ==
    ASSUME "crash" \notin Faults
    PROVE  Spec => []OffersInv
<1>1. OffersInv /\ [Next]_vars => OffersInv'
  BY OffersStep
<1> QED BY OffersInit, <1>1, PTL DEF Spec

LEMMA OneOfferEach == OffersInv => OneOpenOffer
<1> SUFFICES ASSUME OffersInv, NEW c \in Up
             PROVE  {m \in DOMAIN inbox : inbox[m].card = c}
                      = {m \in {door[c].offer} : m # None /\ inbox[m].to = door[c].to}
  BY DEF OneOpenOffer
<1>1. TypeOK /\ CardsNameOffers /\ OffersNameCards
  BY OffersParts
<1>2. None \notin DOMAIN inbox
  BY <1>1, NoneAssumption DEF TypeOK
<1>3. ASSUME NEW m \in DOMAIN inbox, inbox[m].card = c
      PROVE  m = door[c].offer /\ m # None /\ inbox[m].to = door[c].to
  <2>1. m = door[c].offer /\ m # None
    BY <1>1, <1>2, <1>3 DEF OffersNameCards
  <2>2. inbox[m] = [card |-> c, to |-> door[c].to]
    BY <1>1, <2>1 DEF CardsNameOffers, Offered
  <2> QED BY <2>1, <2>2
<1>4. ASSUME door[c].offer # None
      PROVE  door[c].offer \in DOMAIN inbox /\ inbox[door[c].offer].card = c
  <2>1. /\ door[c].offer \in DOMAIN inbox
        /\ inbox[door[c].offer] = [card |-> c, to |-> door[c].to]
    BY <1>1, <1>4 DEF CardsNameOffers, Offered
  <2> QED BY <2>1
<1> QED BY <1>3, <1>4

\* A card that is up is offered exactly when one offer of it lies in an inbox, that of
\* the housemate it names (cmdHandoff, cmdAccept, cmdDecline).
THEOREM OneOpenOfferHolds ==
    ASSUME "crash" \notin Faults
    PROVE  Spec => []OneOpenOffer
<1>1. OffersInv /\ [Next]_vars => OffersInv'
  BY OffersStep
<1> QED BY OffersInit, <1>1, OneOfferEach, PTL DEF Spec

\* No lease without its card, no card without its lease (cmdRun, RenewOwnLeases).
THEOREM LeasesMatchCardsHolds ==
    ASSUME "crash" \notin Faults
    PROVE  Spec => []LeasesMatchCards
<1>1. OffersInv /\ [Next]_vars => OffersInv'
  BY OffersStep
<1>2. OffersInv => LeasesMatchCards
  BY DEF OffersInv
<1> QED BY OffersInit, <1>1, <1>2, PTL DEF Spec

-----------------------------------------------------------------------------
(* Whose card it is. *)

OwnersStay == \A c \in Up \cap Up' : door'[c].owner = door[c].owner

LEMMA ClaimingKeepsOwners ==
    ASSUME TypeOK, NEW s \in Session, Claiming(s)
    PROVE  OwnersStay
<1>1. CASE SweepToClaim(s)
  BY <1>1 DEF SweepToClaim, ReapStale, ArchiveClaims, Remove, Up, OwnersStay
<1>2. CASE Decide(s)
  <2>1. PICK mode \in Modes, scope \in {x \in Scope : x.include # {}} :
          \/ Denied(s, mode, scope)
          \/ \E c \in Card, run \in BOOLEAN :
               \/ Merge(s, mode, scope, c, run)
               \/ \E strict \in BOOLEAN : TakeCard(s, mode, scope, c, strict, run)
    BY <1>2 DEF Decide
  <2>2. CASE Denied(s, mode, scope)
    BY <2>2 DEF Denied, cardVars, OwnersStay
  <2>3. ASSUME NEW c \in Card, NEW run \in BOOLEAN, Merge(s, mode, scope, c, run)
        PROVE  OwnersStay
    <3>1. PICK k : door' = [door EXCEPT ![c].scope.include = @ \cup scope.include,
                                        ![c].age = IF k = 2 THEN 0 ELSE @]
      BY <2>3 DEF Merge
    <3> QED BY <3>1, UpTypes DEF OwnersStay, Up, CardRecord
  <2>4. ASSUME NEW c \in Card, NEW run \in BOOLEAN, NEW strict \in BOOLEAN,
               TakeCard(s, mode, scope, c, strict, run)
        PROVE  OwnersStay
    <3>1. PICK rec : door' = Put(door, c, rec)
      BY <2>4 DEF TakeCard
    <3>2. c \notin Up
      BY <2>4 DEF TakeCard, Fresh
    <3> QED BY <3>1, <3>2 DEF OwnersStay, Up, Put
  <2> QED BY <2>1, <2>2, <2>3, <2>4
<1>3. CASE ClaimFails(s)
  BY <1>3 DEF ClaimFails, cardVars, OwnersStay
<1> QED BY <1>1, <1>2, <1>3 DEF Claiming

LEMMA OthersKeepOwners ==
    ASSUME TypeOK, NEW s \in Session, TakingDown(s) \/ Renewing(s) \/ Offering(s)
    PROVE  OwnersStay
<1>1. CASE TakingDown(s)
  <2>1. door' = door \/ \E S : door' = Remove(door, S)
    BY <1>1 DEF TakingDown, Reap, ReapStale, Release, ReleaseAll, RunEnds, ArchiveClaims, cardVars
  <2> QED BY <2>1 DEF OwnersStay, Up, Remove
<1>2. CASE Renewing(s)
  <2>1. PICK S : WriteLease(S, s)
    BY <1>2 DEF Renewing, Heartbeat, RenewOwnLeases, Extend, RunHeartbeat
  <2> QED BY <2>1, UpTypes DEF WriteLease, OwnersStay, CardRecord
<1>3. CASE Offering(s)
  <2>1. ASSUME NEW c \in Up, NEW m, NEW to, NEW force, Handoff(s, c, m, to, force)
        PROVE  OwnersStay
    <3>1. door' = door \/ door' = [door EXCEPT ![c].offer = m, ![c].to = to]
      BY <2>1 DEF Handoff
    <3> QED BY <3>1, UpTypes DEF OwnersStay, Up, CardRecord
  <2>2. ASSUME NEW m, NEW verb, FindOffer(s, m, verb) PROVE OwnersStay
    BY <2>2 DEF FindOffer, cardVars, OwnersStay
  <2> QED BY <1>3, <2>1, <2>2 DEF Offering
<1> QED BY <1>1, <1>2, <1>3

LEMMA EnvironmentKeepsOwners ==
    ASSUME TypeOK, Environment
    PROVE  OwnersStay
<1>1. ASSUME NEW c \in Up, AgeCard(c) \/ ProcessEnds(c) PROVE OwnersStay
  <2>1. \/ door' = [door EXCEPT ![c].age = @ + 1]
        \/ door' = [door EXCEPT ![c].proc = "ended"]
    BY <1>1 DEF AgeCard, ProcessEnds
  <2> QED BY <2>1, UpTypes DEF OwnersStay, Up, CardRecord
<1>2. ASSUME NEW s \in Session, Vanish(s) PROVE OwnersStay
  BY <1>2 DEF Vanish, cardVars, OwnersStay
<1> QED BY <1>1, <1>2 DEF Environment

\* What a change of hands takes: an open offer to the new owner, used up by it.
ByOpenOffer ==
    \A c \in Up \cap Up' : door'[c].owner # door[c].owner =>
        \E m \in DOMAIN inbox \ DOMAIN inbox' :
            /\ inbox[m] = [card |-> c, to |-> door'[c].owner]
            /\ filed[m] = "open" /\ filed'[m] = "accepted"

LEMMA HandsStep ==
    ASSUME "crash" \notin Faults, OffersInv, [Next]_vars
    PROVE  ByOpenOffer
<1>1. TypeOK /\ OffersNameCards
  BY OffersParts
<1>2. ASSUME OwnersStay PROVE ByOpenOffer
  BY <1>2 DEF OwnersStay, ByOpenOffer
<1>3. ASSUME NEW a \in answers, Accept(a) PROVE ByOpenOffer
  <2>1. /\ a.msg \in DOMAIN inbox /\ inbox[a.msg] = [card |-> a.card, to |-> a.who]
        /\ a.msg \in Message /\ FileOffer(a.msg, "accepted", 2)
        /\ door'[a.card].owner = a.who
        /\ \A c \in Up : c # a.card => door'[c] = door[c]
    BY <1>3, AcceptKeepsOffers
  <2>2. filed[a.msg] = "open"
    BY <1>1, <2>1 DEF OffersNameCards
  <2>3. a.msg \notin DOMAIN inbox' /\ filed'[a.msg] = "accepted"
    BY <1>1, <2>1 DEF FileOffer, Remove, TypeOK
  <2> QED BY <2>1, <2>2, <2>3 DEF ByOpenOffer
<1>4. ASSUME NEW a \in answers, AcceptTooLate(a) PROVE ByOpenOffer
  BY <1>2, <1>4 DEF AcceptTooLate, cardVars, OwnersStay
<1>5. ASSUME NEW a \in answers, Decline(a) PROVE ByOpenOffer
  BY <1>2, <1>5, DeclineKeepsOffers DEF OwnersStay
<1>6. CASE UNCHANGED vars
  BY <1>2, <1>6 DEF vars, cardVars, OwnersStay
<1> QED BY <1>1, <1>2, <1>3, <1>4, <1>5, <1>6, ClaimingKeepsOwners, OthersKeepOwners,
           EnvironmentKeepsOwners DEF Next, Commands, Answers

\* A card changes hands only by an offer that lies unanswered in the new owner's inbox
\* and is used up by it: an old invitation cannot move it a second time (cmdAccept).
THEOREM HandsChangeByOpenOfferHolds ==
    ASSUME "crash" \notin Faults
    PROVE  Spec => HandsChangeByOpenOffer
<1>1. OffersInv /\ [Next]_vars => OffersInv'
  BY OffersStep
<1>2. OffersInv /\ [Next]_vars =>
        [\A c \in Up \cap Up' : door'[c].owner # door[c].owner =>
            \E m \in DOMAIN inbox \ DOMAIN inbox' :
                /\ inbox[m] = [card |-> c, to |-> door'[c].owner]
                /\ filed[m] = "open" /\ filed'[m] = "accepted"]_vars
  BY HandsStep DEF ByOpenOffer
<1> QED BY OffersInit, <1>1, <1>2, PTL DEF Spec, HandsChangeByOpenOffer

-----------------------------------------------------------------------------
(* What is left on record, whoever dies and when. *)

\* An offer that somebody can still find: in an inbox, or with its end in archive/.
Known(m) == m \in DOMAIN inbox \/ filed[m] # "open"

KeepsRecord ==
    /\ DOMAIN lease' \subseteq DOMAIN lease \cup Up'
    /\ \A c \in Card : Fresh(c)' => Fresh(c)
    /\ \A m \in Message : Known(m) => Known(m)'
    /\ \A c \in Up' :
          \/ door'[c].offer = None
          \/ c \in Up /\ door'[c].offer = door[c].offer
          \/ door'[c].offer \in DOMAIN inbox'

LEMMA KeepsRecordSound ==
    ASSUME TypeOK, TypeOK', NothingLost, KeepsRecord
    PROVE  NothingLost'
<1>1. ASSUME NEW c \in DOMAIN lease' PROVE c \in Up' \/ closed'[c] # "open"
  <2>1. c \in Card
    BY <1>1 DEF TypeOK
  <2>2. CASE c \in Up'
    BY <2>2
  <2>3. CASE c \in DOMAIN lease
    <3>1. ~Fresh(c)
      BY <2>3 DEF NothingLost, Fresh
    <3>2. ~Fresh(c)'
      BY <2>1, <3>1 DEF KeepsRecord
    <3> QED BY <3>2 DEF Fresh
  <2> QED BY <1>1, <2>2, <2>3 DEF KeepsRecord
<1>2. ASSUME NEW c \in Up', door'[c].offer # None
      PROVE  door'[c].offer \in DOMAIN inbox' \/ filed'[door'[c].offer] # "open"
  <2>1. CASE door'[c].offer \in DOMAIN inbox'
    BY <2>1
  <2>2. CASE c \in Up /\ door'[c].offer = door[c].offer
    <3>1. Offered(c) /\ door[c] \in CardRecord
      BY <1>2, <2>2, UpTypes DEF Offered
    <3>2. door[c].offer \in Message /\ Known(door[c].offer)
      BY <2>2, <3>1 DEF CardRecord, Offered, NothingLost, Known
    <3>3. door[c].offer \in DOMAIN inbox' \/ filed'[door[c].offer] # "open"
      BY <3>2 DEF KeepsRecord, Known
    <3> QED BY <2>2, <3>3
  <2> QED BY <1>2, <2>1, <2>2 DEF KeepsRecord
<1> QED BY <1>1, <1>2 DEF NothingLost, Offered

\* Cards are archived before they are unlinked, and their leases go last (ArchiveClaim).
LEMMA ArchiveKeepsRecord ==
    ASSUME TypeOK, NEW S \in SUBSET Card, NEW t \in Torn(S), NEW end \in [Card -> CardEnds],
           ArchiveClaims(t, end), UNCHANGED offerVars
    PROVE  KeepsRecord
<1>1. t.done \subseteq t.down /\ t.down \subseteq t.archived
  BY DEF Torn, AllOf
<1>2. /\ closed' = [c \in Card |-> IF c \in t.archived THEN end[c] ELSE closed[c]]
      /\ Up' = Up \ t.down /\ DOMAIN lease' = DOMAIN lease \ t.done
      /\ \A c \in Up' : door'[c] = door[c]
  BY DEF ArchiveClaims, Remove, Up
<1>3. \A c \in Card : Fresh(c)' => Fresh(c)
  BY <1>1, <1>2 DEF Fresh, CardEnds
<1> QED BY <1>2, <1>3 DEF KeepsRecord, Known, offerVars

\* A step that takes no card down, and is not about offers.
LEMMA StillKeepsRecord ==
    ASSUME Up \subseteq Up', closed' = closed, UNCHANGED offerVars,
           DOMAIN lease' \subseteq DOMAIN lease \cup Up',
           \A c \in Up' : door'[c].offer = None \/ (c \in Up /\ door'[c].offer = door[c].offer)
    PROVE  KeepsRecord
BY DEF KeepsRecord, Fresh, Known, offerVars

\* An offer that is filed is in archive/ before it leaves its inbox (ArchiveMessage).
LEMMA FilingKeepsRecord ==
    ASSUME TypeOK, NEW m \in Message, NEW end \in OfferEnds, NEW k, FileOffer(m, end, k),
           Up' = Up, closed' = closed, DOMAIN lease' \subseteq DOMAIN lease \cup Up',
           \A c \in Up : door'[c].offer = None \/ door'[c].offer = door[c].offer
    PROVE  KeepsRecord
<1>1. /\ filed' = [filed EXCEPT ![m] = end] /\ end # "open"
      /\ inbox' = inbox \/ inbox' = Remove(inbox, {m})
  BY DEF FileOffer, OfferEnds
<1>2. \A p \in Message : Known(p) => Known(p)'
  BY <1>1 DEF Known, TypeOK, Remove
<1> QED BY <1>2 DEF KeepsRecord, Fresh

LEMMA ClaimingKeepsRecord ==
    ASSUME TypeOK, NEW s \in Session, Claiming(s)
    PROVE  KeepsRecord
<1>1. CASE SweepToClaim(s)
  <2> DEFINE S == FallenCards(s, FALSE)
  <2>1. S \in SUBSET Card /\ [c \in Card |-> "expired"] \in [Card -> CardEnds]
    BY UpTypes DEF FallenCards, CardEnds
  <2>2. \A c, d \in AllOf(S).archived \ AllOf(S).done : c = d
    BY DEF AllOf
  <2>3. AllOf(S) \in Torn(S)
    BY <2>2 DEF Torn, AllOf
  <2>4. ArchiveClaims(AllOf(S), [c \in Card |-> "expired"]) /\ UNCHANGED offerVars
    BY <1>1 DEF SweepToClaim, ReapStale
  <2> QED BY <2>1, <2>3, <2>4, ArchiveKeepsRecord
<1>2. CASE Decide(s)
  <2>1. PICK mode \in Modes, scope \in {x \in Scope : x.include # {}} :
          \/ Denied(s, mode, scope)
          \/ \E c \in Card, run \in BOOLEAN :
               \/ Merge(s, mode, scope, c, run)
               \/ \E strict \in BOOLEAN : TakeCard(s, mode, scope, c, strict, run)
    BY <1>2 DEF Decide
  <2>2. CASE Denied(s, mode, scope)
    BY <2>2, StillKeepsRecord DEF Denied, cardVars, Up
  <2>3. ASSUME NEW c \in Card, NEW run \in BOOLEAN, Merge(s, mode, scope, c, run)
        PROVE  KeepsRecord
    <3>1. PICK k \in Writes(2) :
             /\ door' = [door EXCEPT ![c].scope.include = @ \cup scope.include,
                                     ![c].age = IF k = 2 THEN 0 ELSE @]
             /\ lease' = IF k = 2 THEN Put(lease, c, s) ELSE lease
      BY <2>3 DEF Merge
    <3>2. c \in Up /\ closed' = closed /\ UNCHANGED offerVars
      BY <2>3 DEF Merge, MineOverlapping, Existing
    <3>3. Up' = Up /\ \A d \in Up : door'[d].offer = door[d].offer
      BY <3>1, UpTypes DEF Up, CardRecord
    <3>4. DOMAIN lease' \subseteq DOMAIN lease \cup Up'
      BY <3>1, <3>2, <3>3 DEF Put
    <3> QED BY <3>2, <3>3, <3>4, StillKeepsRecord
  <2>4. ASSUME NEW c \in Card, NEW run \in BOOLEAN, NEW strict \in BOOLEAN,
               TakeCard(s, mode, scope, c, strict, run)
        PROVE  KeepsRecord
    <3>1. PICK rec : door' = Put(door, c, rec) /\ rec.offer = None
      BY <2>4 DEF TakeCard
    <3>2. lease' = lease \/ lease' = Put(lease, c, s)
      BY <2>4 DEF TakeCard
    <3>3. closed' = closed /\ UNCHANGED offerVars
      BY <2>4 DEF TakeCard
    <3>4. /\ Up' = Up \cup {c} /\ door'[c].offer = None
          /\ \A d \in Up : d # c => door'[d] = door[d]
      BY <3>1 DEF Put, Up
    <3>5. DOMAIN lease' \subseteq DOMAIN lease \cup Up'
      BY <3>2, <3>4 DEF Put
    <3> QED BY <3>3, <3>4, <3>5, StillKeepsRecord
  <2> QED BY <2>1, <2>2, <2>3, <2>4
<1>3. CASE ClaimFails(s)
  BY <1>3, StillKeepsRecord DEF ClaimFails, cardVars, Up
<1> QED BY <1>1, <1>2, <1>3 DEF Claiming

LEMMA TakingDownKeepsRecord ==
    ASSUME TypeOK, NEW s \in Session, TakingDown(s)
    PROVE  KeepsRecord
<1>1. CASE cardVars' = cardVars /\ offerVars' = offerVars
  BY <1>1, StillKeepsRecord DEF cardVars, Up
<1>2. CASE \E S \in SUBSET Card, end \in [Card -> CardEnds] :
             \E t \in Torn(S) : ArchiveClaims(t, end) /\ UNCHANGED offerVars
  BY <1>2, ArchiveKeepsRecord
<1>3. ASSUME NEW force, Reap(s, force) PROVE KeepsRecord
  <2>1. FallenCards(s, force) \in SUBSET Card /\ [c \in Card |-> "expired"] \in [Card -> CardEnds]
    BY UpTypes DEF FallenCards, CardEnds
  <2> QED BY <1>2, <1>3, <2>1 DEF Reap, ReapStale
<1>4. ASSUME NEW S \in SUBSET Up, NEW force, Release(s, S, force) PROVE KeepsRecord
  <2>1. S \in SUBSET Card
    BY UpTypes
  <2> QED BY <1>2, <1>4, <2>1, EndTypes DEF Release
<1>5. ASSUME ReleaseAll(s) PROVE KeepsRecord
  <2>1. OwnCards(s) \in SUBSET Card
    BY UpTypes DEF OwnCards
  <2> QED BY <1>2, <1>5, <2>1, EndTypes DEF ReleaseAll
<1>6. ASSUME RunEnds(s) PROVE KeepsRecord
  <2>1. UNCHANGED offerVars
    BY <1>6 DEF RunEnds
  <2>2. CASE UNCHANGED cardVars
    BY <1>1, <2>1, <2>2
  <2>3. CASE running[s] \in Up /\ \E t \in Torn({running[s]}) : ArchiveClaims(t, EndBy(s))
    <3>1. {running[s]} \in SUBSET Card
      BY <2>3, UpTypes
    <3> QED BY <1>2, <2>1, <2>3, <3>1, EndTypes
  <2> QED BY <1>6, <2>2, <2>3 DEF RunEnds
<1> QED BY <1>3, <1>4, <1>5, <1>6 DEF TakingDown

LEMMA OfferingKeepsRecord ==
    ASSUME TypeOK, NEW s \in Session, Offering(s)
    PROVE  KeepsRecord
<1>1. ASSUME NEW c \in Up, NEW m \in Message, NEW to \in Session, NEW force,
             Handoff(s, c, m, to, force)
      PROVE  KeepsRecord
  <2>1. PICK k \in Writes(4) :
          /\ filed' = [p \in Message |-> IF p \in Prior(c) THEN "withdrawn" ELSE filed[p]]
          /\ inbox' = LET kept == IF k = 1 THEN inbox ELSE Remove(inbox, Prior(c))
                      IN IF k > 2 THEN Put(kept, m, [card |-> c, to |-> to]) ELSE kept
          /\ door' = IF k = 4 THEN [door EXCEPT ![c].offer = m, ![c].to = to] ELSE door
    BY <1>1 DEF Handoff
  <2>2. closed' = closed /\ lease' = lease
    BY <1>1 DEF Handoff
  <2>3. /\ DOMAIN inbox \ Prior(c) \subseteq DOMAIN inbox'
        /\ k = 4 => m \in DOMAIN inbox'
    <3> DEFINE kept == IF k = 1 THEN inbox ELSE Remove(inbox, Prior(c))
    <3>1. DOMAIN inbox \ Prior(c) \subseteq DOMAIN kept
      BY DEF Remove
    <3>2. inbox' = IF k > 2 THEN Put(kept, m, [card |-> c, to |-> to]) ELSE kept
      BY <2>1
    <3> HIDE DEF kept
    <3> QED BY <3>1, <3>2 DEF Put
  <2>4. \A p \in Message : Known(p) => Known(p)'
    BY <2>1, <2>3 DEF Known
  <2>5. /\ Up' = Up
        /\ \A d \in Up : door'[d].offer = door[d].offer \/ (k = 4 /\ door'[d].offer = m)
    <3>1. CASE k = 4
      <4>1. door' = [door EXCEPT ![c].offer = m, ![c].to = to]
        BY <2>1, <3>1
      <4> QED BY <3>1, <4>1, UpTypes DEF Up, CardRecord
    <3>2. CASE k # 4
      BY <2>1, <3>2 DEF Up
    <3> QED BY <3>1, <3>2
  <2> QED BY <2>2, <2>3, <2>4, <2>5 DEF KeepsRecord, Fresh
<1>2. ASSUME NEW m, NEW verb, FindOffer(s, m, verb) PROVE KeepsRecord
  BY <1>2, StillKeepsRecord DEF FindOffer, cardVars, Up
<1> QED BY <1>1, <1>2 DEF Offering

LEMMA AnswerKeepsRecord ==
    ASSUME TypeOK, NEW a \in answers, Accept(a) \/ AcceptTooLate(a) \/ Decline(a)
    PROVE  KeepsRecord
<1>1. a.msg \in Message /\ closed' = closed
  BY DEF TypeOK, Answer, Accept, AcceptTooLate, Decline, cardVars
<1>2. {"accepted", "expired", "declined"} \subseteq OfferEnds
  BY DEF OfferEnds
<1>3. ASSUME NEW end \in {"accepted", "expired", "declined"},
             UNCHANGED offerVars \/ \E k : FileOffer(a.msg, end, k),
             Up' = Up, DOMAIN lease' \subseteq DOMAIN lease \cup Up',
             \A c \in Up : door'[c].offer = None \/ door'[c].offer = door[c].offer
      PROVE  KeepsRecord
  <2>1. CASE UNCHANGED offerVars
    BY <1>1, <1>3, <2>1, StillKeepsRecord
  <2>2. CASE \E k : FileOffer(a.msg, end, k)
    BY <1>1, <1>2, <1>3, <2>2, FilingKeepsRecord
  <2> QED BY <1>3, <2>1, <2>2
<1>4. CASE Accept(a)
  <2>1. a.card \in Up
    BY <1>4 DEF Accept, OfferIsLive
  <2>2. PICK k \in Writes(4) :
          /\ door' = [door EXCEPT ![a.card].owner = a.who, ![a.card].proc = "command",
                                  ![a.card].offer = None, ![a.card].to = None,
                                  ![a.card].handed = TRUE,
                                  ![a.card].age = IF k > 1 THEN 0 ELSE @]
          /\ lease' = IF k > 1 THEN Put(lease, a.card, a.who) ELSE lease
          /\ IF k > 2 THEN FileOffer(a.msg, "accepted", k - 2) ELSE UNCHANGED offerVars
    BY <1>4 DEF Accept
  <2>3. /\ Up' = Up
        /\ \A c \in Up : door'[c].offer = None \/ door'[c].offer = door[c].offer
    BY <2>1, <2>2, UpTypes DEF Up, CardRecord
  <2>4. DOMAIN lease' \subseteq DOMAIN lease \cup Up'
    BY <2>1, <2>2, <2>3 DEF Put
  <2>5. UNCHANGED offerVars \/ \E n : FileOffer(a.msg, "accepted", n)
    BY <2>2
  <2> QED BY <1>3, <2>3, <2>4, <2>5
<1>5. CASE AcceptTooLate(a)
  <2>1. \E k : FileOffer(a.msg, "expired", k)
    BY <1>5 DEF AcceptTooLate
  <2>2. door' = door /\ lease' = lease
    BY <1>5 DEF AcceptTooLate, cardVars
  <2> QED BY <1>3, <2>1, <2>2 DEF Up
<1>6. CASE Decline(a)
  <2>1. lease' = lease
    BY <1>6 DEF Decline
  <2>2. CASE a.card \in Up /\ door[a.card].offer = a.msg
    <3>1. PICK k \in Writes(3) :
            /\ door' = [door EXCEPT ![a.card].offer = None, ![a.card].to = None]
            /\ IF k > 1 THEN FileOffer(a.msg, "declined", k - 1) ELSE UNCHANGED offerVars
      BY <1>6, <2>2 DEF Decline
    <3>2. /\ Up' = Up
          /\ \A c \in Up : door'[c].offer = None \/ door'[c].offer = door[c].offer
      BY <2>2, <3>1, UpTypes DEF Up, CardRecord
    <3>3. UNCHANGED offerVars \/ \E n : FileOffer(a.msg, "declined", n)
      BY <3>1
    <3> QED BY <1>3, <2>1, <3>2, <3>3
  <2>3. CASE ~(a.card \in Up /\ door[a.card].offer = a.msg)
    <3>1. door' = door /\ \E k : FileOffer(a.msg, "declined", k)
      BY <1>6, <2>3 DEF Decline
    <3> QED BY <1>3, <2>1, <3>1 DEF Up
  <2> QED BY <2>2, <2>3
<1> QED BY <1>4, <1>5, <1>6

LEMMA RecordStep == TypeOK /\ NothingLost /\ [Next]_vars => NothingLost'
<1> SUFFICES ASSUME TypeOK, NothingLost, [Next]_vars PROVE NothingLost'
  OBVIOUS
<1>1. ASSUME KeepsRecord PROVE NothingLost'
  BY <1>1, TypeStep, KeepsRecordSound
<1>2. ASSUME NEW s \in Session, Claiming(s) \/ TakingDown(s) \/ Offering(s) PROVE NothingLost'
  BY <1>1, <1>2, ClaimingKeepsRecord, TakingDownKeepsRecord, OfferingKeepsRecord
<1>3. ASSUME NEW s \in Session, Renewing(s) PROVE NothingLost'
  <2>1. PICK S \in SUBSET Up : WriteLease(S, s)
    <3>1. CASE \E S \in SUBSET Up : Heartbeat(s, S)
      BY <3>1 DEF Heartbeat
    <3>2. CASE RenewOwnLeases(s)
      BY <3>2 DEF RenewOwnLeases, OwnCards
    <3>3. CASE (\E c \in Up : Extend(s, c)) \/ RunHeartbeat(s)
      BY <3>3 DEF Extend, RunHeartbeat
    <3> QED BY <1>3, <3>1, <3>2, <3>3 DEF Renewing
  <2>2. closed' = closed /\ UNCHANGED offerVars
    BY <1>3 DEF Renewing, Heartbeat, RenewOwnLeases, Extend, RunHeartbeat
  <2>3. /\ Up' = Up /\ DOMAIN lease' = DOMAIN lease \cup S
        /\ \A c \in Up : door'[c].offer = door[c].offer
    BY <2>1, UpTypes DEF WriteLease, Up, CardRecord
  <2> QED BY <1>1, <2>2, <2>3, StillKeepsRecord
<1>4. ASSUME NEW a \in answers, Accept(a) \/ AcceptTooLate(a) \/ Decline(a) PROVE NothingLost'
  BY <1>1, <1>4, AnswerKeepsRecord
<1>5. ASSUME NEW c \in Up, AgeCard(c) \/ ProcessEnds(c) PROVE NothingLost'
  <2>1. /\ UNCHANGED <<lease, closed, offerVars>>
        /\ \/ door' = [door EXCEPT ![c].age = @ + 1]
           \/ door' = [door EXCEPT ![c].proc = "ended"]
    BY <1>5 DEF AgeCard, ProcessEnds
  <2>2. Up' = Up /\ \A d \in Up : door'[d].offer = door[d].offer
    BY <2>1, UpTypes DEF Up, CardRecord
  <2> QED BY <1>1, <2>1, <2>2, StillKeepsRecord
<1>6. ASSUME NEW s \in Session, Vanish(s) PROVE NothingLost'
  BY <1>1, <1>6, StillKeepsRecord DEF Vanish, cardVars, Up
<1>7. CASE UNCHANGED vars
  BY <1>1, <1>7, StillKeepsRecord DEF vars, cardVars, offerVars, Up
<1> QED BY <1>2, <1>3, <1>4, <1>5, <1>6, <1>7 DEF Next, Commands, Answers, Environment

\* Whoever dies between two writes, nothing is lost: a card that left a lease behind is
\* up or in archive/, and the offer a card names is in an inbox or has its end on record
\* (ArchiveClaim, ArchiveMessage, cmdHandoff).
THEOREM NothingLostHolds == Spec => []NothingLost
<1>1. Init => NothingLost
  BY DEF Init, NothingLost, Up
<1>2. TypeOK /\ NothingLost /\ [Next]_vars => NothingLost'
  BY RecordStep
<1> QED BY <1>1, <1>2, TypeCorrect, PTL DEF Spec

=============================================================================
