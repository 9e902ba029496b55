---------------------------- MODULE ClaimsProofs ----------------------------
(* Claims, for every set of sessions, cards, messages, patterns and modes: its types, *)
(* that of two cards that clash one was handed over, and that the commands implement *)
(* Door, provided no card crosses an expiry between two reads of one claim, and      *)
(* nobody claims with --exclude.                                                     *)
EXTENDS Claims, TLAPS

-----------------------------------------------------------------------------
(* Types. *)

CardTypes ==
    /\ Up \subseteq Card /\ door \in [Up -> CardRecord]
    /\ DOMAIN lease \subseteq Card /\ lease \in [DOMAIN lease -> Session]
    /\ closed \in [Card -> CardEnds \cup {"open"}]

\* Whatever is archived, unlinked or left of a set of cards, the directories keep
\* their types (ArchiveClaim, ReapStale).
LEMMA ArchiveTypes ==
    ASSUME TypeOK, NEW S \in SUBSET Up, NEW t \in Torn(S),
           NEW end \in [Card -> CardEnds], ArchiveClaims(t, end)
    PROVE  CardTypes'
<1>1. t.archived \subseteq S /\ t.down \subseteq S /\ t.done \subseteq S
  BY DEF Torn, AllOf
<1>2. Up' \subseteq Card /\ door' \in [Up' -> CardRecord]
  BY DEF TypeOK, Up, ArchiveClaims, Remove
<1>3. DOMAIN lease' \subseteq Card /\ lease' \in [DOMAIN lease' -> Session]
  BY DEF TypeOK, Up, ArchiveClaims, Remove
<1>4. closed' \in [Card -> CardEnds \cup {"open"}]
  BY DEF TypeOK, ArchiveClaims
<1> QED BY <1>2, <1>3, <1>4 DEF CardTypes

\* A renewal keeps them too (WriteLease).
LEMMA LeaseTypes ==
    ASSUME TypeOK, NEW s \in Session, NEW S \in SUBSET Up, WriteLease(S, s), closed' = closed
    PROVE  CardTypes'
<1>1. \A c \in Up : [door[c] EXCEPT !.age = 0] \in CardRecord
  BY DEF TypeOK, Up, CardRecord
<1>2. Up' \subseteq Card /\ door' \in [Up' -> CardRecord]
  BY <1>1 DEF TypeOK, Up, WriteLease
<1>3. DOMAIN lease' \subseteq Card /\ lease' \in [DOMAIN lease' -> Session]
  BY DEF TypeOK, Up, WriteLease
<1> QED BY <1>2, <1>3 DEF CardTypes, TypeOK

\* The end that a session gives to the cards it takes down.
LEMMA EndTypes == \A s : EndBy(s) \in [Card -> CardEnds]
  BY DEF EndBy, CardEnds

\* Filing an offer keeps the inbox and the record of offers in their types
\* (ArchiveMessage).
LEMMA FileTypes ==
    ASSUME TypeOK, NEW m \in Message, NEW end \in OfferEnds, NEW k, FileOffer(m, end, k)
    PROVE  /\ DOMAIN inbox' \subseteq Message /\ inbox' \in [DOMAIN inbox' -> Offer]
           /\ filed' \in [Message -> OfferEnds \cup {"open"}]
<1>1. DOMAIN inbox' \subseteq Message /\ inbox' \in [DOMAIN inbox' -> Offer]
  BY DEF TypeOK, FileOffer, Remove
<1>2. filed' \in [Message -> OfferEnds \cup {"open"}]
  BY DEF TypeOK, FileOffer
<1> QED BY <1>1, <1>2

\* The step of a claim that decides: it puts up, or widens, one well-formed card.
LEMMA DecideTypes ==
    ASSUME TypeOK, NEW s \in Session, Decide(s)
    PROVE  TypeOK'
<1>1. PICK mode \in Modes, scope \in {x \in Scope : x.include # {}} :
        \/ Denied(s, mode, scope)
        \/ \E c \in Card, run \in BOOLEAN :
             \/ Merge(s, mode, scope, c, run)
             \/ \E strict \in BOOLEAN : TakeCard(s, mode, scope, c, strict, run)
  BY DEF Decide
<1>2. CASE Denied(s, mode, scope)
  BY <1>2 DEF Denied, TypeOK, cardVars, offerVars
<1>3. ASSUME NEW c \in Card, NEW run \in BOOLEAN, Merge(s, mode, scope, c, run)
      PROVE  TypeOK'
  <2>1. c \in Up
    BY <1>3 DEF Merge, MineOverlapping, Existing
  <2>2. PICK k \in Writes(2) :
           /\ door' = [door EXCEPT ![c].scope.include = @ \cup scope.include,
                                   ![c].age = IF k = 2 THEN 0 ELSE @]
           /\ lease' = IF k = 2 THEN Put(lease, c, s) ELSE lease
           /\ running' = IF run /\ k = 2 THEN [running EXCEPT ![s] = c] ELSE running
    BY <1>3 DEF Merge
  <2>3. DOMAIN door' \subseteq Card /\ door' \in [DOMAIN door' -> CardRecord]
    <3> DEFINE wide  == [door[c].scope EXCEPT !.include = @ \cup scope.include]
               age   == IF k = 2 THEN 0 ELSE door[c].age
               wider == [door[c] EXCEPT !.scope = wide, !.age = age]
    <3>1. door[c] \in CardRecord
      BY <2>1 DEF TypeOK, Up
    <3>2. wide \in Scope
      BY <3>1 DEF CardRecord, Scope
    <3>3. age \in 0..2
      BY <3>1 DEF CardRecord
    <3> HIDE DEF wide, age
    <3>4. wider \in CardRecord
      BY <3>1, <3>2, <3>3 DEF CardRecord
    <3> USE DEF wide, age
    <3>5. door' = [door EXCEPT ![c] = wider]
      BY <2>2
    <3> HIDE DEF wider
    <3> QED BY <2>1, <3>4, <3>5 DEF TypeOK, Up
  <2>4. DOMAIN lease' \subseteq Card /\ lease' \in [DOMAIN lease' -> Session]
    BY <2>2 DEF TypeOK, Put
  <2>5. running' \in [Session -> Card \cup {None}]
    BY <2>2 DEF TypeOK
  <2> QED BY <1>3, <2>3, <2>4, <2>5 DEF Merge, TypeOK, offerVars
<1>4. ASSUME NEW c \in Card, NEW run \in BOOLEAN, NEW strict \in BOOLEAN,
             TakeCard(s, mode, scope, c, strict, run)
      PROVE  TypeOK'
  <2> DEFINE new == [owner |-> s, mode |-> mode, scope |-> scope,
                     offer |-> None, to |-> None, handed |-> FALSE, age |-> 0,
                     proc |-> IF run THEN "run" ELSE "command"]
  <2>1. PICK k \in Writes(2) :
           /\ door' = Put(door, c, new)
           /\ lease' = IF k = 2 THEN Put(lease, c, s) ELSE lease
           /\ running' = IF run /\ k = 2 THEN [running EXCEPT ![s] = c] ELSE running
    BY <1>4 DEF TakeCard
  <2>2. new \in CardRecord
    BY DEF CardRecord
  <2> HIDE DEF new
  <2>3. DOMAIN door' \subseteq Card /\ door' \in [DOMAIN door' -> CardRecord]
    BY <2>1, <2>2 DEF TypeOK, Put
  <2>4. DOMAIN lease' \subseteq Card /\ lease' \in [DOMAIN lease' -> Session]
    BY <2>1 DEF TypeOK, Put
  <2>5. running' \in [Session -> Card \cup {None}]
    BY <2>1 DEF TypeOK
  <2> QED BY <1>4, <2>3, <2>4, <2>5 DEF TakeCard, TypeOK, offerVars
<1> QED BY <1>1, <1>2, <1>3, <1>4

\* The steps of a handoff, from the offer to its answer.
LEMMA HandoffTypes ==
    ASSUME TypeOK, NEW s \in Session, NEW c \in Up, NEW m \in Message,
           NEW to \in Session, NEW force, Handoff(s, c, m, to, force)
    PROVE  TypeOK'
<1>1. PICK k \in Writes(4) :
        /\ filed' = [p \in Message |-> IF p \in Prior(c) THEN "withdrawn" ELSE filed[p]]
        /\ inbox' = LET kept == IF k = 1 THEN inbox ELSE Remove(inbox, Prior(c))
                    IN IF k > 2 THEN Put(kept, m, [card |-> c, to |-> to]) ELSE kept
        /\ door' = IF k = 4 THEN [door EXCEPT ![c].offer = m, ![c].to = to] ELSE door
  BY DEF Handoff
<1>2. DOMAIN door' \subseteq Card /\ door' \in [DOMAIN door' -> CardRecord]
  <2>1. CASE k = 4
    <3>1. door' = [door EXCEPT ![c].offer = m, ![c].to = to]
      BY <1>1, <2>1
    <3> QED BY <3>1 DEF TypeOK, CardRecord, Up
  <2>2. CASE k # 4
    BY <1>1, <2>2 DEF TypeOK
  <2> QED BY <2>1, <2>2
<1>3. DOMAIN inbox' \subseteq Message /\ inbox' \in [DOMAIN inbox' -> Offer]
  <2> DEFINE kept == IF k = 1 THEN inbox ELSE Remove(inbox, Prior(c))
  <2>1. DOMAIN kept \subseteq Message /\ kept \in [DOMAIN kept -> Offer]
    BY DEF TypeOK, Remove
  <2>2. [card |-> c, to |-> to] \in Offer
    BY DEF TypeOK, Offer, Up
  <2>3. inbox' = IF k > 2 THEN Put(kept, m, [card |-> c, to |-> to]) ELSE kept
    BY <1>1
  <2> HIDE DEF kept
  <2> QED BY <2>1, <2>2, <2>3 DEF Put
<1>4. filed' \in [Message -> OfferEnds \cup {"open"}]
  BY <1>1 DEF TypeOK, OfferEnds
<1> QED BY <1>2, <1>3, <1>4 DEF Handoff, TypeOK

\* An accepted offer: the card has its new owner, whatever else was written.
LEMMA AcceptTypes ==
    ASSUME TypeOK, NEW a \in answers, Accept(a)
    PROVE  TypeOK'
<1>1. PICK k \in Writes(4) :
        /\ door' = [door EXCEPT ![a.card].owner = a.who, ![a.card].proc = "command",
                                ![a.card].offer = None, ![a.card].to = None,
                                ![a.card].handed = TRUE,
                                ![a.card].age = IF k > 1 THEN 0 ELSE @]
        /\ lease' = IF k > 1 THEN Put(lease, a.card, a.who) ELSE lease
        /\ IF k > 2 THEN FileOffer(a.msg, "accepted", k - 2) ELSE UNCHANGED offerVars
  BY DEF Accept
<1>2. a.card \in Up /\ a.card \in Card /\ a.who \in Session /\ a.msg \in Message
  BY DEF TypeOK, Answer, Accept, OfferIsLive
<1>3. DOMAIN door' \subseteq Card /\ door' \in [DOMAIN door' -> CardRecord]
  BY <1>1, <1>2 DEF TypeOK, CardRecord, Up
<1>4. DOMAIN lease' \subseteq Card /\ lease' \in [DOMAIN lease' -> Session]
  BY <1>1, <1>2 DEF TypeOK, Put
<1>5. /\ DOMAIN inbox' \subseteq Message /\ inbox' \in [DOMAIN inbox' -> Offer]
      /\ filed' \in [Message -> OfferEnds \cup {"open"}]
  <2>1. CASE k > 2
    BY <1>1, <1>2, <2>1, FileTypes DEF OfferEnds
  <2>2. CASE ~(k > 2)
    BY <1>1, <2>2 DEF TypeOK, offerVars
  <2> QED BY <2>1, <2>2
<1> QED BY <1>3, <1>4, <1>5 DEF Accept, Acts, TypeOK

\* A declined offer, live or not.
LEMMA DeclineTypes ==
    ASSUME TypeOK, NEW a \in answers, Decline(a)
    PROVE  TypeOK'
<1>1. a.card \in Card /\ a.msg \in Message
  BY DEF TypeOK, Answer
<1>2. /\ DOMAIN door' \subseteq Card /\ door' \in [DOMAIN door' -> CardRecord]
      /\ DOMAIN inbox' \subseteq Message /\ inbox' \in [DOMAIN inbox' -> Offer]
      /\ filed' \in [Message -> OfferEnds \cup {"open"}]
  <2>1. CASE a.card \in Up /\ door[a.card].offer = a.msg
    <3>1. PICK k \in Writes(3) :
            /\ door' = [door EXCEPT ![a.card].offer = None, ![a.card].to = None]
            /\ IF k > 1 THEN FileOffer(a.msg, "declined", k - 1) ELSE UNCHANGED offerVars
      BY <2>1 DEF Decline
    <3>2. DOMAIN door' \subseteq Card /\ door' \in [DOMAIN door' -> CardRecord]
      BY <2>1, <3>1 DEF TypeOK, CardRecord, Up
    <3>3. CASE k > 1
      BY <1>1, <3>1, <3>2, <3>3, FileTypes DEF OfferEnds
    <3>4. CASE ~(k > 1)
      BY <3>1, <3>2, <3>4 DEF TypeOK, offerVars
    <3> QED BY <3>3, <3>4
  <2>2. CASE ~(a.card \in Up /\ door[a.card].offer = a.msg)
    <3>1. PICK k \in Writes(2) : FileOffer(a.msg, "declined", k)
      BY <2>2 DEF Decline
    <3>2. door' = door
      BY <2>2 DEF Decline
    <3>3. DOMAIN door' \subseteq Card /\ door' \in [DOMAIN door' -> CardRecord]
      BY <3>2 DEF TypeOK
    <3> QED BY <1>1, <3>1, <3>3, FileTypes DEF OfferEnds
  <2> QED BY <2>1, <2>2
<1> QED BY <1>2 DEF Decline, Acts, TypeOK

\* The directories of cards, and the rest as it was.
LEMMA CardTypesSuffice ==
    ASSUME TypeOK, CardTypes', UNCHANGED <<offerVars, answers>>,
           holder' \in Session \cup {None}, running' \in [Session -> Card \cup {None}],
           gone' \subseteq Session
    PROVE  TypeOK'
  BY DEF TypeOK, CardTypes, Up, offerVars

\* Every command of a session keeps the types.
LEMMA CommandTypes ==
    ASSUME TypeOK, Commands
    PROVE  TypeOK'
<1>1. ASSUME NEW s \in Session, SweepToClaim(s) PROVE TypeOK'
  <2>1. FallenCards(s, FALSE) \in SUBSET Up
    BY DEF FallenCards
  <2>2. Up' \subseteq Card /\ door' \in [Up' -> CardRecord]
    BY <1>1, <2>1 DEF SweepToClaim, ReapStale, ArchiveClaims, AllOf, TypeOK, Up, Remove
  <2>3. DOMAIN lease' \subseteq Card /\ lease' \in [DOMAIN lease' -> Session]
    BY <1>1 DEF SweepToClaim, ReapStale, ArchiveClaims, AllOf, TypeOK, Remove
  <2>4. closed' \in [Card -> CardEnds \cup {"open"}]
    BY <1>1 DEF SweepToClaim, ReapStale, ArchiveClaims, TypeOK, CardEnds
  <2>5. CardTypes'
    BY <2>2, <2>3, <2>4 DEF CardTypes
  <2> QED BY <1>1, <2>5, CardTypesSuffice DEF SweepToClaim, TypeOK
<1>2. ASSUME NEW s \in Session, Decide(s) PROVE TypeOK'
  BY <1>2, DecideTypes
<1>3. ASSUME NEW s \in Session, ClaimFails(s) PROVE TypeOK'
  BY <1>3 DEF ClaimFails, TypeOK, cardVars, offerVars
<1>4. ASSUME NEW s \in Session, NEW force \in MayForce, Reap(s, force) PROVE TypeOK'
  <2>1. PICK t \in Torn(FallenCards(s, force)) :
           ArchiveClaims(t, [c \in Card |-> "expired"])
    BY <1>4 DEF Reap, ReapStale
  <2>2. FallenCards(s, force) \in SUBSET Up
    BY DEF FallenCards
  <2>3. [c \in Card |-> "expired"] \in [Card -> CardEnds]
    BY DEF CardEnds
  <2>4. CardTypes'
    BY <2>1, <2>2, <2>3, ArchiveTypes
  <2> QED BY <1>4, <2>4, CardTypesSuffice DEF Reap, TypeOK
<1>5. ASSUME NEW s \in Session, NEW S \in SUBSET Up, NEW force \in MayForce,
             Release(s, S, force)
      PROVE  TypeOK'
  <2>1. CardTypes'
    BY <1>5, EndTypes, ArchiveTypes DEF Release
  <2> QED BY <1>5, <2>1, CardTypesSuffice DEF Release, TypeOK
<1>6. ASSUME NEW s \in Session, ReleaseAll(s) PROVE TypeOK'
  <2>1. OwnCards(s) \in SUBSET Up
    BY DEF OwnCards
  <2>2. CardTypes'
    BY <1>6, <2>1, EndTypes, ArchiveTypes DEF ReleaseAll
  <2> QED BY <1>6, <2>2, CardTypesSuffice DEF ReleaseAll, TypeOK
<1>7. ASSUME NEW s \in Session, NEW S \in SUBSET Up, Heartbeat(s, S) PROVE TypeOK'
  BY <1>7, LeaseTypes, CardTypesSuffice DEF Heartbeat, TypeOK
<1>8. ASSUME NEW s \in Session, RenewOwnLeases(s) PROVE TypeOK'
  <2>1. PICK S \in SUBSET {c \in OwnCards(s) : ~Stale(c, s)} : WriteLease(S, s)
    BY <1>8 DEF RenewOwnLeases
  <2>2. S \in SUBSET Up
    BY DEF OwnCards
  <2> QED BY <1>8, <2>1, <2>2, LeaseTypes, CardTypesSuffice DEF RenewOwnLeases, TypeOK
<1>9. ASSUME NEW s \in Session, NEW c \in Up, Extend(s, c) PROVE TypeOK'
  BY <1>9, LeaseTypes, CardTypesSuffice DEF Extend, TypeOK
<1>10. ASSUME NEW s \in Session, RunHeartbeat(s) PROVE TypeOK'
  BY <1>10, LeaseTypes, CardTypesSuffice DEF RunHeartbeat, TypeOK
<1>11. ASSUME NEW s \in Session, RunEnds(s) PROVE TypeOK'
  <2>1. running' \in [Session -> Card \cup {None}]
    BY <1>11 DEF RunEnds, TypeOK
  <2>2. ASSUME running[s] \in Up, NEW t \in Torn({running[s]}), ArchiveClaims(t, EndBy(s))
        PROVE  CardTypes'
    BY <2>2, EndTypes, ArchiveTypes
  <2>3. ASSUME UNCHANGED cardVars PROVE CardTypes'
    BY <2>3 DEF TypeOK, CardTypes, cardVars, Up
  <2>4. CardTypes'
    BY <1>11, <2>2, <2>3 DEF RunEnds
  <2> QED BY <1>11, <2>1, <2>4, CardTypesSuffice DEF RunEnds, TypeOK
<1>12. ASSUME NEW s \in Session, NEW c \in Up, NEW m \in Message, NEW to \in Session,
              NEW force \in MayForce, Handoff(s, c, m, to, force)
       PROVE  TypeOK'
  BY <1>12, HandoffTypes
<1>13. ASSUME NEW s \in Session, NEW m \in DOMAIN inbox, NEW verb \in {"accept", "decline"},
              FindOffer(s, m, verb)
       PROVE  TypeOK'
  <2>1. [who |-> s, msg |-> m, card |-> inbox[m].card, verb |-> verb] \in Answer
    BY <1>13 DEF TypeOK, Answer, Offer
  <2> QED BY <1>13, <2>1 DEF FindOffer, TypeOK, cardVars, offerVars
<1>14. ASSUME NEW s \in Session, Claiming(s) PROVE TypeOK'
  BY <1>14, <1>1, <1>2, <1>3 DEF Claiming
<1>15. ASSUME NEW s \in Session, TakingDown(s) PROVE TypeOK'
  BY <1>15, <1>4, <1>5, <1>6, <1>11 DEF TakingDown
<1>16. ASSUME NEW s \in Session, Renewing(s) PROVE TypeOK'
  BY <1>16, <1>7, <1>8, <1>9, <1>10 DEF Renewing
<1>17. ASSUME NEW s \in Session, Offering(s) PROVE TypeOK'
  BY <1>17, <1>12, <1>13 DEF Offering
<1> QED BY <1>14, <1>15, <1>16, <1>17 DEF Commands

\* Every answer to an offer keeps the types.
LEMMA AnswerTypes ==
    ASSUME TypeOK, Answers
    PROVE  TypeOK'
<1>1. ASSUME NEW a \in answers, AcceptTooLate(a) PROVE TypeOK'
  <2>1. a.msg \in Message
    BY DEF TypeOK, Answer
  <2>2. PICK k \in Writes(2) : FileOffer(a.msg, "expired", k)
    BY <1>1 DEF AcceptTooLate
  <2>3. /\ DOMAIN inbox' \subseteq Message /\ inbox' \in [DOMAIN inbox' -> Offer]
        /\ filed' \in [Message -> OfferEnds \cup {"open"}]
    BY <2>1, <2>2, FileTypes DEF OfferEnds
  <2> QED BY <1>1, <2>3 DEF AcceptTooLate, Acts, TypeOK, cardVars
<1> QED BY <1>1, AcceptTypes, DeclineTypes DEF Answers

\* The environment keeps the types.
LEMMA EnvironmentTypes ==
    ASSUME TypeOK, Environment
    PROVE  TypeOK'
<1>1. ASSUME NEW c \in Up, AgeCard(c) PROVE TypeOK'
  <2>1. DOMAIN door' \subseteq Card /\ door' \in [DOMAIN door' -> CardRecord]
    BY <1>1 DEF AgeCard, TypeOK, CardRecord, Up
  <2> QED BY <1>1, <2>1 DEF AgeCard, TypeOK, offerVars
<1>2. ASSUME NEW c \in Up, ProcessEnds(c) PROVE TypeOK'
  <2>1. DOMAIN door' \subseteq Card /\ door' \in [DOMAIN door' -> CardRecord]
    BY <1>2 DEF ProcessEnds, TypeOK, CardRecord, Up
  <2> QED BY <1>2, <2>1 DEF ProcessEnds, TypeOK, offerVars
<1>3. ASSUME NEW s \in Session, Vanish(s) PROVE TypeOK'
  BY <1>3 DEF Vanish, TypeOK, cardVars, offerVars
<1> QED BY <1>1, <1>2, <1>3 DEF Environment

\* The two halves of the inductive argument for the types.
LEMMA TypeInit == Init => TypeOK
  BY DEF Init, TypeOK

\* Every step of the board keeps the types.
LEMMA TypeStep == TypeOK /\ [Next]_vars => TypeOK'
<1> SUFFICES ASSUME TypeOK, [Next]_vars PROVE TypeOK'
  OBVIOUS
<1>1. CASE Next
  BY <1>1, CommandTypes, AnswerTypes, EnvironmentTypes DEF Next
<1>2. CASE UNCHANGED vars
  BY <1>2 DEF vars, cardVars, offerVars, TypeOK
<1> QED BY <1>1, <1>2

\* Whatever goes wrong, every directory holds well-formed records of the sessions,
\* cards and messages there are.
THEOREM TypeCorrect == Spec => []TypeOK
<1> QED BY TypeInit, TypeStep, PTL DEF Spec

-----------------------------------------------------------------------------
(* Two cards that clash. *)

\* A card that is up is the same to everybody as it was, or has changed hands.
SameOrHanded(c) ==
    \/ door'[c].handed
    \/ /\ c \in Up
       /\ door'[c].owner = door[c].owner /\ door'[c].mode = door[c].mode
       /\ door'[c].scope = door[c].scope /\ door'[c].handed = door[c].handed

\* A step that puts no card up and widens none brings no clash (every command but claim).
LEMMA NoNewClash ==
    ASSUME NoTwoOwnersUnlessHanded, \A c \in Up' : SameOrHanded(c)
    PROVE  NoTwoOwnersUnlessHanded'
<1> SUFFICES ASSUME NEW c \in Up', NEW d \in Up', Clash(c, d)', ~door'[c].handed, ~door'[d].handed
             PROVE  FALSE
  BY DEF NoTwoOwnersUnlessHanded
<1>1. /\ c \in Up /\ d \in Up
      /\ door'[c].owner = door[c].owner /\ door'[d].owner = door[d].owner
      /\ door'[c].mode = door[c].mode /\ door'[d].mode = door[d].mode
      /\ door'[c].scope = door[c].scope /\ door'[d].scope = door[d].scope
      /\ door'[c].handed = door[c].handed /\ door'[d].handed = door[d].handed
  BY DEF SameOrHanded
<1>2. Clash(c, d)
  BY <1>1 DEF Clash
<1> QED BY <1>1, <1>2 DEF NoTwoOwnersUnlessHanded

\* Modes and scopes collide both ways (modesCollide, ScopesOverlap).
LEMMA ClashSymmetric ==
    /\ \A m, n : ModesCollide(m, n) => ModesCollide(n, m)
    /\ \A S, T : Overlap(S, T) => Overlap(T, S)
  BY DEF ModesCollide, Overlap

\* Every claim that decides has looked at all the cards there are (ReapStale, then
\* ListClaimsStrict, in one stay inside the mutex).
LEMMA ClaimSeesAll ==
    ASSUME NothingStaleInsideClaim, NEW s \in Session, holder = s
    PROVE  Existing(s) = Up
  BY NoneAssumption DEF NothingStaleInsideClaim, Existing, IsHeld, State, HeldStates

\* A widened card clashes with nothing but what it, or the other, was handed over
\* for (cmdClaim, when no request excludes anything).
LEMMA MergeIsSafe ==
    ASSUME Excludable = {}, ClaimsInv, NEW s \in Session, NEW mode,
           NEW scope \in Scope, NEW c, NEW run, Merge(s, mode, scope, c, run)
    PROVE  NoTwoOwnersUnlessHanded'
<1>1. PICK k \in Writes(2) :
        door' = [door EXCEPT ![c].scope.include = @ \cup scope.include,
                             ![c].age = IF k = 2 THEN 0 ELSE @]
  BY DEF Merge
<1>2. Existing(s) = Up
  BY ClaimSeesAll DEF ClaimsInv, Merge
<1>3. c \in Up /\ door[c].owner = s /\ door[c].mode = mode
  BY <1>2 DEF Merge, MineOverlapping
<1>4. \A d \in Up : door[d] \in CardRecord
  BY DEF ClaimsInv, TypeOK, Up
<1>5. Up' = Up
  BY <1>1 DEF Up
<1>6. /\ \A d \in Up : /\ door'[d].owner = door[d].owner /\ door'[d].mode = door[d].mode
                       /\ door'[d].handed = door[d].handed
      /\ \A d \in Up : d # c => door'[d].scope = door[d].scope
      /\ door'[c].scope.include = door[c].scope.include \cup scope.include
      /\ door'[c].scope.exclude = door[c].scope.exclude
  BY <1>1, <1>3, <1>4 DEF CardRecord, Scope, Up
<1>7. ASSUME NEW d \in Up, door[d].owner # s, ModesCollide(mode, door[d].mode)
      PROVE  ~Overlap(scope, door[d].scope)
  BY <1>2, <1>7 DEF Merge, Conflicts
<1>8. ASSUME NEW d \in Up, Clash(c, d)'
      PROVE  door[c].handed \/ door[d].handed
  <2>1. d # c /\ door[d].owner # s /\ ModesCollide(mode, door[d].mode)
    BY <1>3, <1>6, <1>8 DEF Clash
  <2>2. Overlap(door'[c].scope, door[d].scope)
    BY <1>6, <1>8, <2>1 DEF Clash
  <2>3. /\ scope.exclude = {} /\ door[c].scope.exclude = {}
        /\ door'[c].scope.exclude = {} /\ door[d].scope.exclude = {}
    BY <1>3, <1>4, <1>6 DEF Scope, CardRecord
  <2>4. Overlap(door[c].scope, door[d].scope)
    BY <1>6, <1>7, <2>1, <2>2, <2>3 DEF Overlap, Excluded
  <2>5. Clash(c, d)
    BY <1>3, <2>1, <2>4 DEF Clash
  <2> QED BY <1>3, <2>5 DEF ClaimsInv, NoTwoOwnersUnlessHanded
<1> SUFFICES ASSUME NEW d \in Up, NEW e \in Up, Clash(d, e)'
             PROVE  door[d].handed \/ door[e].handed
  BY <1>5, <1>6 DEF NoTwoOwnersUnlessHanded
<1>9. CASE d = c
  BY <1>8, <1>9
<1>10. CASE e = c
  <2>1. Clash(c, d)'
    BY <1>10, ClashSymmetric DEF Clash
  <2> QED BY <1>8, <1>10, <2>1
<1>11. CASE d # c /\ e # c
  <2>1. Clash(d, e)
    BY <1>6, <1>11 DEF Clash
  <2> QED BY <2>1 DEF ClaimsInv, NoTwoOwnersUnlessHanded
<1> QED BY <1>9, <1>10, <1>11

\* A card that is put up clashes with none that is up.
LEMMA TakeIsSafe ==
    ASSUME ClaimsInv, NEW s \in Session, NEW mode, NEW scope, NEW c, NEW strict, NEW run,
           TakeCard(s, mode, scope, c, strict, run)
    PROVE  NoTwoOwnersUnlessHanded'
<1> DEFINE new == [owner |-> s, mode |-> mode, scope |-> scope,
                   offer |-> None, to |-> None, handed |-> FALSE, age |-> 0,
                   proc |-> IF run THEN "run" ELSE "command"]
<1>1. door' = Put(door, c, new) /\ c \notin Up
  BY DEF TakeCard, Fresh
<1>2. Existing(s) = Up
  BY ClaimSeesAll DEF ClaimsInv, TakeCard
<1>3. Up' = Up \cup {c} /\ door'[c] = new /\ \A d \in Up : door'[d] = door[d]
  BY <1>1 DEF Put, Up
<1>4. ASSUME NEW d \in Up, door[d].owner # s, ModesCollide(mode, door[d].mode)
      PROVE  ~Overlap(scope, door[d].scope)
  BY <1>2, <1>4 DEF TakeCard, Conflicts
<1>5. \A d \in Up : ~Clash(c, d)'
  BY <1>3, <1>4 DEF Clash
<1>6. \A d \in Up : ~Clash(d, c)'
  BY <1>5, ClashSymmetric DEF Clash
<1>7. ~Clash(c, c)'
  BY DEF Clash
<1>8. \A d, e \in Up : Clash(d, e)' => Clash(d, e)
  BY <1>3 DEF Clash
<1> SUFFICES ASSUME NEW d \in Up', NEW e \in Up', Clash(d, e)'
             PROVE  door'[d].handed \/ door'[e].handed
  BY DEF NoTwoOwnersUnlessHanded
<1>9. d \in Up /\ e \in Up /\ Clash(d, e)
  BY <1>3, <1>5, <1>6, <1>7, <1>8
<1> QED BY <1>3, <1>9 DEF ClaimsInv, NoTwoOwnersUnlessHanded

\* Archiving leaves the cards that stay up as they were.
LEMMA ArchiveKeeps ==
    ASSUME NEW t, NEW end, ArchiveClaims(t, end)
    PROVE  Up' \subseteq Up /\ \A c \in Up' : SameOrHanded(c)
  BY DEF ArchiveClaims, Remove, Up, SameOrHanded

\* So does a renewal.
LEMMA LeaseKeeps ==
    ASSUME TypeOK, NEW S, NEW s, WriteLease(S, s)
    PROVE  \A c \in Up' : SameOrHanded(c)
<1>1. \A c \in Up : door[c] \in CardRecord
  BY DEF TypeOK, Up
<1>2. Up' = Up /\ \A c \in Up : door'[c] = IF c \in S THEN [door[c] EXCEPT !.age = 0] ELSE door[c]
  BY DEF WriteLease, Up
<1> QED BY <1>1, <1>2 DEF SameOrHanded, CardRecord

\* What a step does that is neither the sweep nor the decision of a claim: the
\* cards that stay up are the same or change hands, and if a claim is under way
\* they are not touched at all.
KeepsTheDoor ==
    /\ \A c \in Up' : SameOrHanded(c)
    /\ holder' = None \/ (holder' = holder /\ door' = door)

\* A step that leaves the door alone.
LEMMA StillDoor ==
    ASSUME door' = door, holder' \in {None, holder}
    PROVE  KeepsTheDoor
  BY DEF KeepsTheDoor, SameOrHanded, Up

\* Such a step keeps the invariant.
LEMMA KeepingIsSafe ==
    ASSUME ClaimsInv, KeepsTheDoor
    PROVE  NothingStaleInsideClaim' /\ NoTwoOwnersUnlessHanded'
<1>1. NothingStaleInsideClaim'
  <2>1. CASE holder' = None
    BY <2>1 DEF NothingStaleInsideClaim
  <2>2. CASE holder' = holder /\ door' = door
    BY <2>2 DEF ClaimsInv, NothingStaleInsideClaim, Stale, Expired, OwnerProvablyDead, Up
  <2> QED BY <2>1, <2>2 DEF KeepsTheDoor
<1>2. NoTwoOwnersUnlessHanded'
  BY NoNewClash DEF ClaimsInv, KeepsTheDoor
<1> QED BY <1>1, <1>2

\* The sweep of a claim takes down every card that is stale to it.
LEMMA SweepIsSafe ==
    ASSUME ClaimsInv, NEW s \in Session, SweepToClaim(s)
    PROVE  NothingStaleInsideClaim' /\ NoTwoOwnersUnlessHanded'
<1>1. door' = Remove(door, FallenCards(s, FALSE)) /\ holder' = s
  BY DEF SweepToClaim, ReapStale, ArchiveClaims, AllOf
<1>2. \A c \in Up' : c \in Up /\ ~Stale(c, s) /\ door'[c] = door[c]
  BY <1>1 DEF Remove, FallenCards, Up
<1>3. NothingStaleInsideClaim'
  BY <1>1, <1>2 DEF NothingStaleInsideClaim, Stale, Expired, OwnerProvablyDead
<1>4. \A c \in Up' : SameOrHanded(c)
  BY <1>2 DEF SameOrHanded
<1> QED BY <1>3, <1>4, NoNewClash DEF ClaimsInv

\* The decision of a claim, whichever it is, ends its stay inside the mutex.
LEMMA DecideIsSafe ==
    ASSUME Excludable = {}, ClaimsInv, NEW s \in Session, Decide(s)
    PROVE  NothingStaleInsideClaim' /\ NoTwoOwnersUnlessHanded'
<1>1. PICK mode \in Modes, scope \in {x \in Scope : x.include # {}} :
        \/ Denied(s, mode, scope)
        \/ \E c \in Card, run \in BOOLEAN :
             \/ Merge(s, mode, scope, c, run)
             \/ \E strict \in BOOLEAN : TakeCard(s, mode, scope, c, strict, run)
  BY DEF Decide
<1>2. CASE Denied(s, mode, scope)
  BY <1>2, StillDoor, KeepingIsSafe DEF Denied, cardVars
<1>3. ASSUME NEW c \in Card, NEW run \in BOOLEAN, Merge(s, mode, scope, c, run)
      PROVE  NothingStaleInsideClaim' /\ NoTwoOwnersUnlessHanded'
  BY <1>3, MergeIsSafe DEF Merge, NothingStaleInsideClaim
<1>4. ASSUME NEW c \in Card, NEW run \in BOOLEAN, NEW strict \in BOOLEAN,
             TakeCard(s, mode, scope, c, strict, run)
      PROVE  NothingStaleInsideClaim' /\ NoTwoOwnersUnlessHanded'
  BY <1>4, TakeIsSafe DEF TakeCard, NothingStaleInsideClaim
<1> QED BY <1>1, <1>2, <1>3, <1>4

\* Taking down, renewing, offering and answering keep the door, provided that no
\* command but the claim itself works inside its stay in the mutex.
LEMMA OthersKeepTheDoor ==
    ASSUME ClaimsInv, NEW s \in Session, TakingDown(s) \/ Renewing(s) \/ Offering(s)
    PROVE  KeepsTheDoor
<1>1. ASSUME NEW force \in MayForce, Reap(s, force) PROVE KeepsTheDoor
  BY <1>1, ArchiveKeeps DEF Reap, Enter, ReapStale, KeepsTheDoor
<1>2. ASSUME NEW S \in SUBSET Up, NEW force \in MayForce, Release(s, S, force)
      PROVE  KeepsTheDoor
  BY <1>2, ArchiveKeeps DEF Release, Enter, KeepsTheDoor
<1>3. ASSUME ReleaseAll(s) PROVE KeepsTheDoor
  BY <1>3, ArchiveKeeps DEF ReleaseAll, Enter, KeepsTheDoor
<1>4. ASSUME RunEnds(s) PROVE KeepsTheDoor
  <2>1. CASE UNCHANGED cardVars
    BY <1>4, <2>1, StillDoor DEF RunEnds, cardVars
  <2>2. CASE holder = None /\ \E t \in Torn({running[s]}) : ArchiveClaims(t, EndBy(s))
    BY <1>4, <2>2, ArchiveKeeps DEF RunEnds, KeepsTheDoor
  <2> QED BY <1>4, <2>1, <2>2 DEF RunEnds
<1>5. ASSUME NEW S \in SUBSET Up, Heartbeat(s, S) PROVE KeepsTheDoor
  BY <1>5, LeaseKeeps DEF Heartbeat, Enter, ClaimsInv, KeepsTheDoor
<1>6. ASSUME RenewOwnLeases(s) PROVE KeepsTheDoor
  BY <1>6, LeaseKeeps DEF RenewOwnLeases, Enter, ClaimsInv, KeepsTheDoor
<1>7. ASSUME NEW c \in Up, Extend(s, c) PROVE KeepsTheDoor
  BY <1>7, LeaseKeeps DEF Extend, Enter, ClaimsInv, KeepsTheDoor
<1>8. ASSUME RunHeartbeat(s) PROVE KeepsTheDoor
  BY <1>8, LeaseKeeps DEF RunHeartbeat, Enter, ClaimsInv, KeepsTheDoor
<1>9. ASSUME NEW c \in Up, NEW m \in Message, NEW to \in Session, NEW force \in MayForce,
             Handoff(s, c, m, to, force)
      PROVE  KeepsTheDoor
  <2>1. PICK k : door' = IF k = 4 THEN [door EXCEPT ![c].offer = m, ![c].to = to] ELSE door
    BY <1>9 DEF Handoff
  <2>2. \A d \in Up : door[d] \in CardRecord
    BY DEF ClaimsInv, TypeOK, Up
  <2>3. \A d \in Up' : SameOrHanded(d)
    BY <2>1, <2>2 DEF SameOrHanded, CardRecord, Up
  <2> QED BY <1>9, <2>3 DEF Handoff, Enter, KeepsTheDoor
<1>10. ASSUME NEW m \in DOMAIN inbox, NEW verb \in {"accept", "decline"}, FindOffer(s, m, verb)
       PROVE  KeepsTheDoor
  BY <1>10, StillDoor DEF FindOffer, cardVars
<1>11. CASE TakingDown(s)
  BY <1>11, <1>1, <1>2, <1>3, <1>4 DEF TakingDown
<1>12. CASE Renewing(s)
  BY <1>12, <1>5, <1>6, <1>7, <1>8 DEF Renewing
<1>13. CASE Offering(s)
  BY <1>13, <1>9, <1>10 DEF Offering
<1> QED BY <1>11, <1>12, <1>13

\* An answer leaves every card as it was, or hands it over.
LEMMA AnswersKeepTheDoor ==
    ASSUME ClaimsInv, Answers
    PROVE  KeepsTheDoor
<1>1. \A d \in Up : door[d] \in CardRecord
  BY DEF ClaimsInv, TypeOK, Up
<1>2. ASSUME NEW a \in answers, Accept(a) PROVE KeepsTheDoor
  <2>1. PICK k \in Writes(4) :
          door' = [door EXCEPT ![a.card].owner = a.who, ![a.card].proc = "command",
                               ![a.card].offer = None, ![a.card].to = None,
                               ![a.card].handed = TRUE,
                               ![a.card].age = IF k > 1 THEN 0 ELSE @]
    BY <1>2 DEF Accept
  <2>2. a.card \in Up /\ Up' = Up
    BY <1>2, <2>1 DEF Accept, OfferIsLive, Up
  <2>3. \A d \in Up : d # a.card => door'[d] = door[d]
    BY <2>1, <2>2 DEF Up
  <2>4. door'[a.card].handed
    BY <1>1, <2>1, <2>2 DEF CardRecord, Up
  <2>5. \A d \in Up' : SameOrHanded(d)
    BY <2>2, <2>3, <2>4 DEF SameOrHanded
  <2> QED BY <1>2, <2>5 DEF Accept, Acts, Enter, KeepsTheDoor
<1>3. ASSUME NEW a \in answers, AcceptTooLate(a) PROVE KeepsTheDoor
  BY <1>3, StillDoor DEF AcceptTooLate, cardVars
<1>4. ASSUME NEW a \in answers, Decline(a) PROVE KeepsTheDoor
  <2>1. door' = door \/ door' = [door EXCEPT ![a.card].offer = None, ![a.card].to = None]
    BY <1>4 DEF Decline
  <2>2. \A d \in Up' : SameOrHanded(d)
    BY <1>1, <2>1 DEF SameOrHanded, CardRecord, Up
  <2> QED BY <1>4, <2>2 DEF Decline, Acts, Enter, KeepsTheDoor
<1> QED BY <1>2, <1>3, <1>4 DEF Answers

\* Time touches no card inside a claim, unless cards lapse there.
LEMMA EnvironmentKeepsTheDoor ==
    ASSUME "lapse" \notin Faults, ClaimsInv, Environment
    PROVE  KeepsTheDoor
<1>1. \A d \in Up : door[d] \in CardRecord
  BY DEF ClaimsInv, TypeOK, Up
<1>2. ASSUME NEW c \in Up, AgeCard(c) \/ ProcessEnds(c) PROVE KeepsTheDoor
  <2>1. \/ door' = [door EXCEPT ![c].age = @ + 1]
        \/ door' = [door EXCEPT ![c].proc = "ended"]
    BY <1>2 DEF AgeCard, ProcessEnds
  <2>2. \A d \in Up' : SameOrHanded(d)
    BY <1>1, <2>1 DEF SameOrHanded, CardRecord, Up
  <2> QED BY <1>2, <2>2 DEF AgeCard, ProcessEnds, Idle, KeepsTheDoor
<1>3. ASSUME NEW s \in Session, Vanish(s) PROVE KeepsTheDoor
  BY <1>3, StillDoor DEF Vanish, cardVars
<1> QED BY <1>2, <1>3 DEF Environment

\* The door starts empty.
LEMMA SafetyInit == Init => ClaimsInv
<1>1. Init => NothingStaleInsideClaim
  BY DEF Init, NothingStaleInsideClaim
<1>2. Init => NoTwoOwnersUnlessHanded
  BY DEF Init, NoTwoOwnersUnlessHanded, Up
<1> QED BY <1>1, <1>2, TypeInit DEF ClaimsInv

\* Every step keeps the invariant, as long as no card lapses inside a claim.
LEMMA SafetyStep ==
    ASSUME "lapse" \notin Faults, Excludable = {}, ClaimsInv, [Next]_vars
    PROVE  ClaimsInv'
<1>1. TypeOK'
  BY TypeStep DEF ClaimsInv
<1>2. NothingStaleInsideClaim' /\ NoTwoOwnersUnlessHanded'
  <2>1. ASSUME NEW s \in Session, Claiming(s)
        PROVE  NothingStaleInsideClaim' /\ NoTwoOwnersUnlessHanded'
    <3>1. CASE SweepToClaim(s)
      BY <3>1, SweepIsSafe
    <3>2. CASE Decide(s)
      BY <3>2, DecideIsSafe
    <3>3. CASE ClaimFails(s)
      BY <3>3, StillDoor, KeepingIsSafe DEF ClaimFails, cardVars
    <3> QED BY <2>1, <3>1, <3>2, <3>3 DEF Claiming
  <2>2. ASSUME NEW s \in Session, TakingDown(s) \/ Renewing(s) \/ Offering(s)
        PROVE  NothingStaleInsideClaim' /\ NoTwoOwnersUnlessHanded'
    BY <2>2, OthersKeepTheDoor, KeepingIsSafe
  <2>3. CASE Answers
    BY <2>3, AnswersKeepTheDoor, KeepingIsSafe
  <2>4. CASE Environment
    BY <2>4, EnvironmentKeepsTheDoor, KeepingIsSafe
  <2>5. CASE UNCHANGED vars
    BY <2>5, StillDoor, KeepingIsSafe DEF vars, cardVars
  <2>6. CASE Commands
    BY <2>1, <2>2, <2>6 DEF Commands
  <2> QED BY <2>3, <2>4, <2>5, <2>6 DEF Next
<1> QED BY <1>1, <1>2 DEF ClaimsInv

\* Two cards that clash are never up unless one of them came to its owner by a
\* handoff: claims, merges, sweeps, renewals and crashes alone never produce them.
THEOREM NoTwoOwnersUnlessHandedHolds ==
    ASSUME "lapse" \notin Faults, Excludable = {}
    PROVE  Spec => []NoTwoOwnersUnlessHanded
<1>1. ClaimsInv /\ [Next]_vars => ClaimsInv'
  BY SafetyStep
<1>2. ClaimsInv => NoTwoOwnersUnlessHanded
  BY DEF ClaimsInv
<1> QED BY SafetyInit, <1>1, <1>2, PTL DEF Spec

\* While a claim decides, no card it would leave out of its conflict check is up.
THEOREM ClaimsInvHolds ==
    ASSUME "lapse" \notin Faults, Excludable = {}
    PROVE  Spec => []ClaimsInv
<1>1. ClaimsInv /\ [Next]_vars => ClaimsInv'
  BY SafetyStep
<1> QED BY SafetyInit, <1>1, PTL DEF Spec

-----------------------------------------------------------------------------
(* The commands of Claims implement the door of Door, crashes between any two writes *)
(* included, under the same two assumptions.                                         *)

\* What those who read the door see of c is as it was.
LooksTheSame(c) ==
    /\ door'[c].owner = door[c].owner /\ door'[c].to = door[c].to
    /\ door'[c].mode = door[c].mode /\ door'[c].scope = door[c].scope

\* A step that changes no card in what is seen of it, and brings none up or down.
LEMMA LooksTheSameIsAStutter ==
    ASSUME Up' = Up, \A c \in Up : LooksTheSame(c), closed' = closed
    PROVE  UNCHANGED Abstract!vars
<1>1. Seen' = Seen
  BY DEF Seen, LooksTheSame
<1>2. Ended' = Ended
  BY DEF Ended
<1> QED BY <1>1, <1>2 DEF Abstract!vars

\* A step that leaves the door and archive/ alone.
LEMMA StillDoorIsAStutter ==
    ASSUME door' = door, closed' = closed
    PROVE  UNCHANGED Abstract!vars
  BY LooksTheSameIsAStutter DEF LooksTheSame, Up

\* A renewal is not seen (WriteLease).
LEMMA LeaseIsAStutter ==
    ASSUME TypeOK, NEW S, NEW s, WriteLease(S, s), closed' = closed
    PROVE  UNCHANGED Abstract!vars
<1>1. \A c \in Up : door[c] \in CardRecord
  BY DEF TypeOK, Up
<1>2. Up' = Up /\ \A c \in Up : door'[c] = IF c \in S THEN [door[c] EXCEPT !.age = 0] ELSE door[c]
  BY DEF WriteLease, Up
<1>3. \A c \in Up : LooksTheSame(c)
  BY <1>1, <1>2 DEF LooksTheSame, CardRecord
<1> QED BY <1>2, <1>3, LooksTheSameIsAStutter

\* Cards that are unlinked have their record in archive/ by then: they end, and the
\* others stay as they are (ArchiveClaim, wherever it is cut short).
LEMMA ArchiveIsEnd ==
    ASSUME TypeOK, NEW S \in SUBSET Up, NEW t \in Torn(S),
           NEW end \in [Card -> CardEnds], ArchiveClaims(t, end)
    PROVE  [Abstract!Next]_(Abstract!vars)
<1>1. t.archived \subseteq Up /\ t.down \subseteq t.archived
  BY DEF Torn, AllOf
<1>2. Up' = Up \ t.down /\ \A c \in Up' : door'[c] = door[c]
  BY DEF ArchiveClaims, Remove, Up
<1>3. Seen' = [c \in DOMAIN Seen \ t.down |-> Seen[c]]
  BY <1>2 DEF Seen
<1>4. Ended' = Ended \cup t.down
  <2>1. \A c \in Card : closed'[c] = IF c \in t.archived THEN end[c] ELSE closed[c]
    BY DEF ArchiveClaims
  <2>2. \A c \in Card : end[c] # "open"
    BY DEF CardEnds
  <2>3. Up \subseteq Card
    BY DEF TypeOK, Up
  <2> QED BY <1>1, <1>2, <2>1, <2>2, <2>3 DEF Ended
<1>5. t.down \in SUBSET DOMAIN Seen
  BY <1>1 DEF Seen
<1>6. Abstract!End(t.down)
  BY <1>3, <1>4, <1>5 DEF Abstract!End
<1> QED BY <1>5, <1>6 DEF Abstract!Next

\* The sweep of a claim is seen as the end of what falls off.
LEMMA SweepIsEnd ==
    ASSUME TypeOK, NEW s \in Session, SweepToClaim(s)
    PROVE  [Abstract!Next]_(Abstract!vars)
<1>1. FallenCards(s, FALSE) \in SUBSET Up
  BY DEF FallenCards
<1>2. AllOf(FallenCards(s, FALSE)) \in Torn(FallenCards(s, FALSE))
  BY DEF Torn, AllOf
<1>3. [c \in Card |-> "expired"] \in [Card -> CardEnds]
  BY DEF CardEnds
<1> QED BY <1>1, <1>2, <1>3, ArchiveIsEnd DEF SweepToClaim, ReapStale

\* A claim that widens the card its session has there gets in nobody's way, or in whose
\* way that card was already (cmdClaim, when no request excludes anything).
LEMMA MergeIsWiden ==
    ASSUME Excludable = {}, ClaimsInv, NEW s \in Session, NEW mode,
           NEW scope \in Scope, NEW c, NEW run, Merge(s, mode, scope, c, run)
    PROVE  [Abstract!Next]_(Abstract!vars)
<1> DEFINE w == [mode |-> mode, scope |-> door'[c].scope]
<1>1. PICK k \in Writes(2) :
        door' = [door EXCEPT ![c].scope.include = @ \cup scope.include,
                             ![c].age = IF k = 2 THEN 0 ELSE @]
  BY DEF Merge
<1>2. Existing(s) = Up
  BY ClaimSeesAll DEF ClaimsInv, Merge
<1>3. c \in Up /\ door[c].owner = s /\ door[c].mode = mode
  BY <1>2 DEF Merge, MineOverlapping
<1>4. \A d \in Up : door[d] \in CardRecord
  BY DEF ClaimsInv, TypeOK, Up
<1>5. Up' = Up /\ \A d \in Up : d # c => door'[d] = door[d]
  BY <1>1 DEF Up
<1>6. /\ door'[c].owner = s /\ door'[c].mode = mode /\ door'[c].to = door[c].to
      /\ door'[c].scope.include = door[c].scope.include \cup scope.include
      /\ door'[c].scope.exclude = door[c].scope.exclude
      /\ door'[c].scope \in Scope
  BY <1>1, <1>3, <1>4, ZenonT(40) DEF CardRecord, Scope, Up
<1>7. w \in Works
  BY <1>3, <1>4, <1>6 DEF Works, CardRecord
<1>8. Seen' = [Seen EXCEPT ![c].work = w]
  BY <1>3, <1>5, <1>6 DEF Seen
<1>9. ASSUME NEW d \in Up, door[d].owner # s, WorksCollide(w, Seen[d].work)
      PROVE  WorksCollide(Seen[c].work, Seen[d].work)
  <2>1. ModesCollide(mode, door[d].mode) /\ Overlap(door'[c].scope, door[d].scope)
    BY <1>9 DEF WorksCollide, Seen
  <2>2. ~Overlap(scope, door[d].scope)
    BY <1>2, <1>9, <2>1 DEF Merge, Conflicts
  <2>3. /\ scope.exclude = {} /\ door[c].scope.exclude = {}
        /\ door'[c].scope.exclude = {} /\ door[d].scope.exclude = {}
    BY <1>3, <1>4, <1>6 DEF Scope, CardRecord
  <2>4. Overlap(door[c].scope, door[d].scope)
    BY <1>6, <2>1, <2>2, <2>3 DEF Overlap, Excluded
  <2> QED BY <1>3, <2>1, <2>4 DEF WorksCollide, Seen
<1> HIDE DEF w
<1>10. Ended' = Ended
  BY <1>5 DEF Merge, Ended
<1>11. DOMAIN Seen = Up /\ \A d \in Up : Seen[d].owner = door[d].owner
  BY DEF Seen
<1>12. Abstract!Widen(c, w)
  BY <1>3, <1>8, <1>9, <1>10, <1>11 DEF Abstract!Widen
<1> QED BY <1>3, <1>7, <1>11, <1>12 DEF Abstract!Next

\* A card goes up with a new name, in nobody's way (cmdClaim).
LEMMA TakeCardIsTake ==
    ASSUME ClaimsInv, NEW s \in Session, NEW mode \in Modes, NEW scope \in Scope,
           NEW c \in Card, NEW strict, NEW run, TakeCard(s, mode, scope, c, strict, run)
    PROVE  [Abstract!Next]_(Abstract!vars)
<1> DEFINE new == [owner |-> s, mode |-> mode, scope |-> scope,
                   offer |-> None, to |-> None, handed |-> FALSE, age |-> 0,
                   proc |-> IF run THEN "run" ELSE "command"]
           w == [mode |-> mode, scope |-> scope]
<1>1. door' = Put(door, c, new) /\ c \notin Up /\ closed[c] = "open" /\ closed' = closed
  BY DEF TakeCard, Fresh
<1>2. Existing(s) = Up
  BY ClaimSeesAll DEF ClaimsInv, TakeCard
<1>3. Up' = Up \cup {c} /\ door'[c] = new /\ \A d \in Up : door'[d] = door[d]
  BY <1>1 DEF Put, Up
<1>4. w \in Works
  BY DEF Works
<1>5. Seen' = [d \in DOMAIN Seen \cup {c} |->
                  IF d = c THEN [owner |-> s, work |-> w, to |-> None] ELSE Seen[d]]
  <2>1. /\ door'[c].owner = s /\ door'[c].to = None
        /\ door'[c].mode = mode /\ door'[c].scope = scope
    BY <1>3
  <2> HIDE DEF new
  <2> QED BY <1>1, <1>3, <2>1 DEF Seen
<1>6. ASSUME NEW d \in Up, door[d].owner # s PROVE ~WorksCollide(w, Seen[d].work)
  BY <1>2, <1>6 DEF TakeCard, Conflicts, WorksCollide, Seen
<1> HIDE DEF w
<1>7. Ended' = Ended /\ c \notin Ended
  BY <1>1, <1>3 DEF Ended
<1>8. DOMAIN Seen = Up /\ \A d \in Up : Seen[d].owner = door[d].owner
  BY DEF Seen
<1>9. Abstract!Take(c, s, w)
  BY <1>1, <1>5, <1>6, <1>7, <1>8 DEF Abstract!Take
<1> QED BY <1>1, <1>4, <1>7, <1>8, <1>9 DEF Abstract!Next

\* The decision of a claim, whichever it is.
LEMMA DecideIsSeen ==
    ASSUME Excludable = {}, ClaimsInv, NEW s \in Session, Decide(s)
    PROVE  [Abstract!Next]_(Abstract!vars)
<1>1. PICK mode \in Modes, scope \in {x \in Scope : x.include # {}} :
        \/ Denied(s, mode, scope)
        \/ \E c \in Card, run \in BOOLEAN :
             \/ Merge(s, mode, scope, c, run)
             \/ \E strict \in BOOLEAN : TakeCard(s, mode, scope, c, strict, run)
  BY DEF Decide
<1>2. CASE Denied(s, mode, scope)
  BY <1>2, StillDoorIsAStutter DEF Denied, cardVars
<1> QED BY <1>1, <1>2, MergeIsWiden, TakeCardIsTake

\* A card that is the same but for whom it is offered to (cmdHandoff, cmdDecline).
LEMMA NewOfferIsOffer ==
    ASSUME TypeOK, NEW c \in Up, NEW to \in Session \cup {None}, NEW m \in Message \cup {None},
           door' = [door EXCEPT ![c].offer = m, ![c].to = to], closed' = closed
    PROVE  [Abstract!Next]_(Abstract!vars)
<1>1. \A d \in Up : door[d] \in CardRecord
  BY DEF TypeOK, Up
<1>2. Up' = Up /\ \A d \in Up : d # c => door'[d] = door[d]
  BY DEF Up
<1>3. /\ door'[c].owner = door[c].owner /\ door'[c].mode = door[c].mode
      /\ door'[c].scope = door[c].scope /\ door'[c].to = to
  BY <1>1 DEF CardRecord, Up
<1>4. Seen' = [Seen EXCEPT ![c].to = to]
  BY <1>2, <1>3 DEF Seen
<1>5. Ended' = Ended
  BY <1>2 DEF Ended
<1>6. c \in DOMAIN Seen
  BY DEF Seen
<1>7. Abstract!Offer(c, to)
  BY <1>4, <1>5, <1>6 DEF Abstract!Offer
<1> QED BY <1>6, <1>7 DEF Abstract!Next

\* The card changes hands to the one it is offered to (cmdAccept), whatever else of the
\* command is written.
LEMMA AcceptIsAccept ==
    ASSUME TypeOK, NEW a \in answers, Accept(a)
    PROVE  [Abstract!Next]_(Abstract!vars)
<1> DEFINE c == a.card
<1>1. PICK k \in Writes(4) :
        door' = [door EXCEPT ![c].owner = a.who, ![c].proc = "command",
                             ![c].offer = None, ![c].to = None, ![c].handed = TRUE,
                             ![c].age = IF k > 1 THEN 0 ELSE @]
  BY DEF Accept
<1>2. a.who \in Session
  BY DEF TypeOK, Answer
<1>3. c \in Up /\ door[c].to = a.who /\ door[c].to # None
  BY <1>2, NoneAssumption DEF Accept, OfferIsLive
<1>4. \A d \in Up : door[d] \in CardRecord
  BY DEF TypeOK, Up
<1>5. Up' = Up /\ \A d \in Up : d # c => door'[d] = door[d]
  BY <1>1 DEF Up
<1>6. /\ door'[c].owner = a.who /\ door'[c].mode = door[c].mode
      /\ door'[c].scope = door[c].scope /\ door'[c].to = None
  BY <1>1, <1>3, <1>4 DEF CardRecord, Up
<1>7. closed' = closed
  BY DEF Accept
<1> HIDE DEF c
<1>8. Seen' = [Seen EXCEPT ![c] = [owner |-> @.to, work |-> @.work, to |-> None]]
  BY <1>3, <1>5, <1>6 DEF Seen
<1>9. Ended' = Ended
  BY <1>5, <1>7 DEF Ended
<1>10. c \in DOMAIN Seen /\ Seen[c].to # None
  BY <1>3 DEF Seen
<1>11. Abstract!Accept(c)
  BY <1>8, <1>9, <1>10 DEF Abstract!Accept
<1> QED BY <1>10, <1>11 DEF Abstract!Next

\* Taking cards down is seen as their end, as far as it gets.
LEMMA TakingDownIsSeen ==
    ASSUME TypeOK, NEW s \in Session, TakingDown(s)
    PROVE  [Abstract!Next]_(Abstract!vars)
<1>1. ASSUME NEW force \in MayForce, Reap(s, force) PROVE [Abstract!Next]_(Abstract!vars)
  <2>1. FallenCards(s, force) \in SUBSET Up
    BY DEF FallenCards
  <2>2. [c \in Card |-> "expired"] \in [Card -> CardEnds]
    BY DEF CardEnds
  <2> QED BY <1>1, <2>1, <2>2, ArchiveIsEnd DEF Reap, ReapStale
<1>2. ASSUME NEW S \in SUBSET Up, NEW force \in MayForce, Release(s, S, force)
      PROVE  [Abstract!Next]_(Abstract!vars)
  BY <1>2, EndTypes, ArchiveIsEnd DEF Release
<1>3. CASE ReleaseAll(s)
  <2>1. OwnCards(s) \in SUBSET Up
    BY DEF OwnCards
  <2> QED BY <1>3, <2>1, EndTypes, ArchiveIsEnd DEF ReleaseAll
<1>4. CASE RunEnds(s)
  <2>1. CASE UNCHANGED cardVars
    BY <2>1, StillDoorIsAStutter DEF cardVars
  <2>2. ASSUME running[s] \in Up, NEW t \in Torn({running[s]}), ArchiveClaims(t, EndBy(s))
        PROVE  [Abstract!Next]_(Abstract!vars)
    BY <2>2, EndTypes, ArchiveIsEnd
  <2> QED BY <1>4, <2>1, <2>2 DEF RunEnds
<1> QED BY <1>1, <1>2, <1>3, <1>4 DEF TakingDown

\* Offering a card is seen only when the card itself is written, the last of the writes.
LEMMA OfferingIsSeen ==
    ASSUME TypeOK, NEW s \in Session, Offering(s)
    PROVE  [Abstract!Next]_(Abstract!vars)
<1>1. ASSUME NEW c \in Up, NEW m \in Message, NEW to \in Session, NEW force \in MayForce,
             Handoff(s, c, m, to, force)
      PROVE  [Abstract!Next]_(Abstract!vars)
  <2>1. PICK k \in Writes(4) :
           door' = IF k = 4 THEN [door EXCEPT ![c].offer = m, ![c].to = to] ELSE door
    BY <1>1 DEF Handoff
  <2>2. closed' = closed
    BY <1>1 DEF Handoff
  <2>3. CASE k = 4
    BY <2>1, <2>2, <2>3, NewOfferIsOffer
  <2>4. CASE k # 4
    BY <2>1, <2>2, <2>4, StillDoorIsAStutter
  <2> QED BY <2>3, <2>4
<1>2. ASSUME NEW m \in DOMAIN inbox, NEW verb \in {"accept", "decline"}, FindOffer(s, m, verb)
      PROVE  [Abstract!Next]_(Abstract!vars)
  BY <1>2, StillDoorIsAStutter DEF FindOffer, cardVars
<1> QED BY <1>1, <1>2 DEF Offering

\* Renewing a card is not seen.
LEMMA RenewingIsSeen ==
    ASSUME TypeOK, NEW s \in Session, Renewing(s)
    PROVE  UNCHANGED Abstract!vars
  BY LeaseIsAStutter DEF Renewing, Heartbeat, RenewOwnLeases, Extend, RunHeartbeat

\* An answer moves the card, withdraws the offer, or is not seen.
LEMMA AnswersAreSeen ==
    ASSUME TypeOK, Answers
    PROVE  [Abstract!Next]_(Abstract!vars)
<1>1. ASSUME NEW a \in answers, AcceptTooLate(a) PROVE [Abstract!Next]_(Abstract!vars)
  BY <1>1, StillDoorIsAStutter DEF AcceptTooLate, cardVars
<1>2. ASSUME NEW a \in answers, Decline(a) PROVE [Abstract!Next]_(Abstract!vars)
  <2>1. closed' = closed
    BY <1>2 DEF Decline
  <2>2. CASE a.card \in Up /\ door[a.card].offer = a.msg
    <3>1. door' = [door EXCEPT ![a.card].offer = None, ![a.card].to = None]
      BY <1>2, <2>2 DEF Decline
    <3> QED BY <2>1, <2>2, <3>1, NewOfferIsOffer
  <2>3. CASE ~(a.card \in Up /\ door[a.card].offer = a.msg)
    <3>1. door' = door
      BY <1>2, <2>3 DEF Decline
    <3> QED BY <2>1, <3>1, StillDoorIsAStutter
  <2> QED BY <2>2, <2>3
<1> QED BY <1>1, <1>2, AcceptIsAccept DEF Answers

\* Time, the end of a process and the loss of a session are not seen.
LEMMA EnvironmentIsNotSeen ==
    ASSUME TypeOK, Environment
    PROVE  UNCHANGED Abstract!vars
<1>1. \A d \in Up : door[d] \in CardRecord
  BY DEF TypeOK, Up
<1>2. ASSUME NEW c \in Up, AgeCard(c) \/ ProcessEnds(c) PROVE UNCHANGED Abstract!vars
  <2>1. closed' = closed
    BY <1>2 DEF AgeCard, ProcessEnds
  <2>2. \/ door' = [door EXCEPT ![c].age = @ + 1]
        \/ door' = [door EXCEPT ![c].proc = "ended"]
    BY <1>2 DEF AgeCard, ProcessEnds
  <2>3. Up' = Up /\ \A d \in Up : LooksTheSame(d)
    BY <1>1, <2>2 DEF LooksTheSame, CardRecord, Up
  <2> QED BY <2>1, <2>3, LooksTheSameIsAStutter
<1>3. ASSUME NEW s \in Session, Vanish(s) PROVE UNCHANGED Abstract!vars
  BY <1>3, StillDoorIsAStutter DEF Vanish, cardVars
<1> QED BY <1>2, <1>3 DEF Environment

\* Every step of the commands is a step of the door, or is not seen there.
LEMMA StepIsSeen ==
    ASSUME Excludable = {}, ClaimsInv, [Next]_vars
    PROVE  [Abstract!Next]_(Abstract!vars)
<1>1. TypeOK
  BY DEF ClaimsInv
<1>2. ASSUME NEW s \in Session, Claiming(s) PROVE [Abstract!Next]_(Abstract!vars)
  <2>1. CASE ClaimFails(s)
    BY <2>1, StillDoorIsAStutter DEF ClaimFails, cardVars
  <2> QED BY <1>1, <1>2, <2>1, SweepIsEnd, DecideIsSeen DEF Claiming
<1>3. CASE Commands
  BY <1>1, <1>2, <1>3, TakingDownIsSeen, RenewingIsSeen, OfferingIsSeen DEF Commands
<1>4. CASE UNCHANGED vars
  BY <1>4, StillDoorIsAStutter DEF vars, cardVars
<1> QED BY <1>1, <1>3, <1>4, AnswersAreSeen, EnvironmentIsNotSeen DEF Next

\* The commands implement the door: a card goes up once and in nobody's way, moves only
\* to the one it is offered to, and comes down for good, wherever a process dies.
THEOREM RefinesDoor ==
    ASSUME "lapse" \notin Faults, Excludable = {}
    PROVE  Spec => ImplementsDoor
<1>1. Init => Abstract!Init
  BY DEF Init, Abstract!Init, Seen, Ended, Up
<1>2. ClaimsInv /\ [Next]_vars => ClaimsInv'
  BY SafetyStep
<1>3. ClaimsInv /\ [Next]_vars => [Abstract!Next]_(Abstract!vars)
  BY StepIsSeen
<1> QED BY SafetyInit, <1>1, <1>2, <1>3, PTL DEF Spec, ImplementsDoor, Abstract!Spec

=============================================================================
