----------------------------- MODULE UpkeepProofs -----------------------------
(* Theorems about Upkeep, for any number of processes, cards and entries of the      *)
(* waiting list. A process is what is left of its command, so most of the argument   *)
(* is about lists of steps: what may come before what (Fits, Follows), and what must *)
(* still come after what (Leads).                                                    *)
EXTENDS Upkeep, SequenceTheorems, FiniteSetTheorems, TLAPS

Step == Verb \X (Card \cup {None})

-----------------------------------------------------------------------------
(* Lists. *)

LEMMA TailFacts ==
    ASSUME NEW S, NEW s \in Seq(S), s # <<>>
    PROVE  /\ Len(s) \in Nat /\ Len(s) >= 1 /\ 1 \in 1..Len(s) /\ Head(s) = s[1] /\ s[1] \in S
           /\ Tail(s) \in Seq(S) /\ Len(Tail(s)) = Len(s) - 1
           /\ \A i \in 1..Len(Tail(s)) : i + 1 \in 1..Len(s) /\ Tail(s)[i] = s[i + 1]
<1>1. Len(s) \in Nat /\ Len(s) # 0
  BY EmptySeq, LenProperties
<1>2. Len(s) >= 1 /\ 1 \in 1..Len(s)
  BY <1>1
<1>3. s[1] \in S
  BY <1>2, ElementOfSeq
<1>4. Tail(s) \in Seq(S) /\ Len(Tail(s)) = Len(s) - 1
      /\ \A i \in 1..Len(Tail(s)) : Tail(s)[i] = s[i + 1]
  BY HeadTailProperties
<1>5. \A i \in 1..Len(Tail(s)) : i + 1 \in 1..Len(s)
  BY <1>1, <1>4
<1>6. Head(s) = s[1]
  BY <1>2
<1> QED BY <1>1, <1>2, <1>3, <1>4, <1>5, <1>6

\* New steps in the place of the first one.
LEMMA PushFacts ==
    ASSUME NEW S, NEW s \in Seq(S), s # <<>>, NEW q \in Seq(S)
    PROVE  /\ q \o Tail(s) \in Seq(S) /\ Len(q \o Tail(s)) = Len(q) + Len(s) - 1
           /\ Len(q) \in Nat /\ Len(s) \in Nat
           /\ \A i \in 1..Len(q \o Tail(s)) :
                \/ i \in 1..Len(q) /\ (q \o Tail(s))[i] = q[i]
                \/ i - Len(q) + 1 \in 2..Len(s) /\ (q \o Tail(s))[i] = s[i - Len(q) + 1] /\ i > Len(q)
           /\ \A i \in 1..Len(q) : i \in 1..Len(q \o Tail(s)) /\ (q \o Tail(s))[i] = q[i]
           /\ \A i \in 2..Len(s) : /\ i + Len(q) - 1 \in 1..Len(q \o Tail(s))
                                   /\ (q \o Tail(s))[i + Len(q) - 1] = s[i]
<1> DEFINE t == Tail(s)
<1>1. /\ Len(s) \in Nat /\ Len(s) >= 1 /\ t \in Seq(S) /\ Len(t) = Len(s) - 1
      /\ \A i \in 1..Len(t) : i + 1 \in 1..Len(s) /\ t[i] = s[i + 1]
  BY TailFacts
<1>2. Len(q) \in Nat
  BY LenProperties
<1> HIDE DEF t
<1>3. /\ q \o t \in Seq(S) /\ Len(q \o t) = Len(q) + Len(t)
      /\ \A i \in 1 .. Len(q) + Len(t) : (q \o t)[i] = IF i <= Len(q) THEN q[i] ELSE t[i - Len(q)]
  BY <1>1, ConcatProperties
<1> DEFINE n == q \o t
<1> HIDE DEF n
<1>4. Len(n) = Len(q) + Len(s) - 1
  BY <1>1, <1>2, <1>3 DEF n
<1>5. ASSUME NEW i \in 1..Len(n)
      PROVE  \/ i \in 1..Len(q) /\ n[i] = q[i]
             \/ i - Len(q) + 1 \in 2..Len(s) /\ n[i] = s[i - Len(q) + 1] /\ i > Len(q)
  <2>1. CASE i <= Len(q)
    BY <1>1, <1>2, <1>3, <1>4, <2>1 DEF n
  <2>2. CASE ~(i <= Len(q))
    <3>1. i - Len(q) \in 1..Len(t) /\ i > Len(q)
      BY <1>1, <1>2, <1>4, <2>2
    <3>2. n[i] = t[i - Len(q)]
      BY <1>1, <1>2, <1>3, <1>4, <2>2 DEF n
    <3>3. t[i - Len(q)] = s[i - Len(q) + 1]
      BY <1>1, <3>1
    <3>4. i - Len(q) + 1 \in 2..Len(s)
      BY <1>1, <1>2, <3>1
    <3> QED BY <3>1, <3>2, <3>3, <3>4
  <2> QED BY <2>1, <2>2
<1>6. ASSUME NEW i \in 1..Len(q) PROVE i \in 1..Len(n) /\ n[i] = q[i]
  BY <1>1, <1>2, <1>3, <1>4 DEF n
<1>7. ASSUME NEW i \in 2..Len(s) PROVE i + Len(q) - 1 \in 1..Len(n) /\ n[i + Len(q) - 1] = s[i]
  <2>1. i - 1 \in 1..Len(t) /\ t[i - 1] = s[(i - 1) + 1] /\ (i - 1) + 1 = i
    BY <1>1
  <2>2. i + Len(q) - 1 \in 1..(Len(q) + Len(t)) /\ ~(i + Len(q) - 1 <= Len(q))
        /\ (i + Len(q) - 1) - Len(q) = i - 1
    BY <1>1, <1>2
  <2>3. n[i + Len(q) - 1] = t[(i + Len(q) - 1) - Len(q)]
    BY <1>3, <2>2 DEF n
  <2> QED BY <1>3, <2>1, <2>2, <2>3 DEF n
<1> QED BY <1>1, <1>2, <1>3, <1>4, <1>5, <1>6, <1>7 DEF n, t

LEMMA ToSetFacts ==
    ASSUME NEW S, NEW s \in Seq(S)
    PROVE  /\ \A x : x \in ToSet(s) <=> \E i \in 1..Len(s) : s[i] = x
           /\ ToSet(s) \subseteq S
<1>1. DOMAIN s = 1..Len(s) /\ \A i \in 1..Len(s) : s[i] \in S
  BY LenProperties
<1> QED BY <1>1 DEF ToSet

\* What is among the steps that are left, after the first one is done or others took its place.
LEMMA ToSetTail ==
    ASSUME NEW S, NEW s \in Seq(S), s # <<>>
    PROVE  /\ ToSet(Tail(s)) \subseteq ToSet(s)
           /\ ToSet(s) = ToSet(Tail(s)) \cup {Head(s)}
           /\ Head(s) \in ToSet(s)
<1>1. /\ Len(s) \in Nat /\ Len(s) >= 1 /\ 1 \in 1..Len(s) /\ Head(s) = s[1]
      /\ Tail(s) \in Seq(S) /\ Len(Tail(s)) = Len(s) - 1
      /\ \A i \in 1..Len(Tail(s)) : i + 1 \in 1..Len(s) /\ Tail(s)[i] = s[i + 1]
  BY TailFacts
<1>2. ASSUME NEW x \in ToSet(Tail(s)) PROVE x \in ToSet(s)
  <2>1. PICK i \in 1..Len(Tail(s)) : Tail(s)[i] = x
    BY <1>1, <1>2, ToSetFacts, ZenonT(40)
  <2> QED BY <1>1, <2>1, ToSetFacts
<1>3. Head(s) \in ToSet(s)
  BY <1>1, ToSetFacts
<1>4. ASSUME NEW x \in ToSet(s), x # Head(s) PROVE x \in ToSet(Tail(s))
  <2>1. PICK i \in 1..Len(s) : s[i] = x
    BY ToSetFacts
  <2>2. i # 1
    BY <1>1, <1>4, <2>1
  <2>3. i - 1 \in 1..Len(Tail(s)) /\ Tail(s)[i - 1] = s[(i - 1) + 1] /\ (i - 1) + 1 = i
    BY <1>1, <2>2
  <2> QED BY <1>1, <2>1, <2>3, ToSetFacts, ZenonT(40)
<1> QED BY <1>2, <1>3, <1>4

LEMMA ToSetConcat ==
    ASSUME NEW S, NEW s \in Seq(S), NEW t \in Seq(S)
    PROVE  s \o t \in Seq(S) /\ ToSet(s \o t) = ToSet(s) \cup ToSet(t)
<1>1. /\ s \o t \in Seq(S) /\ Len(s \o t) = Len(s) + Len(t)
      /\ \A i \in 1 .. Len(s) + Len(t) : (s \o t)[i] = IF i <= Len(s) THEN s[i] ELSE t[i - Len(s)]
  BY ConcatProperties
<1>2. Len(s) \in Nat /\ Len(t) \in Nat
  BY LenProperties
<1>3. ASSUME NEW x \in ToSet(s \o t) PROVE x \in ToSet(s) \cup ToSet(t)
  <2>1. PICK i \in 1..Len(s \o t) : (s \o t)[i] = x
    BY <1>1, <1>3, ToSetFacts
  <2>2. CASE i <= Len(s)
    <3>1. i \in 1..Len(s) /\ s[i] = x
      BY <1>1, <1>2, <2>1, <2>2
    <3> QED BY <3>1, ToSetFacts
  <2>3. CASE ~(i <= Len(s))
    <3>1. i - Len(s) \in 1..Len(t) /\ t[i - Len(s)] = x
      BY <1>1, <1>2, <2>1, <2>3
    <3> QED BY <3>1, ToSetFacts
  <2> QED BY <2>2, <2>3
<1>4. ASSUME NEW x \in ToSet(s) PROVE x \in ToSet(s \o t)
  <2>1. PICK i \in 1..Len(s) : s[i] = x
    BY ToSetFacts
  <2>2. i \in 1..Len(s \o t) /\ (s \o t)[i] = x
    BY <1>1, <1>2, <2>1
  <2> QED BY <1>1, <2>2, ToSetFacts
<1>5. ASSUME NEW x \in ToSet(t) PROVE x \in ToSet(s \o t)
  <2>1. PICK i \in 1..Len(t) : t[i] = x
    BY ToSetFacts
  <2>2. i + Len(s) \in 1..(Len(s) + Len(t)) /\ ~(i + Len(s) <= Len(s)) /\ (i + Len(s)) - Len(s) = i
    BY <1>2
  <2>3. i + Len(s) \in 1..Len(s \o t) /\ (s \o t)[i + Len(s)] = x
    BY <1>1, <2>1, <2>2
  <2> QED BY <1>1, <2>3, ToSetFacts
<1> QED BY <1>1, <1>3, <1>4, <1>5

LEMMA StepFacts ==
    /\ \A v \in Verb, c \in Card : <<v, c>> \in Step
    /\ \A v \in Verb : A(v) \in Step /\ A(v) = <<v, None>>
    /\ \A x \in Step : x[1] \in Verb /\ x[2] \in Card \cup {None} /\ x = <<x[1], x[2]>>
BY DEF Step, A

\* A step for each of some cards: for all of them and for no other.
LEMMA ForEachFacts ==
    ASSUME NEW verb \in Verb, NEW cards \in SUBSET Card
    PROVE  /\ ForEach(verb, cards) \in Seq(Step)
           /\ ToSet(ForEach(verb, cards)) = {verb} \X cards
           /\ ForEach(verb, cards) = <<>> <=> cards = {}
<1> DEFINE n == Cardinality(cards)
           order == SetToSeq(cards)
<1>1. IsFiniteSet(cards) /\ n \in Nat /\ ExistsBijection(1..n, cards)
  <2>1. IsFiniteSet(cards)
    BY FilesAssumption, FS_Subset
  <2> QED BY <2>1, FS_CardinalityType
<1>2. Cardinality(1..n) = n /\ IsFiniteSet(1..n)
  BY <1>1, FS_Interval
<1>3. \E f \in [1..n -> cards] : IsInjective(f)
  BY <1>1 DEF ExistsBijection, Bijection, Injection
<1>4. order \in [1..n -> cards] /\ IsInjective(order)
  BY <1>3 DEF SetToSeq
<1> HIDE DEF order, n
<1>5. order \in Injection(1..n, cards)
  BY <1>4 DEF Injection
<1>6. order \in Surjection(1..n, cards)
  BY <1>1, <1>2, <1>5, FS_Injection DEF n
<1>7. Len(order) = n /\ order \in Seq(cards)
  BY <1>1, <1>4
<1> DEFINE list == [i \in 1..n |-> <<verb, order[i]>>]
<1>8. ForEach(verb, cards) = list
  BY <1>7 DEF ForEach, order
<1>9. \A i \in 1..n : order[i] \in cards
  BY <1>4
<1>10. list \in [1..n -> Step] /\ \A i \in 1..n : list[i] = <<verb, order[i]>>
  BY <1>9 DEF Step
<1> HIDE DEF list
<1>11. list \in Seq(Step) /\ Len(list) = n
  BY <1>1, <1>10
<1>12. ToSet(list) = {verb} \X cards
  <2>1. ASSUME NEW x \in ToSet(list) PROVE x \in {verb} \X cards
    <3>1. PICK i \in 1..n : list[i] = x
      BY <1>11, <2>1, ToSetFacts
    <3>2. x = <<verb, order[i]>> /\ order[i] \in cards
      BY <1>9, <1>10, <3>1
    <3> QED BY <3>2
  <2>2. ASSUME NEW c \in cards PROVE <<verb, c>> \in ToSet(list)
    <3>1. PICK i \in 1..n : order[i] = c
      BY <1>6 DEF Surjection
    <3>2. list[i] = <<verb, c>>
      BY <1>10, <3>1
    <3> QED BY <1>11, <3>2, ToSetFacts
  <2> QED BY <2>1, <2>2
<1>13. list = <<>> <=> cards = {}
  <2>1. list = <<>> <=> n = 0
    BY <1>11, EmptySeq
  <2>2. n = 0 <=> cards = {}
    BY <1>1, FS_EmptySet DEF n
  <2> QED BY <2>1, <2>2
<1> QED BY <1>8, <1>11, <1>12, <1>13

\* Two lists, written as one.
LEMMA Glue ==
    ASSUME NEW s \in Seq(Step), NEW t \in Seq(Step), NEW u \in Seq(Step), Len(u) = Len(s) + Len(t),
           \A i \in 1..Len(s) : u[i] = s[i], \A i \in 1..Len(t) : u[Len(s) + i] = t[i]
    PROVE  s \o t = u
<1>1. Len(s) \in Nat /\ Len(t) \in Nat
  BY LenProperties
<1>2. /\ s \o t \in Seq(Step) /\ Len(s \o t) = Len(s) + Len(t)
      /\ \A i \in 1 .. Len(s) + Len(t) : (s \o t)[i] = IF i <= Len(s) THEN s[i] ELSE t[i - Len(s)]
  BY ConcatProperties
<1>3. ASSUME NEW i \in 1..Len(u) PROVE (s \o t)[i] = u[i]
  <2>1. CASE i <= Len(s)
    BY <1>1, <1>2, <2>1
  <2>2. CASE ~(i <= Len(s))
    <3>1. i - Len(s) \in 1..Len(t) /\ Len(s) + (i - Len(s)) = i
      BY <1>1, <2>2
    <3>2. u[i] = t[i - Len(s)]
      BY <3>1
    <3> QED BY <1>2, <2>2, <3>2
  <2> QED BY <2>1, <2>2
<1> QED BY <1>2, <1>3, SeqEqual

LEMMA StepNames ==
    /\ A("lock") \in Step /\ A("unlock") \in Step /\ A("sweep") \in Step /\ A("pin") \in Step
    /\ A("snap") \in Step /\ A("door") \in Step /\ A("check") \in Step
    /\ \A c \in Card : /\ <<"save", c>> \in Step /\ <<"lease", c>> \in Step /\ <<"join", c>> \in Step
                       /\ <<"renew", c>> \in Step /\ <<"read", c>> \in Step /\ <<"down", c>> \in Step
                       /\ <<"drop", c>> \in Step /\ <<"clear", c>> \in Step
BY DEF Step, A, Verb

\* The commands, written out.
LEMMA Lists ==
    /\ ReapSteps = << A("lock"), A("sweep"), A("unlock"), A("snap"), A("door"),
                       A("check") >>
    /\ PinSteps = << A("pin"), A("snap"), A("door"), A("check") >>
    /\ DeniedSteps = << A("unlock"), A("pin"), A("snap"), A("door"), A("check") >>
    /\ \A c \in Card :
        /\ HeartbeatSteps(c) = << A("lock"), <<"renew", c>>, A("unlock"), A("snap"), A("door"),
                       A("check") >>
        /\ TakeSteps(c) = << <<"save", c>>, <<"lease", c>>, A("pin"), A("unlock"), A("snap"),
                       A("door"), A("check") >>
        /\ QueuedSteps(c) = << A("unlock"), A("pin"), <<"join", c>>, A("pin"), A("snap"),
                       A("door"), A("check") >>
        /\ RenewSteps(c) = << A("lock"), <<"renew", c>>, A("snap"), A("door"), A("check"),
                       A("unlock") >>
        /\ ReleaseSteps(c) =
              << A("lock"), <<"read", c>>, <<"down", c>>, <<"drop", c>>, <<"clear", c>>,
                 A("pin"), A("unlock"), A("snap"), A("door"), A("check") >>
<1>1. ReapSteps = << A("lock"), A("sweep"), A("unlock"), A("snap"), A("door"),
                            A("check") >>
  <2> DEFINE s == << A("lock"), A("sweep"), A("unlock") >>
             t == << A("snap"), A("door"), A("check") >>
             u == << A("lock"), A("sweep"), A("unlock"), A("snap"), A("door"), A("check") >>
  <2>1. s \in Seq(Step) /\ t \in Seq(Step) /\ u \in Seq(Step) /\ Len(u) = Len(s) + Len(t)
    BY StepNames
  <2>2. (\A i \in 1..Len(s) : u[i] = s[i]) /\ (\A i \in 1..Len(t) : u[Len(s) + i] = t[i])
    OBVIOUS
  <2>3. s \o t = u
    BY <2>1, <2>2, Glue
  <2> QED BY <2>3 DEF ReapSteps, Render, SweepSteps
<1>2. PinSteps = << A("pin"), A("snap"), A("door"), A("check") >>
  <2> DEFINE s == << A("pin") >>
             t == << A("snap"), A("door"), A("check") >>
             u == << A("pin"), A("snap"), A("door"), A("check") >>
  <2>1. s \in Seq(Step) /\ t \in Seq(Step) /\ u \in Seq(Step) /\ Len(u) = Len(s) + Len(t)
    BY StepNames
  <2>2. (\A i \in 1..Len(s) : u[i] = s[i]) /\ (\A i \in 1..Len(t) : u[Len(s) + i] = t[i])
    OBVIOUS
  <2>3. s \o t = u
    BY <2>1, <2>2, Glue
  <2> QED BY <2>3 DEF PinSteps, Render
<1>3. DeniedSteps = << A("unlock"), A("pin"), A("snap"), A("door"), A("check") >>
  <2> DEFINE s == << A("unlock"), A("pin") >>
             t == << A("snap"), A("door"), A("check") >>
             u == << A("unlock"), A("pin"), A("snap"), A("door"), A("check") >>
  <2>1. s \in Seq(Step) /\ t \in Seq(Step) /\ u \in Seq(Step) /\ Len(u) = Len(s) + Len(t)
    BY StepNames
  <2>2. (\A i \in 1..Len(s) : u[i] = s[i]) /\ (\A i \in 1..Len(t) : u[Len(s) + i] = t[i])
    OBVIOUS
  <2>3. s \o t = u
    BY <2>1, <2>2, Glue
  <2> QED BY <2>3 DEF DeniedSteps, Render
<1>4. ASSUME NEW c \in Card
      PROVE  HeartbeatSteps(c) = << A("lock"), <<"renew", c>>, A("unlock"), A("snap"), A("door"),
                            A("check") >>
  <2>0. <<"renew", c>> \in Step
    BY StepNames
  <2> DEFINE s == << A("lock"), <<"renew", c>>, A("unlock") >>
             t == << A("snap"), A("door"), A("check") >>
             u == << A("lock"), <<"renew", c>>, A("unlock"), A("snap"), A("door"), A("check") >>
  <2>1. s \in Seq(Step) /\ t \in Seq(Step) /\ u \in Seq(Step) /\ Len(u) = Len(s) + Len(t)
    BY StepNames, <2>0
  <2>2. (\A i \in 1..Len(s) : u[i] = s[i]) /\ (\A i \in 1..Len(t) : u[Len(s) + i] = t[i])
    OBVIOUS
  <2>3. s \o t = u
    BY <2>1, <2>2, Glue
  <2> QED BY <2>3 DEF HeartbeatSteps, Render
<1>5. ASSUME NEW c \in Card
      PROVE  TakeSteps(c) = << <<"save", c>>, <<"lease", c>>, A("pin"), A("unlock"), A("snap"),
                            A("door"), A("check") >>
  <2>0. <<"save", c>> \in Step /\ <<"lease", c>> \in Step
    BY StepNames
  <2> DEFINE s == << <<"save", c>>, <<"lease", c>>, A("pin"), A("unlock") >>
             t == << A("snap"), A("door"), A("check") >>
             u == << <<"save", c>>, <<"lease", c>>, A("pin"), A("unlock"), A("snap"),
                     A("door"), A("check") >>
  <2>1. s \in Seq(Step) /\ t \in Seq(Step) /\ u \in Seq(Step) /\ Len(u) = Len(s) + Len(t)
    BY StepNames, <2>0
  <2>2. (\A i \in 1..Len(s) : u[i] = s[i]) /\ (\A i \in 1..Len(t) : u[Len(s) + i] = t[i])
    OBVIOUS
  <2>3. s \o t = u
    BY <2>1, <2>2, Glue
  <2> QED BY <2>3 DEF TakeSteps, Render
<1>6. ASSUME NEW c \in Card
      PROVE  QueuedSteps(c) = << A("unlock"), A("pin"), <<"join", c>>, A("pin"), A("snap"),
                            A("door"), A("check") >>
  <2>0. <<"join", c>> \in Step
    BY StepNames
  <2> DEFINE s == << A("unlock"), A("pin"), <<"join", c>>, A("pin") >>
             t == << A("snap"), A("door"), A("check") >>
             u == << A("unlock"), A("pin"), <<"join", c>>, A("pin"), A("snap"),
                     A("door"), A("check") >>
  <2>1. s \in Seq(Step) /\ t \in Seq(Step) /\ u \in Seq(Step) /\ Len(u) = Len(s) + Len(t)
    BY StepNames, <2>0
  <2>2. (\A i \in 1..Len(s) : u[i] = s[i]) /\ (\A i \in 1..Len(t) : u[Len(s) + i] = t[i])
    OBVIOUS
  <2>3. s \o t = u
    BY <2>1, <2>2, Glue
  <2> QED BY <2>3 DEF QueuedSteps, Render
<1>7. ASSUME NEW c \in Card
      PROVE  RenewSteps(c) = << A("lock"), <<"renew", c>>, A("snap"), A("door"), A("check"),
                                A("unlock") >>
  <2>0. <<"renew", c>> \in Step
    BY StepNames
  <2>1. << A("lock"), <<"renew", c>> >> \o << A("snap"), A("door"), A("check") >>
          = << A("lock"), <<"renew", c>>, A("snap"), A("door"), A("check") >>
    <3> DEFINE s == << A("lock"), <<"renew", c>> >>
               t == << A("snap"), A("door"), A("check") >>
               u == << A("lock"), <<"renew", c>>, A("snap"), A("door"), A("check") >>
    <3>1. s \in Seq(Step) /\ t \in Seq(Step) /\ u \in Seq(Step) /\ Len(u) = Len(s) + Len(t)
      BY StepNames, <2>0
    <3>2. (\A i \in 1..Len(s) : u[i] = s[i]) /\ (\A i \in 1..Len(t) : u[Len(s) + i] = t[i])
      OBVIOUS
    <3> QED BY <3>1, <3>2, Glue
  <2>2. << A("lock"), <<"renew", c>>, A("snap"), A("door"), A("check") >>
            \o << A("unlock") >>
          = << A("lock"), <<"renew", c>>, A("snap"), A("door"), A("check"), A("unlock") >>
    <3> DEFINE s == << A("lock"), <<"renew", c>>, A("snap"), A("door"), A("check") >>
               t == << A("unlock") >>
               u == << A("lock"), <<"renew", c>>, A("snap"), A("door"), A("check"), A("unlock") >>
    <3>1. s \in Seq(Step) /\ t \in Seq(Step) /\ u \in Seq(Step) /\ Len(u) = Len(s) + Len(t)
      BY StepNames, <2>0
    <3>2. (\A i \in 1..Len(s) : u[i] = s[i]) /\ (\A i \in 1..Len(t) : u[Len(s) + i] = t[i])
      OBVIOUS
    <3> QED BY <3>1, <3>2, Glue
  <2> QED BY <2>1, <2>2 DEF RenewSteps, Render
<1>8. ASSUME NEW c \in Card
      PROVE  ReleaseSteps(c) =
               << A("lock"), <<"read", c>>, <<"down", c>>, <<"drop", c>>, <<"clear", c>>,
                  A("pin"), A("unlock"), A("snap"), A("door"), A("check") >>
  <2>0. /\ <<"read", c>> \in Step
        /\ <<"down", c>> \in Step
        /\ <<"drop", c>> \in Step
        /\ <<"clear", c>> \in Step
    BY StepNames
  <2>1. << A("lock"), <<"read", c>> >> \o << <<"down", c>>, <<"drop", c>>, <<"clear", c>>, A("pin") >>
          = << A("lock"), <<"read", c>>, <<"down", c>>, <<"drop", c>>, <<"clear", c>>,
               A("pin") >>
    <3> DEFINE s == << A("lock"), <<"read", c>> >>
               t == << <<"down", c>>, <<"drop", c>>, <<"clear", c>>, A("pin") >>
               u == << A("lock"), <<"read", c>>, <<"down", c>>, <<"drop", c>>, <<"clear", c>>,
                       A("pin") >>
    <3>1. s \in Seq(Step) /\ t \in Seq(Step) /\ u \in Seq(Step) /\ Len(u) = Len(s) + Len(t)
      BY StepNames, <2>0
    <3>2. (\A i \in 1..Len(s) : u[i] = s[i]) /\ (\A i \in 1..Len(t) : u[Len(s) + i] = t[i])
      OBVIOUS
    <3> QED BY <3>1, <3>2, Glue
  <2>2. << A("lock"), <<"read", c>>, <<"down", c>>, <<"drop", c>>, <<"clear", c>>, A("pin") >>
            \o << A("unlock") >>
          = << A("lock"), <<"read", c>>, <<"down", c>>, <<"drop", c>>, <<"clear", c>>,
               A("pin"), A("unlock") >>
    <3> DEFINE s == << A("lock"), <<"read", c>>, <<"down", c>>, <<"drop", c>>, <<"clear", c>>, A("pin") >>
               t == << A("unlock") >>
               u == << A("lock"), <<"read", c>>, <<"down", c>>, <<"drop", c>>, <<"clear", c>>,
                       A("pin"), A("unlock") >>
    <3>1. s \in Seq(Step) /\ t \in Seq(Step) /\ u \in Seq(Step) /\ Len(u) = Len(s) + Len(t)
      BY StepNames, <2>0
    <3>2. (\A i \in 1..Len(s) : u[i] = s[i]) /\ (\A i \in 1..Len(t) : u[Len(s) + i] = t[i])
      OBVIOUS
    <3> QED BY <3>1, <3>2, Glue
  <2>3. << A("lock"), <<"read", c>>, <<"down", c>>, <<"drop", c>>, <<"clear", c>>, A("pin"), A("unlock") >>
            \o << A("snap"), A("door"), A("check") >>
          = << A("lock"), <<"read", c>>, <<"down", c>>, <<"drop", c>>, <<"clear", c>>,
               A("pin"), A("unlock"), A("snap"), A("door"), A("check") >>
    <3> DEFINE s == << A("lock"), <<"read", c>>, <<"down", c>>, <<"drop", c>>, <<"clear", c>>, A("pin"), A("unlock") >>
               t == << A("snap"), A("door"), A("check") >>
               u == << A("lock"), <<"read", c>>, <<"down", c>>, <<"drop", c>>, <<"clear", c>>,
                       A("pin"), A("unlock"), A("snap"), A("door"), A("check") >>
    <3>1. s \in Seq(Step) /\ t \in Seq(Step) /\ u \in Seq(Step) /\ Len(u) = Len(s) + Len(t)
      BY StepNames, <2>0
    <3>2. (\A i \in 1..Len(s) : u[i] = s[i]) /\ (\A i \in 1..Len(t) : u[Len(s) + i] = t[i])
      OBVIOUS
    <3> QED BY <3>1, <3>2, Glue
  <2> QED BY <2>1, <2>2, <2>3 DEF ReleaseSteps, Archive, Render
<1> QED BY <1>1, <1>2, <1>3, <1>4, <1>5, <1>6, <1>7, <1>8

-----------------------------------------------------------------------------
(* What may come before what, and what is still to come. *)

Closers == {"unlock", "decide"}
Lookers == {"decide", "check", "scan"}

\* Steps that are taken with the mutex ...
Guarded == { "sweep", "reap", "decide", "save", "read", "down", "drop", "clear", "renew", "beat",
             "unlock" }
\* ... those after which somebody still looks at the door ...
Watched == { "sweep", "reap", "save", "lease", "pin", "renew", "down", "drop", "clear", "snap", "door",
             "moveclaim", "movelease", "mend", "orphan" }
\* ... and repairs of what a scan found.
Repairing == {"moveclaim", "movelease", "mend", "orphan", "tmp", "break"}

\* From place i of the list on, goal comes before anything of bar.
Comes(s, i, goal, bar) ==
    \E j \in i..Len(s) : s[j][1] \in goal /\ \A k \in i..j : k < j => s[k][1] \notin bar

Leads(s, from, goal, bar) == \A i \in 1..Len(s) : s[i][1] \in from => Comes(s, i, goal, bar)

\* x may be somewhere before y.
Fits(x, y) ==
    /\ x[1] \notin {"scan", "report"}
    /\ y[1] \notin {"save", "read", "renew", "beat", "report"}
    /\ y[1] = "lease" => x = <<"save", y[2]>>
    /\ y[1] = "down" => x = <<"read", y[2]>>
    /\ y[1] = "drop" => x \in {<<"read", y[2]>>, <<"down", y[2]>>}
    /\ y[1] = "clear" => x \in {<<"read", y[2]>>, <<"down", y[2]>>, <<"drop", y[2]>>}
    /\ y[1] = "reap" => x[1] \in {"reap", "down", "drop", "clear", "pin"}
    /\ y[1] = "moveclaim" => x[1] = "moveclaim"
    /\ y[1] = "sweep" => x[1] \in {"lock", "moveclaim", "movelease"}
    /\ y[1] = "movelease" => x[1] \in {"moveclaim", "movelease"}
    /\ y[1] = "scan" =>
          /\ x[1] \notin {"check", "save", "read", "renew", "beat", "join", "leave", "decide"}
          /\ y = A("scan")
    /\ y[1] = "lock" => x[1] \notin {"lease", "mend", "break"}
    /\ y[1] \in {"unlock", "decide"} => x[1] \notin {"unlock", "decide"}

\* y may come right after x.
Follows(x, y) ==
    /\ x[1] = "snap" => y[1] = "door"
    /\ x[1] = "door" => y \in {A("check"), A("scan")}
    /\ y[1] = "check" => x[1] = "door"
    /\ x[1] = "down" => y = <<"drop", x[2]>>
    /\ x[1] = "drop" => y = <<"clear", x[2]>>

InOrder(s) ==
    /\ \A i, j \in 1..Len(s) : i < j => Fits(s[i], s[j])
    /\ \A i, j \in 1..Len(s) : j = i + 1 => Follows(s[i], s[j])

Shape(s) ==
    /\ InOrder(s)
    /\ Leads(s, Guarded, Closers, {"lock"})
    /\ Leads(s, {"lease", "mend"}, Closers \cup {"scan"}, {"lock"})
    /\ Leads(s, Watched, Lookers, {})
    /\ Leads(s, Repairing, {"scan"}, {})
    /\ Leads(s, {"join"}, Lookers \cup {"leave"}, {})

\* The steps that come first are taken without the mutex.
Shut(s) ==
    \A j \in 1..Len(s) : s[j][1] \in Closers => \E k \in 1..Len(s) : k < j /\ s[k][1] = "lock"

LEMMA LeadsTail ==
    ASSUME NEW s \in Seq(Step), s # <<>>, NEW from, NEW goal, NEW bar, Leads(s, from, goal, bar)
    PROVE  Leads(Tail(s), from, goal, bar)
<1> DEFINE t == Tail(s)
<1>1. /\ Len(s) \in Nat /\ Len(s) >= 1 /\ Len(t) = Len(s) - 1
      /\ \A i \in 1..Len(t) : i + 1 \in 1..Len(s) /\ t[i] = s[i + 1]
  BY TailFacts
<1> HIDE DEF t
<1>2. ASSUME NEW i \in 1..Len(t), t[i][1] \in from PROVE Comes(t, i, goal, bar)
  <2>1. Comes(s, i + 1, goal, bar)
    BY <1>1, <1>2 DEF Leads
  <2>2. PICK j \in (i + 1)..Len(s) : s[j][1] \in goal /\ \A k \in (i + 1)..j : k < j => s[k][1] \notin bar
    BY <2>1 DEF Comes
  <2>3. j - 1 \in i..Len(t) /\ j - 1 \in 1..Len(t) /\ (j - 1) + 1 = j
    BY <1>1
  <2>4. t[j - 1] = s[j]
    BY <1>1, <2>3
  <2>5. ASSUME NEW k \in i..(j - 1), k < j - 1 PROVE t[k][1] \notin bar
    <3>1. k \in 1..Len(t) /\ k + 1 \in (i + 1)..j /\ k + 1 < j
      BY <1>1, <2>3, <2>5
    <3> QED BY <1>1, <2>2, <3>1
  <2> QED BY <2>2, <2>3, <2>4, <2>5 DEF Comes
<1> QED BY <1>2 DEF Leads, t

LEMMA InOrderTail ==
    ASSUME NEW s \in Seq(Step), s # <<>>, InOrder(s)
    PROVE  InOrder(Tail(s))
<1> DEFINE t == Tail(s)
<1>1. /\ Len(s) \in Nat /\ Len(s) >= 1 /\ Len(t) = Len(s) - 1
      /\ \A i \in 1..Len(t) : i + 1 \in 1..Len(s) /\ t[i] = s[i + 1]
  BY TailFacts
<1> HIDE DEF t
<1>2. ASSUME NEW i \in 1..Len(t), NEW j \in 1..Len(t), i < j PROVE Fits(t[i], t[j])
  <2>1. i + 1 \in 1..Len(s) /\ j + 1 \in 1..Len(s) /\ i + 1 < j + 1 /\ t[i] = s[i + 1] /\ t[j] = s[j + 1]
    BY <1>1, <1>2
  <2> QED BY <2>1 DEF InOrder
<1>3. ASSUME NEW i \in 1..Len(t), NEW j \in 1..Len(t), j = i + 1 PROVE Follows(t[i], t[j])
  <2>1. i + 1 \in 1..Len(s) /\ j + 1 \in 1..Len(s) /\ j + 1 = (i + 1) + 1
        /\ t[i] = s[i + 1] /\ t[j] = s[j + 1]
    BY <1>1, <1>3
  <2> QED BY <2>1 DEF InOrder
<1> QED BY <1>2, <1>3 DEF InOrder, t

\* One step less.
LEMMA ShapeTail ==
    ASSUME NEW s \in Seq(Step), s # <<>>, Shape(s)
    PROVE  Shape(Tail(s))
BY LeadsTail, InOrderTail DEF Shape

\* Where new steps took the place of the first one: they lead to goal among themselves,
\* or else as the first one did.
LEMMA LeadsPush ==
    ASSUME NEW s \in Seq(Step), s # <<>>, NEW q \in Seq(Step), NEW from, NEW goal, NEW bar,
           Leads(s, from, goal, bar),
           \/ Leads(q, from, goal, bar)
           \/ /\ Head(s)[1] \in from /\ Head(s)[1] \notin goal
              /\ \A i \in 1..Len(q) : q[i][1] \notin bar
    PROVE  Leads(q \o Tail(s), from, goal, bar)
<1> DEFINE n == q \o Tail(s)
           m == Len(q)
<1>1. /\ Len(n) = m + Len(s) - 1 /\ m \in Nat /\ Len(s) \in Nat
      /\ \A i \in 1..Len(n) : \/ i \in 1..m /\ n[i] = q[i]
                              \/ i - m + 1 \in 2..Len(s) /\ n[i] = s[i - m + 1] /\ i > m
      /\ \A i \in 1..m : i \in 1..Len(n) /\ n[i] = q[i]
      /\ \A i \in 2..Len(s) : i + m - 1 \in 1..Len(n) /\ n[i + m - 1] = s[i]
  BY PushFacts
<1>2. 1 \in 1..Len(s) /\ Head(s) = s[1]
  BY TailFacts
<1> HIDE DEF n, m
<1>3. ASSUME NEW i \in 1..Len(n), n[i][1] \in from, i > m PROVE Comes(n, i, goal, bar)
  <2>1. i - m + 1 \in 2..Len(s) /\ n[i] = s[i - m + 1]
    BY <1>1, <1>3
  <2>2. Comes(s, i - m + 1, goal, bar)
    BY <1>1, <1>3, <2>1 DEF Leads
  <2>3. PICK j \in (i - m + 1)..Len(s) :
          s[j][1] \in goal /\ \A k \in (i - m + 1)..j : k < j => s[k][1] \notin bar
    BY <2>2 DEF Comes
  <2>4. j + m - 1 \in i..Len(n) /\ n[j + m - 1] = s[j]
    BY <1>1, <2>1
  <2>5. ASSUME NEW k \in i..(j + m - 1), k < j + m - 1 PROVE n[k][1] \notin bar
    <3>1. k \in 1..Len(n) /\ k > m /\ k - m + 1 \in (i - m + 1)..j /\ k - m + 1 < j
      BY <1>1, <1>3, <2>4, <2>5
    <3>2. n[k] = s[k - m + 1]
      BY <1>1, <3>1
    <3> QED BY <2>3, <3>1, <3>2
  <2> QED BY <2>3, <2>4, <2>5 DEF Comes
<1>4. ASSUME NEW i \in 1..m, q[i][1] \in from PROVE Comes(n, i, goal, bar)
  <2>1. CASE Leads(q, from, goal, bar)
    <3>1. PICK j \in i..m : q[j][1] \in goal /\ \A k \in i..j : k < j => q[k][1] \notin bar
      BY <1>4, <2>1 DEF Leads, Comes, m
    <3>2. j \in i..Len(n) /\ n[j] = q[j] /\ \A k \in i..j : k \in 1..m /\ n[k] = q[k]
      BY <1>1
    <3> QED BY <3>1, <3>2 DEF Comes
  <2>2. CASE /\ Head(s)[1] \in from /\ Head(s)[1] \notin goal
             /\ \A k \in 1..Len(q) : q[k][1] \notin bar
    <3>1. PICK j \in 1..Len(s) : s[j][1] \in goal /\ \A k \in 1..j : k < j => s[k][1] \notin bar
      BY <1>2, <2>2 DEF Leads, Comes
    <3>2. j \in 2..Len(s)
      BY <1>2, <2>2, <3>1
    <3>3. j + m - 1 \in i..Len(n) /\ n[j + m - 1] = s[j]
      BY <1>1, <3>2
    <3>4. ASSUME NEW k \in i..(j + m - 1), k < j + m - 1 PROVE n[k][1] \notin bar
      <4>1. k \in 1..Len(n)
        BY <1>1, <3>3
      <4>2. CASE k \in 1..m
        BY <1>1, <2>2, <4>2 DEF m
      <4>3. CASE k - m + 1 \in 2..Len(s) /\ n[k] = s[k - m + 1] /\ k > m
        <5>1. k - m + 1 \in 1..j /\ k - m + 1 < j
          BY <1>1, <3>2, <3>4, <4>1, <4>3
        <5> QED BY <3>1, <4>3, <5>1
      <4> QED BY <1>1, <4>1, <4>2, <4>3
    <3> QED BY <3>1, <3>3, <3>4 DEF Comes
  <2> QED BY <2>1, <2>2 DEF m
<1>5. ASSUME NEW i \in 1..Len(n), n[i][1] \in from PROVE Comes(n, i, goal, bar)
  <2>1. CASE i \in 1..m
    BY <1>1, <1>4, <1>5, <2>1
  <2>2. CASE i > m
    BY <1>3, <1>5, <2>2
  <2> QED BY <1>1, <2>1, <2>2
<1> QED BY <1>5 DEF Leads, n

LEMMA InOrderPush ==
    ASSUME NEW s \in Seq(Step), s # <<>>, NEW q \in Seq(Step), InOrder(s), InOrder(q),
           \A i \in 1..Len(q), y \in Step : Fits(Head(s), y) => Fits(q[i], y),
           q # <<>> => \A y \in Step : Follows(Head(s), y) => Follows(q[Len(q)], y)
    PROVE  InOrder(q \o Tail(s))
<1> DEFINE n == q \o Tail(s)
           m == Len(q)
<1>1. /\ Len(n) = m + Len(s) - 1 /\ m \in Nat /\ Len(s) \in Nat
      /\ \A i \in 1..Len(n) : \/ i \in 1..m /\ n[i] = q[i]
                              \/ i - m + 1 \in 2..Len(s) /\ n[i] = s[i - m + 1] /\ i > m
  BY PushFacts
<1>2. 1 \in 1..Len(s) /\ Head(s) = s[1]
  BY TailFacts
<1>3. \A i \in 1..Len(s) : s[i] \in Step
  BY ElementOfSeq
<1> HIDE DEF n
<1>4. ASSUME NEW i \in 1..Len(n), NEW j \in 1..Len(n), i < j PROVE Fits(n[i], n[j])
  <2>1. CASE j \in 1..m
    <3>1. i \in 1..m /\ n[i] = q[i] /\ n[j] = q[j]
      BY <1>1, <1>4, <2>1
    <3> QED BY <1>4, <2>1, <3>1 DEF InOrder
  <2>2. CASE i \in 1..m /\ j > m
    <3>1. n[i] = q[i] /\ j - m + 1 \in 2..Len(s) /\ n[j] = s[j - m + 1]
      BY <1>1, <2>2
    <3>2. Fits(s[1], s[j - m + 1]) /\ s[j - m + 1] \in Step
      <4>1. 1 < j - m + 1 /\ j - m + 1 \in 1..Len(s)
        BY <1>1, <3>1
      <4> QED BY <1>2, <1>3, <4>1 DEF InOrder
    <3> QED BY <1>2, <2>2, <3>1, <3>2
  <2>3. CASE i > m
    <3>1. /\ i - m + 1 \in 1..Len(s) /\ n[i] = s[i - m + 1]
          /\ j - m + 1 \in 1..Len(s) /\ n[j] = s[j - m + 1] /\ i - m + 1 < j - m + 1
      BY <1>1, <1>4, <2>3
    <3> QED BY <3>1 DEF InOrder
  <2> QED BY <1>1, <2>1, <2>2, <2>3
<1>5. ASSUME NEW i \in 1..Len(n), NEW j \in 1..Len(n), j = i + 1 PROVE Follows(n[i], n[j])
  <2>1. CASE j \in 1..m
    <3>1. i \in 1..m /\ n[i] = q[i] /\ n[j] = q[j]
      BY <1>1, <1>5, <2>1
    <3> QED BY <1>5, <2>1, <3>1 DEF InOrder
  <2>2. CASE i \in 1..m /\ j > m
    <3>1. i = m /\ n[i] = q[m] /\ 2 \in 1..Len(s) /\ n[j] = s[2] /\ 2 = 1 + 1 /\ m >= 1
      BY <1>1, <1>5, <2>2
    <3>2. Follows(s[1], s[2]) /\ s[2] \in Step
      BY <1>2, <1>3, <3>1 DEF InOrder
    <3>3. q # <<>>
      BY <3>1
    <3> QED BY <1>2, <3>1, <3>2, <3>3
  <2>3. CASE i > m
    <3>1. /\ i - m + 1 \in 1..Len(s) /\ n[i] = s[i - m + 1]
          /\ j - m + 1 \in 1..Len(s) /\ n[j] = s[j - m + 1] /\ j - m + 1 = (i - m + 1) + 1
      BY <1>1, <1>5, <2>3
    <3> QED BY <3>1 DEF InOrder
  <2> QED BY <1>1, <2>1, <2>2, <2>3
<1> QED BY <1>4, <1>5 DEF InOrder, n

\* One list after another.
LEMMA ConcatFacts ==
    ASSUME NEW S, NEW s \in Seq(S), NEW t \in Seq(S)
    PROVE  /\ s \o t \in Seq(S) /\ Len(s \o t) = Len(s) + Len(t) /\ Len(s) \in Nat /\ Len(t) \in Nat
           /\ \A i \in 1..Len(s \o t) :
                \/ i \in 1..Len(s) /\ (s \o t)[i] = s[i]
                \/ i - Len(s) \in 1..Len(t) /\ (s \o t)[i] = t[i - Len(s)] /\ i > Len(s)
           /\ \A i \in 1..Len(s) : i \in 1..Len(s \o t) /\ (s \o t)[i] = s[i]
           /\ \A i \in 1..Len(t) : i + Len(s) \in 1..Len(s \o t) /\ (s \o t)[i + Len(s)] = t[i]
<1>1. /\ s \o t \in Seq(S) /\ Len(s \o t) = Len(s) + Len(t)
      /\ \A i \in 1 .. Len(s) + Len(t) : (s \o t)[i] = IF i <= Len(s) THEN s[i] ELSE t[i - Len(s)]
  BY ConcatProperties
<1>2. Len(s) \in Nat /\ Len(t) \in Nat
  BY LenProperties
<1> DEFINE n == s \o t
<1> HIDE DEF n
<1>3. ASSUME NEW i \in 1..Len(n)
      PROVE  \/ i \in 1..Len(s) /\ n[i] = s[i]
             \/ i - Len(s) \in 1..Len(t) /\ n[i] = t[i - Len(s)] /\ i > Len(s)
  <2>1. CASE i <= Len(s)
    BY <1>1, <1>2, <2>1 DEF n
  <2>2. CASE ~(i <= Len(s))
    BY <1>1, <1>2, <2>2 DEF n
  <2> QED BY <2>1, <2>2
<1>4. ASSUME NEW i \in 1..Len(s) PROVE i \in 1..Len(n) /\ n[i] = s[i]
  BY <1>1, <1>2 DEF n
<1>5. ASSUME NEW i \in 1..Len(t) PROVE i + Len(s) \in 1..Len(n) /\ n[i + Len(s)] = t[i]
  <2>1. i + Len(s) \in 1..(Len(s) + Len(t)) /\ ~(i + Len(s) <= Len(s)) /\ (i + Len(s)) - Len(s) = i
    BY <1>2
  <2> QED BY <1>1, <2>1 DEF n
<1> QED BY <1>1, <1>2, <1>3, <1>4, <1>5 DEF n

LEMMA LeadsConcat ==
    ASSUME NEW s \in Seq(Step), NEW t \in Seq(Step), NEW from, NEW goal, NEW bar,
           Leads(s, from, goal, bar), Leads(t, from, goal, bar)
    PROVE  Leads(s \o t, from, goal, bar)
<1> DEFINE n == s \o t
           m == Len(s)
<1>1. /\ Len(n) = m + Len(t) /\ m \in Nat /\ Len(t) \in Nat
      /\ \A i \in 1..Len(n) : \/ i \in 1..m /\ n[i] = s[i]
                              \/ i - m \in 1..Len(t) /\ n[i] = t[i - m] /\ i > m
      /\ \A i \in 1..m : i \in 1..Len(n) /\ n[i] = s[i]
      /\ \A i \in 1..Len(t) : i + m \in 1..Len(n) /\ n[i + m] = t[i]
  BY ConcatFacts
<1> HIDE DEF n, m
<1>2. ASSUME NEW i \in 1..Len(n), n[i][1] \in from PROVE Comes(n, i, goal, bar)
  <2>1. CASE i \in 1..m /\ n[i] = s[i]
    <3>1. PICK j \in i..m : s[j][1] \in goal /\ \A k \in i..j : k < j => s[k][1] \notin bar
      BY <1>2, <2>1 DEF Leads, Comes, m
    <3>2. j \in i..Len(n) /\ n[j] = s[j] /\ \A k \in i..j : n[k] = s[k]
      BY <1>1, <2>1
    <3> QED BY <3>1, <3>2 DEF Comes
  <2>2. CASE i - m \in 1..Len(t) /\ n[i] = t[i - m] /\ i > m
    <3>1. PICK j \in (i - m)..Len(t) :
            t[j][1] \in goal /\ \A k \in (i - m)..j : k < j => t[k][1] \notin bar
      BY <1>2, <2>2 DEF Leads, Comes
    <3>2. j + m \in i..Len(n) /\ n[j + m] = t[j]
      BY <1>1, <2>2
    <3>3. ASSUME NEW k \in i..(j + m), k < j + m PROVE n[k][1] \notin bar
      <4>1. k - m \in (i - m)..j /\ k - m < j /\ k - m \in 1..Len(t) /\ (k - m) + m = k
        BY <1>1, <2>2, <3>2, <3>3
      <4>2. n[k] = t[k - m]
        BY <1>1, <4>1
      <4> QED BY <3>1, <4>1, <4>2
    <3> QED BY <3>1, <3>2, <3>3 DEF Comes
  <2> QED BY <1>1, <2>1, <2>2
<1> QED BY <1>2 DEF Leads, n

\* Whatever is in it, a list whose last step is the goal leads to it.
LEMMA LeadsEnd ==
    ASSUME NEW s \in Seq(Step), NEW x \in Step, NEW from, NEW goal, NEW bar, x[1] \in goal,
           \A i, j \in 1..Len(s) : i < j /\ s[i][1] \in from => s[j][1] \notin bar,
           from \cap bar = {}
    PROVE  Leads(s \o <<x>>, from, goal, bar)
<1> DEFINE t == <<x>>
           n == s \o t
           m == Len(s)
<1>1. t \in Seq(Step) /\ Len(t) = 1 /\ t[1] = x
  OBVIOUS
<1>2. /\ Len(n) = m + 1 /\ m \in Nat
      /\ \A i \in 1..m : i \in 1..Len(n) /\ n[i] = s[i]
      /\ n[m + 1] = x
  <2>1. /\ Len(n) = m + Len(t) /\ m \in Nat
        /\ \A i \in 1..m : i \in 1..Len(n) /\ n[i] = s[i]
        /\ \A i \in 1..Len(t) : i + m \in 1..Len(n) /\ n[i + m] = t[i]
    BY <1>1, ConcatFacts
  <2> HIDE DEF t, n, m
  <2>2. n[1 + m] = x /\ 1 + m = m + 1
    BY <1>1, <2>1
  <2> QED BY <1>1, <2>1, <2>2
<1> HIDE DEF n, t
<1>3. ASSUME NEW i \in 1..Len(n), n[i][1] \in from PROVE Comes(n, i, goal, bar)
  <2>1. m + 1 \in i..Len(n) /\ n[m + 1][1] \in goal
    BY <1>2
  <2>2. ASSUME NEW k \in i..(m + 1), k < m + 1 PROVE n[k][1] \notin bar
    <3>1. k \in 1..m /\ i \in 1..m /\ n[k] = s[k] /\ n[i] = s[i] /\ (k = i \/ i < k)
      BY <1>2, <2>2
    <3> QED BY <1>3, <3>1
  <2> QED BY <2>1, <2>2 DEF Comes
<1> QED BY <1>3 DEF Leads, n, t

LEMMA InOrderConcat ==
    ASSUME NEW s \in Seq(Step), NEW t \in Seq(Step), InOrder(s), InOrder(t),
           \A x \in ToSet(s), y \in ToSet(t) : Fits(x, y) /\ Follows(x, y)
    PROVE  InOrder(s \o t)
<1> DEFINE n == s \o t
           m == Len(s)
<1>1. /\ Len(n) = m + Len(t) /\ m \in Nat /\ Len(t) \in Nat
      /\ \A i \in 1..Len(n) : \/ i \in 1..m /\ n[i] = s[i]
                              \/ i - m \in 1..Len(t) /\ n[i] = t[i - m] /\ i > m
  BY ConcatFacts
<1>2. (\A i \in 1..m : s[i] \in ToSet(s)) /\ (\A i \in 1..Len(t) : t[i] \in ToSet(t))
  BY ToSetFacts
<1> HIDE DEF n, m
<1>3. ASSUME NEW i \in 1..Len(n), NEW j \in 1..Len(n), i < j
      PROVE  Fits(n[i], n[j]) /\ (j = i + 1 => Follows(n[i], n[j]))
  <2>1. CASE j \in 1..m /\ n[j] = s[j]
    <3>1. i \in 1..m /\ n[i] = s[i]
      BY <1>1, <1>3, <2>1
    <3> QED BY <1>3, <2>1, <3>1 DEF InOrder, m
  <2>2. CASE i \in 1..m /\ n[i] = s[i] /\ j - m \in 1..Len(t) /\ n[j] = t[j - m]
    BY <1>2, <2>2
  <2>3. CASE i - m \in 1..Len(t) /\ n[i] = t[i - m] /\ i > m
    <3>1. j - m \in 1..Len(t) /\ n[j] = t[j - m] /\ i - m < j - m
          /\ (j = i + 1 => j - m = (i - m) + 1)
      BY <1>1, <1>3, <2>3
    <3> QED BY <2>3, <3>1 DEF InOrder
  <2> QED BY <1>1, <2>1, <2>2, <2>3
<1>4. \A i, j \in 1..Len(n) : j = i + 1 => i < j
  BY <1>1
<1> QED BY <1>3, <1>4 DEF InOrder, n

LEMMA ShutTail ==
    ASSUME NEW s \in Seq(Step), s # <<>>, Shut(s), Head(s)[1] # "lock"
    PROVE  Shut(Tail(s))
<1> DEFINE t == Tail(s)
<1>1. /\ Len(s) \in Nat /\ Len(s) >= 1 /\ Len(t) = Len(s) - 1 /\ Head(s) = s[1]
      /\ \A i \in 1..Len(t) : i + 1 \in 1..Len(s) /\ t[i] = s[i + 1]
  BY TailFacts
<1> HIDE DEF t
<1>2. ASSUME NEW j \in 1..Len(t), t[j][1] \in Closers
      PROVE  \E k \in 1..Len(t) : k < j /\ t[k][1] = "lock"
  <2>1. PICK k \in 1..Len(s) : k < j + 1 /\ s[k][1] = "lock"
    BY <1>1, <1>2 DEF Shut
  <2>2. k # 1
    BY <1>1, <2>1
  <2>3. k - 1 \in 1..Len(t) /\ k - 1 < j /\ (k - 1) + 1 = k
    BY <1>1, <2>1, <2>2
  <2> QED BY <1>1, <2>1, <2>3
<1> QED BY <1>2 DEF Shut, t

LEMMA ShutPush ==
    ASSUME NEW s \in Seq(Step), s # <<>>, Shut(s), Head(s)[1] # "lock", NEW q \in Seq(Step),
           \A i \in 1..Len(q) : q[i][1] \notin Closers
    PROVE  Shut(q \o Tail(s))
<1> DEFINE n == q \o Tail(s)
           m == Len(q)
<1>1. /\ Len(n) = m + Len(s) - 1 /\ m \in Nat /\ Len(s) \in Nat
      /\ \A i \in 1..Len(n) : \/ i \in 1..m /\ n[i] = q[i]
                              \/ i - m + 1 \in 2..Len(s) /\ n[i] = s[i - m + 1] /\ i > m
      /\ \A i \in 2..Len(s) : i + m - 1 \in 1..Len(n) /\ n[i + m - 1] = s[i]
  BY PushFacts
<1>2. 1 \in 1..Len(s) /\ Head(s) = s[1]
  BY TailFacts
<1> HIDE DEF n
<1>3. ASSUME NEW j \in 1..Len(n), n[j][1] \in Closers
      PROVE  \E k \in 1..Len(n) : k < j /\ n[k][1] = "lock"
  <2>1. j - m + 1 \in 2..Len(s) /\ n[j] = s[j - m + 1]
    BY <1>1, <1>3
  <2>2. PICK k \in 1..Len(s) : k < j - m + 1 /\ s[k][1] = "lock"
    <3>1. j - m + 1 \in 1..Len(s) /\ s[j - m + 1][1] \in Closers
      BY <1>3, <2>1
    <3> QED BY <3>1 DEF Shut
  <2>3. k \in 2..Len(s)
    BY <1>2, <2>2
  <2>4. k + m - 1 \in 1..Len(n) /\ n[k + m - 1] = s[k] /\ k + m - 1 < j
    BY <1>1, <2>2, <2>3
  <2> QED BY <2>2, <2>4
<1> QED BY <1>3 DEF Shut, n

LEMMA ShutConcat ==
    ASSUME NEW s \in Seq(Step), NEW t \in Seq(Step), Shut(s), Shut(t)
    PROVE  Shut(s \o t)
<1> DEFINE n == s \o t
           m == Len(s)
<1>1. /\ Len(n) = m + Len(t) /\ m \in Nat /\ Len(t) \in Nat
      /\ \A i \in 1..Len(n) : \/ i \in 1..m /\ n[i] = s[i]
                              \/ i - m \in 1..Len(t) /\ n[i] = t[i - m] /\ i > m
      /\ \A i \in 1..m : i \in 1..Len(n) /\ n[i] = s[i]
      /\ \A i \in 1..Len(t) : i + m \in 1..Len(n) /\ n[i + m] = t[i]
  BY ConcatFacts
<1> HIDE DEF n, m
<1>2. ASSUME NEW j \in 1..Len(n), n[j][1] \in Closers
      PROVE  \E k \in 1..Len(n) : k < j /\ n[k][1] = "lock"
  <2>1. CASE j \in 1..m /\ n[j] = s[j]
    <3>1. PICK k \in 1..m : k < j /\ s[k][1] = "lock"
      BY <1>2, <2>1 DEF Shut, m
    <3> QED BY <1>1, <3>1
  <2>2. CASE j - m \in 1..Len(t) /\ n[j] = t[j - m] /\ j > m
    <3>1. PICK k \in 1..Len(t) : k < j - m /\ t[k][1] = "lock"
      BY <1>2, <2>2 DEF Shut
    <3>2. k + m \in 1..Len(n) /\ n[k + m] = t[k] /\ k + m < j
      BY <1>1, <2>2, <3>1
    <3> QED BY <3>1, <3>2
  <2> QED BY <1>1, <2>1, <2>2
<1> QED BY <1>2 DEF Shut, n

\* A step that is taken with the mutex comes first, or after steps without a lock: then the
\* process has the mutex.
LEMMA NotShut ==
    ASSUME NEW s \in Seq(Step), NEW i \in 1..Len(s), NEW from, Leads(s, from, Closers, {"lock"}),
           s[i][1] \in from, \A j \in 1..Len(s) : j < i => s[j][1] # "lock"
    PROVE  ~Shut(s)
<1>1. Len(s) \in Nat
  BY LenProperties
<1>2. PICK j \in i..Len(s) : s[j][1] \in Closers /\ \A k \in i..j : k < j => s[k][1] # "lock"
  BY DEF Leads, Comes
<1>3. j \in 1..Len(s) /\ \A k \in 1..Len(s) : k < j => (k < i \/ k \in i..j)
  BY <1>1
<1>4. \A k \in 1..Len(s) : k < j => s[k][1] # "lock"
  BY <1>2, <1>3
<1> QED BY <1>2, <1>3, <1>4 DEF Shut

-----------------------------------------------------------------------------
(* The commands have that shape. *)

LEMMA ListShapes ==
    /\ Shape(<<>>) /\ Shape(<< A("unlock") >>) /\ Shape(<< A("scan") >>) /\ Shape(<< A("report") >>)
    /\ Shape(<< A("pin"), A("snap"), A("door"), A("check") >>)
    /\ Shape(<< A("unlock"), A("pin"), A("snap"), A("door"), A("check") >>)
    /\ Shape(<< A("sweep"), A("unlock"), A("snap"), A("door"), A("check") >>)
    /\ Shape(<< A("sweep"), A("decide") >>)
    /\ \A c \in Card :
        /\ Shape(<< <<"save", c>>, <<"lease", c>>, A("pin"), A("unlock"), A("snap"),
                   A("door"), A("check") >>)
        /\ Shape(<< A("unlock"), A("pin"), <<"join", c>>, A("pin"), A("snap"),
                   A("door"), A("check") >>)
        /\ Shape(<< <<"renew", c>>, A("unlock"), A("snap"), A("door"), A("check") >>)
        /\ Shape(<< <<"renew", c>>, A("snap"), A("door"), A("check"), A("unlock") >>)
        /\ Shape(<< <<"beat", c>>, A("unlock") >>)
        /\ Shape(<< <<"read", c>>, <<"down", c>>, <<"drop", c>>, <<"clear", c>>, A("pin"),
                   A("unlock"), A("snap"), A("door"), A("check") >>)
        /\ Shape(<< <<"join", c>>, A("leave") >>)
<1> USE DEF Shape, InOrder, Fits, Follows, Leads, Comes, Guarded, Watched, Repairing, Closers, Lookers, A
<1>1. Shape(<<>>) /\ Shape(<< A("unlock") >>) /\ Shape(<< A("scan") >>) /\ Shape(<< A("report") >>)
  BY SMTT(20)
<1>2. Shape(<< A("pin"), A("snap"), A("door"), A("check") >>)
  OBVIOUS
<1>3. Shape(<< A("unlock"), A("pin"), A("snap"), A("door"), A("check") >>)
  OBVIOUS
<1>4. Shape(<< A("sweep"), A("unlock"), A("snap"), A("door"), A("check") >>)
  OBVIOUS
<1>5. Shape(<< A("sweep"), A("decide") >>)
  OBVIOUS
<1>6. ASSUME NEW c \in Card
      PROVE  Shape(<< <<"save", c>>, <<"lease", c>>, A("pin"), A("unlock"), A("snap"),
                      A("door"), A("check") >>)
  <2> DEFINE u == << <<"save", c>>, <<"lease", c>>, A("pin"), A("unlock"), A("snap"),
                  A("door"), A("check") >>
  <2>1. \A i, j \in 1..Len(u) : i < j => Fits(u[i], u[j])
    OBVIOUS
  <2>2. \A i, j \in 1..Len(u) : j = i + 1 => Follows(u[i], u[j])
    OBVIOUS
  <2>3. Leads(u, Guarded, Closers, {"lock"})
    OBVIOUS
  <2>4. Leads(u, {"lease", "mend"}, Closers \cup {"scan"}, {"lock"})
    OBVIOUS
  <2>5. Leads(u, Watched, Lookers, {}) /\ Leads(u, Repairing, {"scan"}, {})
    OBVIOUS
  <2>6. Leads(u, {"join"}, Lookers \cup {"leave"}, {})
    OBVIOUS
  <2> HIDE DEF u, Fits, Follows, Leads, Comes
  <2>7. Shape(u)
    BY <2>1, <2>2, <2>3, <2>4, <2>5, <2>6
  <2> HIDE DEF Shape
  <2> QED BY <2>7 DEF u
<1>7. ASSUME NEW c \in Card
      PROVE  Shape(<< A("unlock"), A("pin"), <<"join", c>>, A("pin"), A("snap"),
                      A("door"), A("check") >>)
  <2> DEFINE u == << A("unlock"), A("pin"), <<"join", c>>, A("pin"), A("snap"),
                  A("door"), A("check") >>
  <2>1. \A i, j \in 1..Len(u) : i < j => Fits(u[i], u[j])
    OBVIOUS
  <2>2. \A i, j \in 1..Len(u) : j = i + 1 => Follows(u[i], u[j])
    OBVIOUS
  <2>3. Leads(u, Guarded, Closers, {"lock"})
    OBVIOUS
  <2>4. Leads(u, {"lease", "mend"}, Closers \cup {"scan"}, {"lock"})
    OBVIOUS
  <2>5. Leads(u, Watched, Lookers, {}) /\ Leads(u, Repairing, {"scan"}, {})
    OBVIOUS
  <2>6. Leads(u, {"join"}, Lookers \cup {"leave"}, {})
    OBVIOUS
  <2> HIDE DEF u, Fits, Follows, Leads, Comes
  <2>7. Shape(u)
    BY <2>1, <2>2, <2>3, <2>4, <2>5, <2>6
  <2> HIDE DEF Shape
  <2> QED BY <2>7 DEF u
<1>8. ASSUME NEW c \in Card
      PROVE  Shape(<< <<"renew", c>>, A("unlock"), A("snap"), A("door"), A("check") >>)
  OBVIOUS
<1>9. ASSUME NEW c \in Card
      PROVE  Shape(<< <<"renew", c>>, A("snap"), A("door"), A("check"), A("unlock") >>)
  <2> DEFINE u == << <<"renew", c>>, A("snap"), A("door"), A("check"), A("unlock") >>
  <2>1. \A i, j \in 1..Len(u) : i < j => Fits(u[i], u[j])
    OBVIOUS
  <2>2. \A i, j \in 1..Len(u) : j = i + 1 => Follows(u[i], u[j])
    OBVIOUS
  <2>3. Leads(u, Guarded, Closers, {"lock"})
    OBVIOUS
  <2>4. Leads(u, {"lease", "mend"}, Closers \cup {"scan"}, {"lock"})
    OBVIOUS
  <2>5. Leads(u, Watched, Lookers, {}) /\ Leads(u, Repairing, {"scan"}, {})
    OBVIOUS
  <2>6. Leads(u, {"join"}, Lookers \cup {"leave"}, {})
    OBVIOUS
  <2> HIDE DEF u, Fits, Follows, Leads, Comes
  <2>7. Shape(u)
    BY <2>1, <2>2, <2>3, <2>4, <2>5, <2>6
  <2> HIDE DEF Shape
  <2> QED BY <2>7 DEF u
<1>10. ASSUME NEW c \in Card
      PROVE  Shape(<< <<"beat", c>>, A("unlock") >>)
  OBVIOUS
<1>11. ASSUME NEW c \in Card
      PROVE  Shape(<< <<"read", c>>, <<"down", c>>, <<"drop", c>>, <<"clear", c>>, A("pin"),
                      A("unlock"), A("snap"), A("door"), A("check") >>)
  <2> DEFINE u == << <<"read", c>>, <<"down", c>>, <<"drop", c>>, <<"clear", c>>, A("pin"),
                  A("unlock"), A("snap"), A("door"), A("check") >>
  <2>1. \A i, j \in 1..Len(u) : i < j => Fits(u[i], u[j])
    OBVIOUS
  <2>2. \A i, j \in 1..Len(u) : j = i + 1 => Follows(u[i], u[j])
    OBVIOUS
  <2>3. Leads(u, Guarded, Closers, {"lock"})
    OBVIOUS
  <2>4. Leads(u, {"lease", "mend"}, Closers \cup {"scan"}, {"lock"})
    OBVIOUS
  <2>5. Leads(u, Watched, Lookers, {}) /\ Leads(u, Repairing, {"scan"}, {})
    OBVIOUS
  <2>6. Leads(u, {"join"}, Lookers \cup {"leave"}, {})
    OBVIOUS
  <2> HIDE DEF u, Fits, Follows, Leads, Comes
  <2>7. Shape(u)
    BY <2>1, <2>2, <2>3, <2>4, <2>5, <2>6
  <2> HIDE DEF Shape
  <2> QED BY <2>7 DEF u
<1>12. ASSUME NEW c \in Card
      PROVE  Shape(<< <<"join", c>>, A("leave") >>)
  OBVIOUS
<1> HIDE DEF Shape, InOrder, Fits, Follows, Leads, Comes, Guarded, Watched, Repairing, Closers, Lookers, A
<1> QED BY <1>1, <1>2, <1>3, <1>4, <1>5, <1>6, <1>7, <1>8, <1>9, <1>10, <1>11, <1>12

-----------------------------------------------------------------------------
(* What doctor does about what it found. *)

Torn == {c \in Card : claim[c] = "torn"}
TornLeases == {c \in Card : lease[c] = "torn"}
Unleased == {c \in Card : Up(c) /\ lease[c] \notin Readable}
Orphans == {c \in Card : lease[c] \in Readable /\ ~There(c)}

ToRepair == Repairs \o << A("scan") >>

\* A part of the list of repairs, of steps with these verbs.
Part(s, verbs) ==
    /\ s \in Seq(Step) /\ InOrder(s) /\ Shut(s) /\ Leads(s, Guarded, Closers, {"lock"})
    /\ \A x \in ToSet(s) : x[1] \in verbs

LEMMA PartEnd ==
    ASSUME NEW s, NEW t, NEW V, NEW W, Part(s, V), Part(t, W),
           \A x \in Step, y \in ToSet(t) : x[1] \in V => Fits(x, y) /\ Follows(x, y)
    PROVE  Part(s \o t, V \cup W) /\ ToSet(s \o t) = ToSet(s) \cup ToSet(t)
<1>1. ToSet(s) \subseteq Step /\ ToSet(t) \subseteq Step
  BY ToSetFacts DEF Part
<1>2. \A x \in ToSet(s), y \in ToSet(t) : Fits(x, y) /\ Follows(x, y)
  BY <1>1 DEF Part
<1>3. InOrder(s \o t)
  BY <1>2, InOrderConcat DEF Part
<1>4. s \o t \in Seq(Step) /\ ToSet(s \o t) = ToSet(s) \cup ToSet(t)
  BY ToSetConcat DEF Part
<1>5. Shut(s \o t) /\ Leads(s \o t, Guarded, Closers, {"lock"})
  BY ShutConcat, LeadsConcat DEF Part
<1> QED BY <1>3, <1>4, <1>5 DEF Part

LEMMA PartConcat ==
    ASSUME NEW s, NEW t, NEW V, NEW W, Part(s, V), Part(t, W),
           \A x, y \in Step : x[1] \in V /\ y[1] \in W => Fits(x, y) /\ Follows(x, y)
    PROVE  Part(s \o t, V \cup W) /\ ToSet(s \o t) = ToSet(s) \cup ToSet(t)
<1>1. \A x \in Step, y \in ToSet(t) : x[1] \in V => Fits(x, y) /\ Follows(x, y)
  <2>1. ToSet(t) \subseteq Step
    BY ToSetFacts DEF Part
  <2> QED BY <2>1 DEF Part
<1> QED BY <1>1, PartEnd

LEMMA ForEachPart ==
    ASSUME NEW verb \in {"moveclaim", "movelease", "mend", "orphan"}, NEW cards \in SUBSET Card
    PROVE  Part(ForEach(verb, cards), {verb})
<1> DEFINE s == ForEach(verb, cards)
<1>1. verb \in Verb
  BY DEF Verb
<1>2. s \in Seq(Step) /\ ToSet(s) = {verb} \X cards
  BY <1>1, ForEachFacts
<1> HIDE DEF s
<1>3. \A i \in 1..Len(s) : s[i][1] = verb
  <2>1. ASSUME NEW i \in 1..Len(s) PROVE s[i] \in {verb} \X cards
    BY <1>2, ToSetFacts
  <2> QED BY <2>1
<1>4. InOrder(s)
  BY <1>3 DEF InOrder, Fits, Follows
<1>5. Shut(s) /\ Leads(s, Guarded, Closers, {"lock"})
  BY <1>3 DEF Shut, Leads, Closers, Guarded
<1>6. \A x \in ToSet(s) : x[1] \in {verb}
  BY <1>2
<1> QED BY <1>2, <1>4, <1>5, <1>6 DEF Part, s

\* The parts that are there only when there is something to do.
LEMMA WhenParts ==
    ASSUME NEW cond \in BOOLEAN
    PROVE  /\ Part(When(cond, SweepSteps), {"lock", "sweep", "unlock"})
           /\ ToSet(When(cond, SweepSteps)) = IF cond THEN {A("lock"), A("sweep"), A("unlock")} ELSE {}
           /\ Part(When(cond, << A("tmp") >>), {"tmp"})
           /\ ToSet(When(cond, << A("tmp") >>)) = IF cond THEN {A("tmp")} ELSE {}
           /\ Part(When(cond, << A("break") >>), {"break"})
           /\ ToSet(When(cond, << A("break") >>)) = IF cond THEN {A("break")} ELSE {}
           /\ Part(When(cond, << A("snap"), A("door") >>) \o << A("scan") >>, {"snap", "door", "scan"})
           /\ ToSet(When(cond, << A("snap"), A("door") >>) \o << A("scan") >>) =
                IF cond THEN {A("snap"), A("door"), A("scan")} ELSE {A("scan")}
           /\ When(cond, << A("snap"), A("door") >>) \in Seq(Step)
<1>1. A("lock") \in Step /\ A("sweep") \in Step /\ A("unlock") \in Step /\ A("tmp") \in Step
      /\ A("break") \in Step /\ A("snap") \in Step /\ A("door") \in Step /\ A("scan") \in Step
  BY DEF A, Step, Verb
<1>2. Part(<<>>, {}) /\ ToSet(<<>>) = {}
  BY DEF Part, InOrder, Shut, Leads, ToSet
<1>3. ASSUME NEW s \in { <<A("lock"), A("sweep"), A("unlock")>>, <<A("tmp")>>, <<A("break")>>,
                         <<A("snap"), A("door"), A("scan")>>, <<A("scan")>> }
      PROVE  /\ s \in Seq(Step) /\ InOrder(s) /\ Shut(s) /\ Leads(s, Guarded, Closers, {"lock"})
  <2>1. CASE s = <<A("lock"), A("sweep"), A("unlock")>>
    <3>1. s \in Seq(Step)
      BY <1>1, <2>1
    <3>2. InOrder(s)
      BY <2>1 DEF InOrder, Fits, Follows, A
    <3>3. Shut(s)
      BY <2>1 DEF Shut, Closers, A
    <3>4. Leads(s, Guarded, Closers, {"lock"})
      BY <2>1 DEF Leads, Comes, Guarded, Closers, A
    <3> QED BY <3>1, <3>2, <3>3, <3>4
  <2>2. CASE s = <<A("tmp")>>
    BY <1>1, <2>2 DEF InOrder, Fits, Follows, Shut, Leads, Comes, Guarded, Closers, A
  <2>3. CASE s = <<A("break")>>
    BY <1>1, <2>3 DEF InOrder, Fits, Follows, Shut, Leads, Comes, Guarded, Closers, A
  <2>4. CASE s = <<A("snap"), A("door"), A("scan")>>
    BY <1>1, <2>4 DEF InOrder, Fits, Follows, Shut, Leads, Comes, Guarded, Closers, A
  <2>5. CASE s = <<A("scan")>>
    BY <1>1, <2>5 DEF InOrder, Fits, Follows, Shut, Leads, Comes, Guarded, Closers, A
  <2> QED BY <2>1, <2>2, <2>3, <2>4, <2>5
<1>4. /\ ToSet(<<A("lock"), A("sweep"), A("unlock")>>) = {A("lock"), A("sweep"), A("unlock")}
      /\ ToSet(<<A("tmp")>>) = {A("tmp")} /\ ToSet(<<A("break")>>) = {A("break")}
      /\ ToSet(<<A("snap"), A("door"), A("scan")>>) = {A("snap"), A("door"), A("scan")}
      /\ ToSet(<<A("scan")>>) = {A("scan")}
  BY DEF ToSet
<1>5. <<A("snap"), A("door")>> \o <<A("scan")>> = <<A("snap"), A("door"), A("scan")>>
  <2> DEFINE s == <<A("snap"), A("door")>>
             t == <<A("scan")>>
             u == <<A("snap"), A("door"), A("scan")>>
  <2>1. s \in Seq(Step) /\ t \in Seq(Step) /\ u \in Seq(Step) /\ Len(u) = Len(s) + Len(t)
    BY <1>1
  <2>2. (\A i \in 1..Len(s) : u[i] = s[i]) /\ (\A i \in 1..Len(t) : u[Len(s) + i] = t[i])
    OBVIOUS
  <2> QED BY <2>1, <2>2, Glue
<1>6. <<>> \o <<A("scan")>> = <<A("scan")>>
  <2>1. <<A("scan")>> \in Seq(Step)
    BY <1>1
  <2> QED BY <2>1, ConcatEmptySeq
<1>7. /\ Part(<<A("lock"), A("sweep"), A("unlock")>>, {"lock", "sweep", "unlock"})
      /\ Part(<<A("tmp")>>, {"tmp"}) /\ Part(<<A("break")>>, {"break"})
      /\ Part(<<A("snap"), A("door"), A("scan")>>, {"snap", "door", "scan"})
      /\ Part(<<A("scan")>>, {"snap", "door", "scan"})
  <2>1. \A v : A(v)[1] = v
    BY DEF A
  <2> QED BY <1>3, <1>4, <2>1 DEF Part
<1>8. \A V : Part(<<>>, V)
  BY <1>2 DEF Part
<1>9. <<A("snap"), A("door")>> \in Seq(Step) /\ <<>> \in Seq(Step)
  BY <1>1
<1> HIDE DEF Part
<1> QED BY <1>2, <1>4, <1>5, <1>6, <1>7, <1>8, <1>9 DEF When, SweepSteps

\* The list of repairs, with the scan after them.
LEMMA RepairsFacts ==
    ASSUME junk \in BOOLEAN
    PROVE
    /\ Repairs \in Seq(Step) /\ ToRepair \in Seq(Step) /\ Shape(ToRepair) /\ Shut(ToRepair)
    /\ ToSet(ToRepair) =
         ({"moveclaim"} \X Torn) \cup ({"movelease"} \X TornLeases)
         \cup (IF \E c \in Card : Stale(c) THEN {A("lock"), A("sweep"), A("unlock")} ELSE {})
         \cup ({"mend"} \X Unleased) \cup ({"orphan"} \X Orphans)
         \cup (IF junk THEN {A("tmp")} ELSE {}) \cup (IF mutex \in {"recent", "dead"} THEN {A("break")} ELSE {})
         \cup (IF door # Snapshot THEN {A("snap"), A("door"), A("scan")} ELSE {A("scan")})
<1> DEFINE M == ForEach("moveclaim", Torn)
           L == ForEach("movelease", TornLeases)
           S == When(\E c \in Card : Stale(c), SweepSteps)
           N == ForEach("mend", Unleased)
           O == ForEach("orphan", Orphans)
           T == When(junk, << A("tmp") >>)
           B == When(mutex \in {"recent", "dead"}, << A("break") >>)
           D == When(door # Snapshot, << A("snap"), A("door") >>)
           E == D \o << A("scan") >>
           R7 == ((((((M \o L) \o S) \o N) \o O) \o T) \o B)
<1>1. Repairs = R7 \o D
  BY DEF Repairs, Torn, TornLeases, Unleased, Orphans
<1>2. Part(M, {"moveclaim"}) /\ Part(L, {"movelease"}) /\ Part(N, {"mend"}) /\ Part(O, {"orphan"})
  BY ForEachPart DEF Torn, TornLeases, Unleased, Orphans
<1>3. /\ ToSet(M) = {"moveclaim"} \X Torn /\ ToSet(L) = {"movelease"} \X TornLeases
      /\ ToSet(N) = {"mend"} \X Unleased /\ ToSet(O) = {"orphan"} \X Orphans
  BY ForEachFacts DEF Torn, TornLeases, Unleased, Orphans, Verb
<1>4. Part(S, {"lock", "sweep", "unlock"})
      /\ ToSet(S) = IF \E c \in Card : Stale(c) THEN {A("lock"), A("sweep"), A("unlock")} ELSE {}
  BY WhenParts
<1>5. Part(B, {"break"}) /\ ToSet(B) = IF mutex \in {"recent", "dead"} THEN {A("break")} ELSE {}
  <2> DEFINE held == mutex \in {"recent", "dead"}
  <2>1. held \in BOOLEAN
    OBVIOUS
  <2> HIDE DEF held
  <2>2. /\ Part(When(held, << A("break") >>), {"break"})
        /\ ToSet(When(held, << A("break") >>)) = IF held THEN {A("break")} ELSE {}
    BY <2>1, WhenParts
  <2> QED BY <2>2 DEF held
<1>6. /\ Part(E, {"snap", "door", "scan"}) /\ D \in Seq(Step)
      /\ ToSet(E) = IF door # Snapshot THEN {A("snap"), A("door"), A("scan")} ELSE {A("scan")}
  BY WhenParts
<1>7. Part(T, {"tmp"}) /\ ToSet(T) = IF junk THEN {A("tmp")} ELSE {}
  BY WhenParts
<1> HIDE DEF M, L, S, N, O, T, B, D, E
<1> DEFINE R1 == M \o L
           R2 == R1 \o S
           R3 == R2 \o N
           R4 == R3 \o O
           R5 == R4 \o T
           R6 == R5 \o B
           V1 == {"moveclaim"} \cup {"movelease"}
           V2 == V1 \cup {"lock", "sweep", "unlock"}
           V3 == V2 \cup {"mend"}
           V4 == V3 \cup {"orphan"}
           V5 == V4 \cup {"tmp"}
           V6 == V5 \cup {"break"}
           V7 == V6 \cup {"snap", "door", "scan"}
<1>8. Part(R1, V1) /\ ToSet(R1) = ToSet(M) \cup ToSet(L)
  <2>1. \A x, y \in Step : x[1] \in {"moveclaim"} /\ y[1] \in {"movelease"} => Fits(x, y) /\ Follows(x, y)
    BY DEF Fits, Follows
  <2> QED BY <1>2, <2>1, PartConcat
<1> HIDE DEF R1
<1>9. Part(R2, V2) /\ ToSet(R2) = ToSet(R1) \cup ToSet(S)
  <2>1. \A x, y \in Step : x[1] \in V1 /\ y[1] \in {"lock", "sweep", "unlock"} => Fits(x, y) /\ Follows(x, y)
    BY DEF Fits, Follows
  <2> HIDE DEF V1
  <2> QED BY <1>4, <1>8, <2>1, PartConcat
<1> HIDE DEF R2
<1>10. Part(R3, V3) /\ ToSet(R3) = ToSet(R2) \cup ToSet(N)
  <2>1. \A x, y \in Step : x[1] \in V2 /\ y[1] \in {"mend"} => Fits(x, y) /\ Follows(x, y)
    BY DEF Fits, Follows
  <2> HIDE DEF V2
  <2> QED BY <1>2, <1>9, <2>1, PartConcat
<1> HIDE DEF R3
<1>11. Part(R4, V4) /\ ToSet(R4) = ToSet(R3) \cup ToSet(O)
  <2>1. \A x, y \in Step : x[1] \in V3 /\ y[1] \in {"orphan"} => Fits(x, y) /\ Follows(x, y)
    BY DEF Fits, Follows
  <2> HIDE DEF V3
  <2> QED BY <1>2, <1>10, <2>1, PartConcat
<1> HIDE DEF R4
<1>12. Part(R5, V5) /\ ToSet(R5) = ToSet(R4) \cup ToSet(T)
  <2>1. \A x, y \in Step : x[1] \in V4 /\ y[1] \in {"tmp"} => Fits(x, y) /\ Follows(x, y)
    BY DEF Fits, Follows
  <2> HIDE DEF V4
  <2> QED BY <1>7, <1>11, <2>1, PartConcat
<1> HIDE DEF R5
<1>13. Part(R6, V6) /\ ToSet(R6) = ToSet(R5) \cup ToSet(B)
  <2>1. \A x, y \in Step : x[1] \in V5 /\ y[1] \in {"break"} => Fits(x, y) /\ Follows(x, y)
    BY DEF Fits, Follows
  <2> HIDE DEF V5
  <2> QED BY <1>5, <1>12, <2>1, PartConcat
<1> HIDE DEF R6
<1>14. Part(R6 \o E, V7) /\ ToSet(R6 \o E) = ToSet(R6) \cup ToSet(E)
  <2>1. \A x \in Step, y \in {A("snap"), A("door"), A("scan")} :
            x[1] \in V6 => Fits(x, y) /\ Follows(x, y)
    BY DEF Fits, Follows, A
  <2>2. ToSet(E) \subseteq {A("snap"), A("door"), A("scan")}
    BY <1>6
  <2>3. \A x \in Step, y \in ToSet(E) : x[1] \in V6 => Fits(x, y) /\ Follows(x, y)
    BY <2>1, <2>2
  <2> HIDE DEF V6
  <2> QED BY <1>6, <1>13, <2>3, PartEnd
<1>15. Repairs = R6 \o D
  BY <1>1 DEF R6, R5, R4, R3, R2, R1
<1>16. A("scan") \in Step /\ A("scan")[1] = "scan" /\ << A("scan") >> \in Seq(Step)
  BY DEF A, Step, Verb
<1>17. R6 \in Seq(Step)
  BY <1>13 DEF Part
<1>18. ToRepair = R6 \o E
  BY <1>6, <1>15, <1>16, <1>17, ConcatAssociative DEF ToRepair, E
<1>19. Repairs \in Seq(Step)
  BY <1>6, <1>15, <1>17, ConcatProperties
<1>20. /\ ToRepair \in Seq(Step) /\ InOrder(ToRepair) /\ Shut(ToRepair)
       /\ Leads(ToRepair, Guarded, Closers, {"lock"})
  BY <1>14, <1>18 DEF Part
<1>21. Leads(ToRepair, {"lease", "mend"}, Closers \cup {"scan"}, {"lock"})
  <2>1. ASSUME NEW i \in 1..Len(Repairs), NEW j \in 1..Len(Repairs), i < j,
               Repairs[i][1] \in {"lease", "mend"}, Repairs[j][1] \in {"lock"}
        PROVE  FALSE
    <3>1. /\ i \in 1..Len(ToRepair) /\ ToRepair[i] = Repairs[i]
          /\ j \in 1..Len(ToRepair) /\ ToRepair[j] = Repairs[j]
      BY <1>16, <1>19, ConcatFacts DEF ToRepair
    <3>2. Fits(ToRepair[i], ToRepair[j])
      BY <1>20, <2>1, <3>1 DEF InOrder
    <3> QED BY <2>1, <3>1, <3>2 DEF Fits
  <2>2. \A i, j \in 1..Len(Repairs) :
            i < j /\ Repairs[i][1] \in {"lease", "mend"} => Repairs[j][1] \notin {"lock"}
    BY <2>1
  <2> QED BY <1>16, <1>19, <2>2, LeadsEnd DEF ToRepair
<1>22. /\ Leads(ToRepair, Watched, Lookers, {}) /\ Leads(ToRepair, Repairing, {"scan"}, {})
       /\ Leads(ToRepair, {"join"}, Lookers \cup {"leave"}, {})
  BY <1>16, <1>19, LeadsEnd DEF ToRepair, Lookers
<1>23. ToSet(ToRepair) = ToSet(M) \cup ToSet(L) \cup ToSet(S) \cup ToSet(N) \cup ToSet(O)
                         \cup ToSet(T) \cup ToSet(B) \cup ToSet(E)
  BY <1>8, <1>9, <1>10, <1>11, <1>12, <1>13, <1>14, <1>18
<1>24. Shape(ToRepair)
  BY <1>20, <1>21, <1>22 DEF Shape
<1> QED BY <1>3, <1>4, <1>5, <1>6, <1>7, <1>19, <1>20, <1>23, <1>24

-----------------------------------------------------------------------------
(* One step of a process. *)

LEMMA MemoryFacts ==
    /\ Idle \in Memory /\ Idle.todo = <<>> /\ Idle.rounds = 0
    /\ \A mem \in Memory : mem.todo \in Seq(Step) /\ mem.seen \in Snapshots \cup {None}
                           /\ mem.staged \in BOOLEAN /\ mem.tries \in Nat /\ mem.rounds \in Nat
                           /\ mem.entry \in Entry \cup {None}
    /\ \A mem \in Memory, todo \in Seq(Step) :
          /\ [mem EXCEPT !.todo = todo] \in Memory
          /\ [mem EXCEPT !.todo = todo].todo = todo
          /\ [mem EXCEPT !.todo = todo].seen = mem.seen
          /\ [mem EXCEPT !.todo = todo].staged = mem.staged
          /\ [mem EXCEPT !.todo = todo].rounds = mem.rounds
<1>1. Idle \in Memory /\ Idle.todo = <<>> /\ Idle.rounds = 0
  BY DEF Idle, Memory, Step
<1> QED BY <1>1 DEF Memory, Step

\* A process goes on; the others do not notice.
LEMMA GoesOnFacts ==
    ASSUME proc \in [Process -> Memory], NEW p \in Process, NEW mem \in Memory, GoesOn(p, mem)
    PROVE  /\ proc' \in [Process -> Memory]
           /\ proc'[p] = IF mem.todo = <<>> THEN Idle ELSE mem
           /\ proc'[p].todo = mem.todo
           /\ \A q \in Process : q # p => proc'[q] = proc[q]
<1> DEFINE new == IF mem.todo = <<>> THEN Idle ELSE mem
<1>1. new \in Memory /\ new.todo = mem.todo
  BY MemoryFacts
<1>2. proc' = [proc EXCEPT ![p] = new]
  BY DEF GoesOn
<1> HIDE DEF new
<1>3. proc' \in [Process -> Memory] /\ proc'[p] = new /\ \A q \in Process : q # p => proc'[q] = proc[q]
  BY <1>1, <1>2
<1> QED BY <1>1, <1>3 DEF new

LEMMA GoesToFacts ==
    ASSUME proc \in [Process -> Memory], NEW p \in Process, NEW todo \in Seq(Step), GoesTo(p, todo)
    PROVE  /\ proc' \in [Process -> Memory]
           /\ proc'[p].todo = todo
           /\ todo = <<>> => proc'[p] = Idle
           /\ todo # <<>> => /\ proc'[p].seen = proc[p].seen
                             /\ proc'[p].staged = proc[p].staged
                             /\ proc'[p].rounds = proc[p].rounds
           /\ \A q \in Process : q # p => proc'[q] = proc[q]
<1> DEFINE mem == [proc[p] EXCEPT !.todo = todo]
<1>1. proc[p] \in Memory
  OBVIOUS
<1>2. /\ mem \in Memory /\ mem.todo = todo /\ mem.seen = proc[p].seen
      /\ mem.staged = proc[p].staged /\ mem.rounds = proc[p].rounds
  BY <1>1, MemoryFacts
<1>3. GoesOn(p, mem)
  BY DEF GoesTo
<1> HIDE DEF mem
<1>4. /\ proc' \in [Process -> Memory]
      /\ proc'[p] = IF mem.todo = <<>> THEN Idle ELSE mem
      /\ proc'[p].todo = mem.todo
      /\ \A q \in Process : q # p => proc'[q] = proc[q]
  BY <1>2, <1>3, GoesOnFacts
<1> QED BY <1>2, <1>4

\* What is left after the first step.
LEMMA RestFacts ==
    ASSUME proc \in [Process -> Memory], NEW p \in Process, NEW verb, NEW c, Takes(p, verb, c)
    PROVE  /\ proc[p].todo \in Seq(Step) /\ proc[p].todo # <<>> /\ Rest(p) \in Seq(Step)
           /\ Head(proc[p].todo) = <<verb, c>> /\ Rest(p) = Tail(proc[p].todo)
           /\ <<verb, c>> \in ToSet(proc[p].todo)
           /\ ToSet(proc[p].todo) = ToSet(Rest(p)) \cup {<<verb, c>>}
<1>1. proc[p] \in Memory
  OBVIOUS
<1>2. proc[p].todo \in Seq(Step)
  BY <1>1, MemoryFacts
<1>3. proc[p].todo # <<>> /\ Head(proc[p].todo) = <<verb, c>>
  BY DEF Takes, Busy
<1>4. Rest(p) \in Seq(Step)
  BY <1>2, <1>3, TailFacts DEF Rest
<1> QED BY <1>2, <1>3, <1>4, ToSetTail DEF Rest

LEMMA IsTail ==
    ASSUME NEW u \in Seq(Step), NEW s \in Seq(Step), Len(u) = Len(s) + 1,
           \A i \in 1..Len(s) : u[i + 1] = s[i]
    PROVE  u # <<>> /\ Head(u) = u[1] /\ Tail(u) = s
<1>1. Len(s) \in Nat
  BY LenProperties
<1>2. u # <<>>
  BY <1>1, EmptySeq
<1>3. Tail(u) \in Seq(Step) /\ Len(Tail(u)) = Len(u) - 1 /\ Head(u) = u[1]
      /\ \A i \in 1..Len(Tail(u)) : Tail(u)[i] = u[i + 1]
  BY <1>2, TailFacts
<1>4. Len(Tail(u)) = Len(s) /\ \A i \in 1..Len(Tail(u)) : Tail(u)[i] = s[i]
  BY <1>1, <1>3
<1>5. Tail(u) = s
  BY <1>3, <1>4, SeqEqual
<1> QED BY <1>2, <1>3, <1>5

-----------------------------------------------------------------------------
(* How a command starts, and goes on after claim has decided. *)

\* The steps a command starts with are of the right shape, and none of them depends on
\* what somebody found out before.
Fresh(todo) ==
    /\ todo \in Seq(Step) /\ todo # <<>> /\ Shape(todo)
    /\ \A x \in ToSet(todo) : x[1] \notin {"save", "lease", "mend", "orphan", "moveclaim", "reap", "scan", "report"}

\* A card is only taken down by a command that has yet to read it.
ReadsFirst(todo) ==
    \A c \in Card : <<"down", c>> \in ToSet(todo) \/ <<"drop", c>> \in ToSet(todo) =>
        /\ claim[c] # "unused"
        /\ <<"read", c>> \in ToSet(todo) /\ <<"down", c>> \in ToSet(todo)

\* What a command starts with: the mutex, or steps that can do without.
Opens(steps) ==
    \/ Head(steps) = A("lock") /\ Fresh(Tail(steps)) /\ ReadsFirst(Tail(steps))
    \/ Head(steps) # A("lock") /\ Fresh(steps) /\ ReadsFirst(steps) /\ Shut(steps)

LEMMA FreshFacts ==
    ASSUME NEW todo \in Seq(Step), Len(todo) # 0, Shape(todo),
           \A i \in 1..Len(todo) : todo[i][1] \notin
               {"save", "lease", "mend", "orphan", "moveclaim", "reap", "scan", "report"},
           \A i \in 1..Len(todo) : todo[i][1] \in {"down", "drop"} =>
               /\ todo[i][2] \in Card => claim[todo[i][2]] # "unused"
               /\ \E j \in 1..Len(todo) : todo[j] = <<"read", todo[i][2]>>
               /\ \E j \in 1..Len(todo) : todo[j] = <<"down", todo[i][2]>>
    PROVE  Fresh(todo) /\ ReadsFirst(todo)
<1>1. \A x : x \in ToSet(todo) <=> \E i \in 1..Len(todo) : todo[i] = x
  BY ToSetFacts
<1>2. todo # <<>>
  OBVIOUS
<1>3. Fresh(todo)
  BY <1>1, <1>2 DEF Fresh
<1>4. ASSUME NEW c \in Card, NEW v \in {"down", "drop"}, <<v, c>> \in ToSet(todo)
      PROVE  claim[c] # "unused" /\ <<"read", c>> \in ToSet(todo) /\ <<"down", c>> \in ToSet(todo)
  <2>1. PICK i \in 1..Len(todo) : todo[i] = <<v, c>>
    BY <1>1, <1>4
  <2>2. todo[i][1] \in {"down", "drop"} /\ todo[i][2] = c
    BY <2>1
  <2> QED BY <1>1, <2>2
<1> QED BY <1>3, <1>4 DEF ReadsFirst

LEMMA PlainFresh ==
    ASSUME NEW todo \in Seq(Step), Len(todo) # 0, Shape(todo),
           \A i \in 1..Len(todo) : todo[i][1] \notin
               {"save", "lease", "mend", "orphan", "moveclaim", "reap", "scan", "report", "down", "drop"}
    PROVE  Fresh(todo) /\ ReadsFirst(todo)
BY FreshFacts

LEMMA Openings ==
    /\ Opens(ClaimSteps) /\ Opens(ReapSteps) /\ Opens(PinSteps)
    /\ \A c \in Card :
        /\ claim[c] # "unused" => Opens(ReleaseSteps(c))
        /\ Opens(HeartbeatSteps(c)) /\ Opens(RunBeatSteps(c)) /\ Opens(RenewSteps(c)) /\ Opens(WaitSteps(c))
<1>1. Opens(ClaimSteps)
  <2> DEFINE u == << A("lock"), A("sweep"), A("decide") >>
             t == << A("sweep"), A("decide") >>
  <2>1. u \in Seq(Step) /\ t \in Seq(Step)
    BY StepFacts DEF Verb
  <2>2. Head(u) = A("lock") /\ Tail(u) = t
    BY <2>1, IsTail
  <2>7. Len(t) # 0 /\ \A i \in 1..Len(t) : t[i][1] \notin
               {"save", "lease", "mend", "orphan", "moveclaim", "reap", "scan", "report", "down", "drop"}
    BY DEF A
  <2>3. Fresh(t) /\ ReadsFirst(t)
    <3>1. Shape(t)
      BY ListShapes
    <3> HIDE DEF t
    <3> QED BY <2>1, <2>7, <3>1, PlainFresh
  <2> QED BY <2>2, <2>3 DEF Opens, ClaimSteps
<1>2. Opens(ReapSteps)
  <2> DEFINE u == << A("lock"), A("sweep"), A("unlock"), A("snap"), A("door"), A("check") >>
             t == << A("sweep"), A("unlock"), A("snap"), A("door"), A("check") >>
  <2>1. u \in Seq(Step) /\ t \in Seq(Step)
    BY StepNames
  <2>2. Head(u) = A("lock") /\ Tail(u) = t
    BY <2>1, IsTail
  <2>7. Len(t) # 0 /\ \A i \in 1..Len(t) : t[i][1] \notin
               {"save", "lease", "mend", "orphan", "moveclaim", "reap", "scan", "report", "down", "drop"}
    BY DEF A
  <2>3. Fresh(t) /\ ReadsFirst(t)
    <3>1. Shape(t)
      BY ListShapes
    <3> HIDE DEF t
    <3> QED BY <2>1, <2>7, <3>1, PlainFresh
  <2> QED BY <2>2, <2>3, Lists DEF Opens
<1>3. Opens(PinSteps)
  <2> DEFINE t == << A("pin"), A("snap"), A("door"), A("check") >>
  <2>1. t \in Seq(Step)
    BY StepNames
  <2>7. Len(t) # 0 /\ \A i \in 1..Len(t) : t[i][1] \notin
               {"save", "lease", "mend", "orphan", "moveclaim", "reap", "scan", "report", "down", "drop"}
    BY DEF A
  <2>2. Fresh(t) /\ ReadsFirst(t)
    <3>1. Shape(t)
      BY ListShapes
    <3> HIDE DEF t
    <3> QED BY <2>1, <2>7, <3>1, PlainFresh
  <2>3. Head(t) # A("lock") /\ Shut(t)
    BY DEF A, Shut, Closers
  <2> QED BY <2>2, <2>3, Lists DEF Opens
<1>4. ASSUME NEW c \in Card, claim[c] # "unused" PROVE Opens(ReleaseSteps(c))
  <2> DEFINE u == << A("lock"), <<"read", c>>, <<"down", c>>, <<"drop", c>>, <<"clear", c>>,
                     A("pin"), A("unlock"), A("snap"), A("door"), A("check") >>
             t == << <<"read", c>>, <<"down", c>>, <<"drop", c>>, <<"clear", c>>,
                     A("pin"), A("unlock"), A("snap"), A("door"), A("check") >>
  <2>0. <<"read", c>> \in Step /\ <<"down", c>> \in Step /\ <<"drop", c>> \in Step /\ <<"clear", c>> \in Step
    BY StepNames
  <2>1. u \in Seq(Step) /\ t \in Seq(Step)
    BY <2>0, StepNames
  <2>2. Head(u) = A("lock") /\ Tail(u) = t
    BY <2>1, IsTail
  <2>3. \A i \in 1..Len(t) : t[i][1] \notin
               {"save", "lease", "mend", "orphan", "moveclaim", "reap", "scan", "report"}
    BY DEF A
  <2>4. \A i \in 1..Len(t) : t[i][1] \in {"down", "drop"} => t[i][2] = c
    BY DEF A
  <2>5. 1 \in 1..Len(t) /\ 2 \in 1..Len(t) /\ t[1] = <<"read", c>> /\ t[2] = <<"down", c>> /\ Len(t) # 0
    OBVIOUS
  <2>6. Shape(t)
    BY ListShapes
  <2> HIDE DEF t
  <2>7. Fresh(t) /\ ReadsFirst(t)
    BY <1>4, <2>1, <2>3, <2>4, <2>5, <2>6, FreshFacts
  <2> QED BY <2>2, <2>7, Lists DEF Opens, t
<1>5. ASSUME NEW c \in Card PROVE Opens(HeartbeatSteps(c))
  <2> DEFINE u == << A("lock"), <<"renew", c>>, A("unlock"), A("snap"), A("door"), A("check") >>
             t == << <<"renew", c>>, A("unlock"), A("snap"), A("door"), A("check") >>
  <2>0. <<"renew", c>> \in Step
    BY StepNames
  <2>1. u \in Seq(Step) /\ t \in Seq(Step)
    BY <2>0, StepNames
  <2>2. Head(u) = A("lock") /\ Tail(u) = t
    BY <2>1, IsTail
  <2>3. Shape(t)
    BY ListShapes
  <2>7. Len(t) # 0 /\ \A i \in 1..Len(t) : t[i][1] \notin
               {"save", "lease", "mend", "orphan", "moveclaim", "reap", "scan", "report", "down", "drop"}
    BY DEF A
  <2>4. Fresh(t) /\ ReadsFirst(t)
    <3>1. Shape(t)
      BY <2>3
    <3> HIDE DEF t
    <3> QED BY <2>1, <2>7, <3>1, PlainFresh
  <2> QED BY <2>2, <2>4, Lists DEF Opens
<1>6. ASSUME NEW c \in Card PROVE Opens(RenewSteps(c))
  <2> DEFINE u == << A("lock"), <<"renew", c>>, A("snap"), A("door"), A("check"), A("unlock") >>
             t == << <<"renew", c>>, A("snap"), A("door"), A("check"), A("unlock") >>
  <2>0. <<"renew", c>> \in Step
    BY StepNames
  <2>1. u \in Seq(Step) /\ t \in Seq(Step)
    BY <2>0, StepNames
  <2>2. Head(u) = A("lock") /\ Tail(u) = t
    BY <2>1, IsTail
  <2>3. Shape(t)
    BY ListShapes
  <2>7. Len(t) # 0 /\ \A i \in 1..Len(t) : t[i][1] \notin
               {"save", "lease", "mend", "orphan", "moveclaim", "reap", "scan", "report", "down", "drop"}
    BY DEF A
  <2>4. Fresh(t) /\ ReadsFirst(t)
    <3>1. Shape(t)
      BY <2>3
    <3> HIDE DEF t
    <3> QED BY <2>1, <2>7, <3>1, PlainFresh
  <2> QED BY <2>2, <2>4, Lists DEF Opens
<1>7. ASSUME NEW c \in Card PROVE Opens(RunBeatSteps(c))
  <2> DEFINE u == << A("lock"), <<"beat", c>>, A("unlock") >>
             t == << <<"beat", c>>, A("unlock") >>
  <2>0. <<"beat", c>> \in Step
    BY StepFacts DEF Verb
  <2>1. u \in Seq(Step) /\ t \in Seq(Step)
    BY <2>0, StepNames
  <2>2. Head(u) = A("lock") /\ Tail(u) = t
    BY <2>1, IsTail
  <2>3. Shape(t)
    BY ListShapes
  <2>7. Len(t) # 0 /\ \A i \in 1..Len(t) : t[i][1] \notin
               {"save", "lease", "mend", "orphan", "moveclaim", "reap", "scan", "report", "down", "drop"}
    BY DEF A
  <2>4. Fresh(t) /\ ReadsFirst(t)
    <3>1. Shape(t)
      BY <2>3
    <3> HIDE DEF t
    <3> QED BY <2>1, <2>7, <3>1, PlainFresh
  <2> QED BY <2>2, <2>4 DEF Opens, RunBeatSteps
<1>8. ASSUME NEW c \in Card PROVE Opens(WaitSteps(c))
  <2> DEFINE t == << <<"join", c>>, A("leave") >>
  <2>0. <<"join", c>> \in Step /\ A("leave") \in Step
    BY StepFacts DEF Verb
  <2>1. t \in Seq(Step)
    BY <2>0
  <2>3. Shape(t)
    BY ListShapes
  <2>7. Len(t) # 0 /\ \A i \in 1..Len(t) : t[i][1] \notin
               {"save", "lease", "mend", "orphan", "moveclaim", "reap", "scan", "report", "down", "drop"}
    BY DEF A
  <2>4. Fresh(t) /\ ReadsFirst(t)
    <3>1. Shape(t)
      BY <2>3
    <3> HIDE DEF t
    <3> QED BY <2>1, <2>7, <3>1, PlainFresh
  <2>5. Head(t) # A("lock") /\ Shut(t)
    BY DEF A, Shut, Closers
  <2> QED BY <2>4, <2>5 DEF Opens, WaitSteps
<1> QED BY <1>1, <1>2, <1>3, <1>4, <1>5, <1>6, <1>7, <1>8

LEMMA CommandFacts ==
    ASSUME proc \in [Process -> Memory], NEW p \in Process, Command(p)
    PROVE  /\ ~Busy(p) /\ UNCHANGED <<files, kept, stray>>
           /\ \E todo :
               /\ Fresh(todo) /\ ReadsFirst(todo) /\ proc' = [proc EXCEPT ![p].todo = todo]
               /\ \/ mutex \in {None, "dead"} /\ mutex' = p
                  \/ mutex' = mutex /\ Shut(todo)
<1>1. PICK steps : Begin(p, steps) /\ Opens(steps)
  <2>1. \/ Begin(p, ClaimSteps) \/ Begin(p, ReapSteps) \/ Begin(p, PinSteps)
        \/ \E c \in Card : \/ claim[c] # "unused" /\ Begin(p, ReleaseSteps(c))
                           \/ Begin(p, HeartbeatSteps(c)) \/ Begin(p, RunBeatSteps(c))
                           \/ Begin(p, RenewSteps(c)) \/ Begin(p, WaitSteps(c))
    BY DEF Command
  <2> QED BY <2>1, Openings
<1>2. CASE Head(steps) = A("lock")
  <2>1. mutex \in {None, "dead"} /\ mutex' = p /\ proc' = [proc EXCEPT ![p].todo = Tail(steps)]
        /\ ~Busy(p) /\ UNCHANGED <<files, kept, stray>>
    BY <1>1, <1>2 DEF Begin
  <2> QED BY <1>1, <1>2, <2>1 DEF Opens
<1>3. CASE Head(steps) # A("lock")
  <2>1. mutex' = mutex /\ proc' = [proc EXCEPT ![p].todo = steps] /\ ~Busy(p) /\ UNCHANGED <<files, kept, stray>>
    BY <1>1, <1>3 DEF Begin
  <2> QED BY <1>1, <1>3, <2>1 DEF Opens
<1> QED BY <1>2, <1>3

LEMMA CommandMemory ==
    ASSUME proc \in [Process -> Memory], NEW p \in Process, NEW todo \in Seq(Step),
           proc' = [proc EXCEPT ![p].todo = todo]
    PROVE  /\ proc' \in [Process -> Memory] /\ proc'[p].todo = todo
           /\ \A q \in Process : q # p => proc'[q] = proc[q]
<1> DEFINE mem == [proc[p] EXCEPT !.todo = todo]
<1>1. mem \in Memory /\ mem.todo = todo
  BY MemoryFacts
<1>2. proc' = [proc EXCEPT ![p] = mem]
  OBVIOUS
<1> HIDE DEF mem
<1> QED BY <1>1, <1>2

\* What claim goes on with: a card of a new id, or none.
Decided(todo) ==
    /\ todo \in Seq(Step) /\ todo # <<>> /\ Shape(todo)
    /\ \A x \in ToSet(todo) : x[1] \notin { "mend", "renew", "beat", "orphan", "moveclaim", "reap", "scan", "report", "read",
                                            "down", "drop", "clear", "sweep" }
    /\ \A c \in Card : <<"save", c>> \in ToSet(todo) => claim[c] = "unused"
    /\ \A c \in Card : <<"lease", c>> \in ToSet(todo) => <<"save", c>> \in ToSet(todo)
    /\ Len(todo) > 1 /\ \E i \in 2..Len(todo) : todo[i] = A("check")

LEMMA DecideFacts ==
    ASSUME NEW p \in Process, Decide(p)
    PROVE  /\ UNCHANGED <<files, mutex, kept, stray>>
           /\ \E todo : Decided(todo) /\ GoesTo(p, todo)
<1>1. ASSUME NEW c \in Card, claim[c] = "unused" PROVE Decided(TakeSteps(c))
  <2> DEFINE t == << <<"save", c>>, <<"lease", c>>, A("pin"), A("unlock"), A("snap"),
                     A("door"), A("check") >>
  <2>1. <<"save", c>> \in Step /\ <<"lease", c>> \in Step
    BY StepNames
  <2>2. t \in Seq(Step)
    BY <2>1, StepNames
  <2>3. \A i \in 1..Len(t) :
          /\ t[i][1] \notin { "mend", "renew", "beat", "orphan", "moveclaim", "reap", "scan", "report", "read",
                              "down", "drop", "clear", "sweep" }
          /\ t[i][1] \in {"save", "lease"} => t[i][2] = c
    BY DEF A
  <2>4. Len(t) = 7 /\ t[1] = <<"save", c>> /\ t[7] = A("check")
    OBVIOUS
  <2>5. Shape(t)
    BY ListShapes
  <2> HIDE DEF t
  <2>6. \A x : x \in ToSet(t) <=> \E i \in 1..Len(t) : t[i] = x
    BY <2>2, ToSetFacts
  <2>7. \A x \in ToSet(t) : /\ x[1] \notin { "mend", "renew", "beat", "orphan", "moveclaim", "reap", "scan", "report", "read",
                                             "down", "drop", "clear", "sweep" }
                            /\ x[1] \in {"save", "lease"} => x[2] = c
    BY <2>3, <2>6
  <2>8. <<"save", c>> \in ToSet(t)
    BY <2>4, <2>6
  <2>9. ASSUME NEW d \in Card, NEW v \in {"save", "lease"}, <<v, d>> \in ToSet(t) PROVE d = c
    <3>1. <<v, d>>[1] \in {"save", "lease"}
      OBVIOUS
    <3> QED BY <2>7, <2>9, <3>1
  <2>10. 7 \in 2..Len(t) /\ Len(t) > 1 /\ t # <<>>
    BY <2>4
  <2>11. Decided(t)
    BY <1>1, <2>2, <2>4, <2>5, <2>7, <2>8, <2>9, <2>10 DEF Decided
  <2> QED BY <2>11, Lists DEF t
<1>2. ASSUME NEW c \in Card, NEW t \in {DeniedSteps, QueuedSteps(c)} PROVE Decided(t)
  <2> DEFINE d == << A("unlock"), A("pin"), A("snap"), A("door"), A("check") >>
             w == << A("unlock"), A("pin"), <<"join", c>>, A("pin"), A("snap"), A("door"), A("check") >>
  <2>1. <<"join", c>> \in Step
    BY StepNames
  <2>2. d \in Seq(Step) /\ w \in Seq(Step)
    BY <2>1, StepNames
  <2>3. /\ \A i \in 1..Len(d) : d[i][1] \notin { "mend", "renew", "beat", "orphan", "moveclaim", "reap", "scan", "report", "read",
                                    "down", "drop", "clear", "sweep", "save", "lease" }
        /\ \A i \in 1..Len(w) : w[i][1] \notin { "mend", "renew", "beat", "orphan", "moveclaim", "reap", "scan", "report", "read",
                                    "down", "drop", "clear", "sweep", "save", "lease" }
    BY DEF A
  <2>4. Len(d) = 5 /\ d[5] = A("check") /\ Len(w) = 7 /\ w[7] = A("check")
    OBVIOUS
  <2>5. Shape(d) /\ Shape(w)
    BY ListShapes
  <2> HIDE DEF d, w
  <2>6. ASSUME NEW s \in {d, w} PROVE Decided(s)
    <3>1. \A x : x \in ToSet(s) <=> \E i \in 1..Len(s) : s[i] = x
      BY <2>2, <2>6, ToSetFacts
    <3>2. \A x \in ToSet(s) : x[1] \notin { "mend", "renew", "beat", "orphan", "moveclaim", "reap", "scan", "report", "read",
                                    "down", "drop", "clear", "sweep", "save", "lease" }
      BY <2>3, <2>6, <3>1
    <3>3. \A x \in Card : <<"save", x>> \notin ToSet(s) /\ <<"lease", x>> \notin ToSet(s)
      <4>1. \A x \in Card : <<"save", x>>[1] = "save" /\ <<"lease", x>>[1] = "lease"
        OBVIOUS
      <4> QED BY <3>2, <4>1
    <3>4. s # <<>> /\ Len(s) > 1 /\ \E i \in 2..Len(s) : s[i] = A("check")
      <4>1. CASE s = d
        <5>1. Len(s) = 5 /\ s[5] = A("check")
          BY <2>4, <4>1
        <5>2. 5 \in 2..Len(s) /\ Len(s) > 1
          BY <5>1
        <5>3. s # <<>>
          BY <5>1
        <5> QED BY <5>1, <5>2, <5>3
      <4>2. CASE s = w
        <5>1. Len(s) = 7 /\ s[7] = A("check")
          BY <2>4, <4>2
        <5>2. 7 \in 2..Len(s) /\ Len(s) > 1
          BY <5>1
        <5>3. s # <<>>
          BY <5>1
        <5> QED BY <5>1, <5>2, <5>3
      <4> QED BY <2>6, <4>1, <4>2
    <3> QED BY <2>2, <2>5, <2>6, <3>2, <3>3, <3>4 DEF Decided
  <2>7. DeniedSteps = d /\ QueuedSteps(c) = w
    BY Lists DEF d, w
  <2> QED BY <1>2, <2>6, <2>7
<1>3. UNCHANGED <<files, mutex, kept, stray>>
      /\ \E c \in Card : \/ claim[c] = "unused" /\ GoesTo(p, TakeSteps(c))
                         \/ \E steps \in {DeniedSteps, QueuedSteps(c)} : GoesTo(p, steps)
  BY DEF Decide
<1> QED BY <1>1, <1>2, <1>3

-----------------------------------------------------------------------------
(* Steps that put others in their place keep the shape. *)

LEMMA SweepShape ==
    ASSUME NEW s \in Seq(Step), s # <<>>, Shape(s), Head(s) = A("sweep"), NEW cards \in SUBSET Card
    PROVE  /\ ForEach("reap", cards) \o Tail(s) \in Seq(Step)
           /\ Shape(ForEach("reap", cards) \o Tail(s))
           /\ Shut(s) => Shut(ForEach("reap", cards) \o Tail(s))
           /\ ToSet(ForEach("reap", cards) \o Tail(s)) = ({"reap"} \X cards) \cup ToSet(Tail(s))
<1> DEFINE q == ForEach("reap", cards)
<1>1. q \in Seq(Step) /\ ToSet(q) = {"reap"} \X cards
  BY ForEachFacts DEF Verb
<1>2. Head(s)[1] = "sweep"
  BY DEF A
<1> HIDE DEF q
<1>3. \A i \in 1..Len(q) : q[i] \in Step /\ q[i][1] = "reap"
  BY <1>1, ToSetFacts
<1>4. Len(q) \in Nat /\ (q # <<>> => Len(q) \in 1..Len(q))
  BY <1>1, LenProperties, EmptySeq
<1>5. InOrder(q)
  BY <1>3 DEF InOrder, Fits, Follows
<1>6. InOrder(q \o Tail(s))
  <2>1. \A i \in 1..Len(q), y \in Step : Fits(Head(s), y) => Fits(q[i], y)
    BY <1>2, <1>3 DEF Fits
  <2>2. q # <<>> => \A y \in Step : Follows(Head(s), y) => Follows(q[Len(q)], y)
    BY <1>2, <1>3, <1>4 DEF Follows
  <2> QED BY <1>1, <1>5, <2>1, <2>2, InOrderPush DEF Shape
<1>7. Leads(q \o Tail(s), Guarded, Closers, {"lock"})
  BY <1>1, <1>2, <1>3, LeadsPush DEF Shape, Guarded, Closers
<1>8. Leads(q \o Tail(s), {"lease", "mend"}, Closers \cup {"scan"}, {"lock"})
  <2>1. Leads(q, {"lease", "mend"}, Closers \cup {"scan"}, {"lock"})
    BY <1>3 DEF Leads
  <2> QED BY <1>1, <2>1, LeadsPush DEF Shape
<1>9. Leads(q \o Tail(s), Watched, Lookers, {})
  BY <1>1, <1>2, <1>3, LeadsPush DEF Shape, Watched, Lookers
<1>10. /\ Leads(q \o Tail(s), Repairing, {"scan"}, {})
       /\ Leads(q \o Tail(s), {"join"}, Lookers \cup {"leave"}, {})
  <2>1. Leads(q, Repairing, {"scan"}, {}) /\ Leads(q, {"join"}, Lookers \cup {"leave"}, {})
    BY <1>3 DEF Leads, Repairing
  <2> QED BY <1>1, <2>1, LeadsPush DEF Shape
<1>11. Shut(s) => Shut(q \o Tail(s))
  BY <1>1, <1>2, <1>3, ShutPush DEF Closers
<1>12. Tail(s) \in Seq(Step)
  BY TailFacts
<1>13. q \o Tail(s) \in Seq(Step) /\ ToSet(q \o Tail(s)) = ToSet(q) \cup ToSet(Tail(s))
  <2>1. \A t \in Seq(Step) : q \o t \in Seq(Step) /\ ToSet(q \o t) = ToSet(q) \cup ToSet(t)
    BY <1>1, ToSetConcat
  <2> QED BY <1>12, <2>1
<1> QED BY <1>1, <1>6, <1>7, <1>8, <1>9, <1>10, <1>11, <1>13 DEF Shape, q

LEMMA ReapShape ==
    ASSUME NEW s \in Seq(Step), s # <<>>, Shape(s), NEW c \in Card, Head(s) = <<"reap", c>>
    PROVE  /\ Archive(c) \o Tail(s) \in Seq(Step) /\ Shape(Archive(c) \o Tail(s))
           /\ Shut(s) => Shut(Archive(c) \o Tail(s))
           /\ ToSet(Archive(c) \o Tail(s)) =
                {<<"down", c>>, <<"drop", c>>, <<"clear", c>>, A("pin")} \cup ToSet(Tail(s))
<1> DEFINE q == Archive(c)
<1>1. <<"down", c>> \in Step /\ <<"drop", c>> \in Step /\ <<"clear", c>> \in Step /\ A("pin") \in Step
  BY StepNames
<1>2. q \in Seq(Step) /\ Len(q) = 4 /\ q[1] = <<"down", c>> /\ q[2] = <<"drop", c>>
      /\ q[3] = <<"clear", c>> /\ q[4] = A("pin") /\ q # <<>>
  BY <1>1 DEF Archive
<1>3. Head(s)[1] = "reap"
  OBVIOUS
<1> HIDE DEF q
<1>4. \A i \in 1..Len(q) : i = 1 \/ i = 2 \/ i = 3 \/ i = 4
  BY <1>2
<1>5. \A i \in 1..Len(q) : q[i][1] \in {"down", "drop", "clear", "pin"}
  BY <1>2, <1>4 DEF A
<1>6. InOrder(q)
  <2>1. \A i, j \in 1..Len(q) : i < j => Fits(q[i], q[j])
    <3>1. /\ Fits(<<"down", c>>, <<"drop", c>>) /\ Fits(<<"down", c>>, <<"clear", c>>)
          /\ Fits(<<"drop", c>>, <<"clear", c>>)
      BY DEF Fits
    <3>2. /\ Fits(<<"down", c>>, A("pin")) /\ Fits(<<"drop", c>>, A("pin"))
          /\ Fits(<<"clear", c>>, A("pin"))
      BY DEF Fits, A
    <3>3. /\ Fits(q[1], q[2]) /\ Fits(q[1], q[3]) /\ Fits(q[2], q[3])
          /\ Fits(q[1], q[4]) /\ Fits(q[2], q[4]) /\ Fits(q[3], q[4])
      BY <1>2, <3>1, <3>2
    <3>4. ASSUME NEW i \in 1..Len(q), NEW j \in 1..Len(q), i < j PROVE Fits(q[i], q[j])
      <4>1. <<i, j>> \in {<<1, 2>>, <<1, 3>>, <<1, 4>>, <<2, 3>>, <<2, 4>>, <<3, 4>>}
        BY <1>4, <3>4
      <4> QED BY <3>3, <4>1
    <3> QED BY <3>4
  <2>2. \A i, j \in 1..Len(q) : j = i + 1 => Follows(q[i], q[j])
    BY <1>2, <1>4 DEF A, Follows
  <2> QED BY <2>1, <2>2 DEF InOrder
<1>7. InOrder(q \o Tail(s))
  <2>1. \A y \in Step, x \in Step : Fits(Head(s), y) /\ x[1] \in {"down", "drop", "clear", "pin"} => Fits(x, y)
    BY <1>3 DEF Fits
  <2>2. \A i \in 1..Len(q) : q[i] \in Step
    BY <1>2, ElementOfSeq
  <2>3. \A y \in Step : Follows(Head(s), y) => Follows(q[Len(q)], y)
    BY <1>2, <1>3 DEF Follows, A
  <2> QED BY <1>2, <1>5, <1>6, <2>1, <2>2, <2>3, InOrderPush DEF Shape
<1>8. Leads(q \o Tail(s), Guarded, Closers, {"lock"})
  BY <1>2, <1>3, <1>5, LeadsPush DEF Shape, Guarded, Closers
<1>9. Leads(q \o Tail(s), {"lease", "mend"}, Closers \cup {"scan"}, {"lock"})
  <2>1. Leads(q, {"lease", "mend"}, Closers \cup {"scan"}, {"lock"})
    BY <1>5 DEF Leads
  <2> QED BY <1>2, <2>1, LeadsPush DEF Shape
<1>10. Leads(q \o Tail(s), Watched, Lookers, {})
  BY <1>2, <1>3, LeadsPush DEF Shape, Watched, Lookers
<1>11. /\ Leads(q \o Tail(s), Repairing, {"scan"}, {})
       /\ Leads(q \o Tail(s), {"join"}, Lookers \cup {"leave"}, {})
  <2>1. Leads(q, Repairing, {"scan"}, {}) /\ Leads(q, {"join"}, Lookers \cup {"leave"}, {})
    BY <1>5 DEF Leads, Repairing
  <2> QED BY <1>2, <2>1, LeadsPush DEF Shape
<1>12. Shut(s) => Shut(q \o Tail(s))
  BY <1>2, <1>3, <1>5, ShutPush DEF Closers
<1>13. Tail(s) \in Seq(Step)
  BY TailFacts
<1>14. ToSet(q) = {<<"down", c>>, <<"drop", c>>, <<"clear", c>>, A("pin")}
  <2>1. \A x : x \in ToSet(q) <=> \E i \in 1..Len(q) : q[i] = x
    BY <1>2, ToSetFacts
  <2>2. 1 \in 1..Len(q) /\ 2 \in 1..Len(q) /\ 3 \in 1..Len(q) /\ 4 \in 1..Len(q)
    BY <1>2
  <2>3. q[1] \in ToSet(q) /\ q[2] \in ToSet(q) /\ q[3] \in ToSet(q) /\ q[4] \in ToSet(q)
    BY <2>1, <2>2
  <2>4. \A x \in ToSet(q) : x = q[1] \/ x = q[2] \/ x = q[3] \/ x = q[4]
    BY <1>4, <2>1
  <2> QED BY <1>2, <2>3, <2>4
<1>15. q \o Tail(s) \in Seq(Step) /\ ToSet(q \o Tail(s)) = ToSet(q) \cup ToSet(Tail(s))
  <2>1. \A t \in Seq(Step) : q \o t \in Seq(Step) /\ ToSet(q \o t) = ToSet(q) \cup ToSet(t)
    BY <1>2, ToSetConcat
  <2> QED BY <1>13, <2>1
<1> QED BY <1>7, <1>8, <1>9, <1>10, <1>11, <1>12, <1>14, <1>15 DEF Shape, q

LEMMA MendShape ==
    ASSUME NEW s \in Seq(Step), s # <<>>, Shape(s), NEW c \in Card, Head(s) = <<"mend", c>>,
           NEW q \in {<<>>, << <<"lease", c>> >>}
    PROVE  /\ q \o Tail(s) \in Seq(Step) /\ Shape(q \o Tail(s))
           /\ Shut(s) => Shut(q \o Tail(s))
           /\ ToSet(q \o Tail(s)) = ToSet(q) \cup ToSet(Tail(s))
           /\ ToSet(q) \subseteq {<<"lease", c>>}
           /\ q # <<>> => <<"lease", c>> \in ToSet(q)
<1>1. <<"lease", c>> \in Step
  BY StepNames
<1>2. q \in Seq(Step) /\ Len(q) \in {0, 1} /\ (q # <<>> => Len(q) = 1 /\ q[1] = <<"lease", c>>)
  <2>1. CASE q = <<>>
    BY <2>1
  <2>2. CASE q = << <<"lease", c>> >>
    BY <1>1, <2>2
  <2> QED BY <2>1, <2>2
<1>3. Head(s)[1] = "mend"
  OBVIOUS
<1>4. \A i \in 1..Len(q) : i = 1 /\ Len(q) = 1 /\ q[i] = <<"lease", c>> /\ q[i][1] = "lease"
  <2>1. Len(q) = 0 \/ Len(q) = 1
    BY <1>2
  <2>2. CASE Len(q) = 0
    BY <2>2
  <2>3. CASE Len(q) = 1
    <3>1. q # <<>>
      <4>1. q = <<>> => Len(q) = 0
        OBVIOUS
      <4> QED BY <2>3, <4>1
    <3> QED BY <1>2, <2>3, <3>1
  <2> QED BY <2>1, <2>2, <2>3
<1>5. InOrder(q)
  BY <1>4 DEF InOrder
<1>6. InOrder(q \o Tail(s))
  <2>1. \A i \in 1..Len(q), y \in Step : Fits(Head(s), y) => Fits(q[i], y)
    BY <1>3, <1>4 DEF Fits
  <2>2. q # <<>> => \A y \in Step : Follows(Head(s), y) => Follows(q[Len(q)], y)
    <3>1. q # <<>> => q[Len(q)] = <<"lease", c>> /\ q[Len(q)][1] = "lease"
      BY <1>2
    <3>2. \A x, y \in Step : x[1] = "lease" /\ Follows(Head(s), y) => Follows(x, y)
      BY <1>3 DEF Follows
    <3> QED BY <1>1, <3>1, <3>2
  <2> QED BY <1>2, <1>5, <2>1, <2>2, InOrderPush DEF Shape
<1>7. Leads(q \o Tail(s), Guarded, Closers, {"lock"})
  <2>1. Leads(q, Guarded, Closers, {"lock"})
    BY <1>4 DEF Leads, Guarded
  <2> QED BY <1>2, <2>1, LeadsPush DEF Shape
<1>8. Leads(q \o Tail(s), {"lease", "mend"}, Closers \cup {"scan"}, {"lock"})
  BY <1>2, <1>3, <1>4, LeadsPush DEF Shape, Closers
<1>9. Leads(q \o Tail(s), Watched, Lookers, {})
  BY <1>2, <1>3, LeadsPush DEF Shape, Watched, Lookers
<1>10. /\ Leads(q \o Tail(s), Repairing, {"scan"}, {})
       /\ Leads(q \o Tail(s), {"join"}, Lookers \cup {"leave"}, {})
  <2>1. Leads(q, Repairing, {"scan"}, {}) /\ Leads(q, {"join"}, Lookers \cup {"leave"}, {})
    BY <1>4 DEF Leads, Repairing
  <2> QED BY <1>2, <2>1, LeadsPush DEF Shape
<1>11. Shut(s) => Shut(q \o Tail(s))
  BY <1>2, <1>3, <1>4, ShutPush DEF Closers
<1>12. Tail(s) \in Seq(Step)
  BY TailFacts
<1>13. q \o Tail(s) \in Seq(Step) /\ ToSet(q \o Tail(s)) = ToSet(q) \cup ToSet(Tail(s))
  <2>1. \A t \in Seq(Step) : q \o t \in Seq(Step) /\ ToSet(q \o t) = ToSet(q) \cup ToSet(t)
    BY <1>2, ToSetConcat
  <2> QED BY <1>12, <2>1
<1>14. ToSet(q) \subseteq {<<"lease", c>>} /\ (q # <<>> => <<"lease", c>> \in ToSet(q))
  <2>1. \A x : x \in ToSet(q) <=> \E i \in 1..Len(q) : q[i] = x
    BY <1>2, ToSetFacts
  <2>2. q # <<>> => 1 \in 1..Len(q)
    BY <1>2
  <2> QED BY <1>2, <1>4, <2>1, <2>2
<1> QED BY <1>6, <1>7, <1>8, <1>9, <1>10, <1>11, <1>13, <1>14 DEF Shape

LEMMA AgainShape ==
    ASSUME NEW s \in Seq(Step), s # <<>>, Shape(s), Head(s) = A("check")
    PROVE  /\ Render \o Tail(s) \in Seq(Step) /\ Shape(Render \o Tail(s))
           /\ Shut(s) => Shut(Render \o Tail(s))
           /\ ToSet(Render \o Tail(s)) = {A("snap"), A("door"), A("check")} \cup ToSet(Tail(s))
<1> DEFINE q == Render
<1>1. q \in Seq(Step) /\ Len(q) = 3 /\ q[1] = A("snap") /\ q[2] = A("door") /\ q[3] = A("check") /\ q # <<>>
  BY StepNames DEF Render
<1>2. Head(s)[1] = "check"
  BY DEF A
<1> HIDE DEF q
<1>3. \A i \in 1..Len(q) : i = 1 \/ i = 2 \/ i = 3
  BY <1>1
<1>4. \A i \in 1..Len(q) : q[i][1] \in {"snap", "door", "check"}
  BY <1>1, <1>3 DEF A
<1>5. 1 \in 1..Len(q) /\ 2 \in 1..Len(q) /\ 3 \in 1..Len(q)
  BY <1>1
<1>6. InOrder(q)
  <2>1. \A i, j \in 1..Len(q) : i < j => Fits(q[i], q[j])
    BY <1>1, <1>3 DEF A, Fits
  <2>2. \A i, j \in 1..Len(q) : j = i + 1 => Follows(q[i], q[j])
    <3>1. Follows(A("snap"), A("door")) /\ Follows(A("door"), A("check"))
      BY DEF A, Follows
    <3>2. Follows(q[1], q[2]) /\ Follows(q[2], q[3])
      BY <1>1, <3>1
    <3> QED BY <1>1, <1>3, <3>2
  <2> QED BY <2>1, <2>2 DEF InOrder
<1>7. InOrder(q \o Tail(s))
  <2>1. \A i \in 1..Len(q), y \in Step : Fits(Head(s), y) => Fits(q[i], y)
    BY <1>2, <1>4 DEF Fits
  <2>2. \A y \in Step : Follows(Head(s), y) => Follows(q[Len(q)], y)
    BY <1>1, <1>2 DEF Follows, A
  <2> QED BY <1>1, <1>6, <2>1, <2>2, InOrderPush DEF Shape
<1>8. Leads(q \o Tail(s), Guarded, Closers, {"lock"})
  <2>1. Leads(q, Guarded, Closers, {"lock"})
    BY <1>4 DEF Leads, Guarded
  <2> QED BY <1>1, <2>1, LeadsPush DEF Shape
<1>9. Leads(q \o Tail(s), {"lease", "mend"}, Closers \cup {"scan"}, {"lock"})
  <2>1. Leads(q, {"lease", "mend"}, Closers \cup {"scan"}, {"lock"})
    BY <1>4 DEF Leads
  <2> QED BY <1>1, <2>1, LeadsPush DEF Shape
<1>10. Leads(q \o Tail(s), Watched, Lookers, {})
  <2>1. \A i \in 1..Len(q) : 3 \in i..Len(q)
    BY <1>1, <1>3
  <2>2. q[3][1] \in Lookers
    BY <1>1 DEF Lookers, A
  <2>3. Leads(q, Watched, Lookers, {})
    BY <2>1, <2>2 DEF Leads, Comes
  <2> QED BY <1>1, <2>3, LeadsPush DEF Shape
<1>11. /\ Leads(q \o Tail(s), Repairing, {"scan"}, {})
       /\ Leads(q \o Tail(s), {"join"}, Lookers \cup {"leave"}, {})
  <2>1. Leads(q, Repairing, {"scan"}, {}) /\ Leads(q, {"join"}, Lookers \cup {"leave"}, {})
    BY <1>4 DEF Leads, Repairing
  <2> QED BY <1>1, <2>1, LeadsPush DEF Shape
<1>12. Shut(s) => Shut(q \o Tail(s))
  BY <1>1, <1>2, <1>4, ShutPush DEF Closers
<1>13. Tail(s) \in Seq(Step)
  BY TailFacts
<1>14. ToSet(q) = {A("snap"), A("door"), A("check")}
  <2>1. \A x : x \in ToSet(q) <=> \E i \in 1..Len(q) : q[i] = x
    BY <1>1, ToSetFacts
  <2> QED BY <1>1, <1>3, <1>5, <2>1
<1>15. q \o Tail(s) \in Seq(Step) /\ ToSet(q \o Tail(s)) = ToSet(q) \cup ToSet(Tail(s))
  <2>1. \A t \in Seq(Step) : q \o t \in Seq(Step) /\ ToSet(q \o t) = ToSet(q) \cup ToSet(t)
    BY <1>1, ToSetConcat
  <2> QED BY <1>13, <2>1
<1> QED BY <1>7, <1>8, <1>9, <1>10, <1>11, <1>12, <1>14, <1>15 DEF Shape, q

-----------------------------------------------------------------------------
(* The types, and the shape of what is left of every command. *)

SectionInv ==
    \A p \in Process :
        /\ Shape(proc[p].todo)
        /\ mutex # p => Shut(proc[p].todo)
        /\ A("scan") \in ToSet(proc[p].todo) => proc[p].rounds > 0
        /\ proc[p].todo = <<>> => proc[p] = Idle

\* What SectionInv says of one process, after a step.
Section(p, todo) ==
    /\ todo \in Seq(Step) /\ proc'[p].todo = todo /\ Shape(todo)
    /\ mutex' # p => Shut(todo)
    /\ A("scan") \in ToSet(todo) => proc'[p].rounds > 0
    /\ todo = <<>> => proc'[p] = Idle

Others(p) == \A q \in Process : q # p => proc'[q] \in {proc[q], [proc[q] EXCEPT !.staged = FALSE]}

LEMMA SectionGoes ==
    ASSUME TypeOK, SectionInv, NEW p \in Process, NEW todo, Section(p, todo), Others(p),
           \A q \in Process : q # p /\ mutex' # q => mutex # q
    PROVE  SectionInv'
<1>1. ASSUME NEW q \in Process, q # p
      PROVE  /\ proc'[q].todo = proc[q].todo /\ proc'[q].rounds = proc[q].rounds
             /\ proc[q] = Idle => proc'[q] = Idle
  <2>1. proc[q] \in Memory
    BY DEF TypeOK
  <2>2. CASE proc'[q] = proc[q]
    BY <2>2
  <2>3. CASE proc'[q] = [proc[q] EXCEPT !.staged = FALSE]
    <3>1. proc'[q].todo = proc[q].todo /\ proc'[q].rounds = proc[q].rounds
      BY <2>1, <2>3 DEF Memory
    <3>2. [Idle EXCEPT !.staged = FALSE] = Idle
      <4>1. Idle \in Memory /\ Idle.staged = FALSE
        BY MemoryFacts DEF Idle
      <4>2. \A mem \in Memory : mem.staged = FALSE => [mem EXCEPT !.staged = FALSE] = mem
        BY DEF Memory
      <4> QED BY <4>1, <4>2
    <3>3. proc[q] = Idle => proc'[q] = Idle
      BY <2>3, <3>2
    <3> QED BY <3>1, <3>3
  <2> QED BY <1>1, <2>2, <2>3 DEF Others
<1>2. ASSUME NEW q \in Process
      PROVE  /\ Shape(proc'[q].todo)
             /\ mutex' # q => Shut(proc'[q].todo)
             /\ A("scan") \in ToSet(proc'[q].todo) => proc'[q].rounds > 0
             /\ proc'[q].todo = <<>> => proc'[q] = Idle
  <2>1. CASE q = p
    BY <2>1 DEF Section
  <2>2. CASE q # p
    BY <1>1, <2>2 DEF SectionInv
  <2> QED BY <2>1, <2>2
<1> QED BY <1>2 DEF SectionInv

\* A step that is taken with the mutex, is taken by its holder.
LEMMA Owner ==
    ASSUME TypeOK, SectionInv, NEW p \in Process, NEW i \in 1..Len(proc[p].todo), NEW from,
           Leads(proc[p].todo, from, Closers, {"lock"}), proc[p].todo[i][1] \in from,
           \A j \in 1..Len(proc[p].todo) : j < i => proc[p].todo[j][1] # "lock"
    PROVE  mutex = p
<1>1. proc[p] \in Memory
  BY DEF TypeOK
<1>2. proc[p].todo \in Seq(Step)
  BY <1>1, MemoryFacts
<1>3. ~Shut(proc[p].todo)
  BY <1>2, NotShut
<1> QED BY <1>3 DEF SectionInv

LEMMA TakesGuarded ==
    ASSUME TypeOK, SectionInv, NEW p \in Process, NEW verb \in Guarded, NEW c, Takes(p, verb, c)
    PROVE  mutex = p
<1>1. proc \in [Process -> Memory]
  BY DEF TypeOK
<1>2. proc[p].todo \in Seq(Step) /\ proc[p].todo # <<>> /\ Head(proc[p].todo) = <<verb, c>>
  BY <1>1, RestFacts
<1>3. 1 \in 1..Len(proc[p].todo) /\ proc[p].todo[1][1] = verb
  BY <1>2, TailFacts
<1>4. \A j \in 1..Len(proc[p].todo) : ~(j < 1)
  OBVIOUS
<1>5. Leads(proc[p].todo, Guarded, Closers, {"lock"})
  BY DEF SectionInv, Shape
<1> QED BY <1>3, <1>4, <1>5, Owner

\* The first step is done: what is left has the shape.
LEMMA RestShape ==
    ASSUME TypeOK, SectionInv, NEW p \in Process, NEW verb, NEW c, Takes(p, verb, c)
    PROVE  /\ Rest(p) \in Seq(Step) /\ Shape(Rest(p))
           /\ mutex # p /\ verb # "lock" => Shut(Rest(p))
           /\ A("scan") \in ToSet(Rest(p)) => proc[p].rounds > 0
           /\ verb \in {"unlock", "decide"} => Shut(Rest(p))
           /\ verb \in {"scan", "report"} => Rest(p) = <<>>
           /\ verb = "check" => A("scan") \notin ToSet(Rest(p))
           /\ \A y \in ToSet(Rest(p)) : Fits(<<verb, c>>, y)
<1> DEFINE s == proc[p].todo
<1>1. proc \in [Process -> Memory]
  BY DEF TypeOK
<1>2. /\ s \in Seq(Step) /\ s # <<>> /\ Rest(p) \in Seq(Step) /\ Head(s) = <<verb, c>>
      /\ Rest(p) = Tail(s) /\ ToSet(s) = ToSet(Rest(p)) \cup {<<verb, c>>}
  BY <1>1, RestFacts
<1>3. Shape(s) /\ (mutex # p => Shut(s)) /\ (A("scan") \in ToSet(s) => proc[p].rounds > 0)
  BY DEF SectionInv
<1> HIDE DEF s
<1>4. Shape(Rest(p))
  BY <1>2, <1>3, ShapeTail
<1>5. mutex # p /\ verb # "lock" => Shut(Rest(p))
  BY <1>2, <1>3, ShutTail
<1>6. /\ Len(Rest(p)) \in Nat /\ Len(s) \in Nat /\ Len(s) >= 1 /\ 1 \in 1..Len(s) /\ s[1] = <<verb, c>>
      /\ \A i \in 1..Len(Rest(p)) : i + 1 \in 1..Len(s) /\ Rest(p)[i] = s[i + 1] /\ 1 < i + 1
  <2>1. Len(Rest(p)) \in Nat
    BY <1>2, LenProperties
  <2> QED BY <1>2, <2>1, TailFacts
<1>7. \A i \in 1..Len(Rest(p)) : Fits(<<verb, c>>, Rest(p)[i])
  BY <1>3, <1>6 DEF Shape, InOrder
<1>8. \A y \in ToSet(Rest(p)) : Fits(<<verb, c>>, y)
  BY <1>2, <1>7, ToSetFacts
<1>9. verb \in {"unlock", "decide"} => Shut(Rest(p))
  BY <1>7 DEF Fits, Shut, Closers
<1>10. verb \in {"scan", "report"} => Rest(p) = <<>>
  <2>1. ASSUME verb \in {"scan", "report"} PROVE Len(Rest(p)) = 0
    <3>1. ~(1 \in 1..Len(Rest(p)))
      BY <1>7, <2>1 DEF Fits
    <3> QED BY <1>6, <3>1
  <2> QED BY <1>2, <2>1, EmptySeq
<1>11. verb = "check" => A("scan") \notin ToSet(Rest(p))
  BY <1>8 DEF Fits, A
<1> QED BY <1>2, <1>3, <1>4, <1>5, <1>8, <1>9, <1>10, <1>11

LEMMA GoesOnSection ==
    ASSUME TypeOK, NEW p \in Process, NEW mem \in Memory, GoesOn(p, mem), Shape(mem.todo),
           mutex' # p => Shut(mem.todo), A("scan") \in ToSet(mem.todo) => mem.rounds > 0
    PROVE  proc' \in [Process -> Memory] /\ Others(p) /\ Section(p, mem.todo)
<1>1. proc \in [Process -> Memory] /\ mem.todo \in Seq(Step)
  BY MemoryFacts DEF TypeOK
<1>2. /\ proc' \in [Process -> Memory] /\ proc'[p] = IF mem.todo = <<>> THEN Idle ELSE mem
      /\ proc'[p].todo = mem.todo /\ \A q \in Process : q # p => proc'[q] = proc[q]
  BY <1>1, GoesOnFacts
<1>3. A("scan") \in ToSet(mem.todo) => mem.todo # <<>>
  BY <1>1, ToSetFacts
<1> QED BY <1>1, <1>2, <1>3 DEF Others, Section

LEMMA GoesToSection ==
    ASSUME TypeOK, NEW p \in Process, NEW todo \in Seq(Step), GoesTo(p, todo), Shape(todo),
           mutex' # p => Shut(todo), A("scan") \in ToSet(todo) => proc[p].rounds > 0
    PROVE  proc' \in [Process -> Memory] /\ Others(p) /\ Section(p, todo)
<1> DEFINE mem == [proc[p] EXCEPT !.todo = todo]
<1>1. mem \in Memory /\ mem.todo = todo /\ mem.rounds = proc[p].rounds
  BY MemoryFacts DEF TypeOK
<1>2. GoesOn(p, mem)
  BY DEF GoesTo
<1> HIDE DEF mem
<1> QED BY <1>1, <1>2, GoesOnSection

\* Steps after which the process goes on with the next one.
LEMMA DoneSection ==
    ASSUME TypeOK, SectionInv, NEW p \in Process, NEW verb, NEW c, Takes(p, verb, c), Done(p),
           mutex' # p => verb = "unlock" \/ (mutex # p /\ verb # "lock")
    PROVE  proc' \in [Process -> Memory] /\ Others(p) /\ Section(p, Rest(p))
BY RestShape, GoesToSection DEF Done

\* An error.
LEMMA FailsSection ==
    ASSUME TypeOK, SectionInv, NEW p \in Process, Fails(p), mutex' = mutex
    PROVE  \E todo : /\ todo \in {<<>>, << A("unlock") >>} /\ Section(p, todo)
                     /\ proc' \in [Process -> Memory] /\ Others(p)
<1> DEFINE todo == IF mutex = p THEN << A("unlock") >> ELSE <<>>
<1>1. todo \in Seq(Step) /\ Shape(todo) /\ A("scan") \notin ToSet(todo)
  <2>1. << A("unlock") >> \in Seq(Step) /\ <<>> \in Seq(Step)
    BY StepNames
  <2>2. A("scan") \notin ToSet(<< A("unlock") >>) /\ A("scan") \notin ToSet(<<>>)
    BY DEF ToSet, A
  <2> QED BY <2>1, <2>2, ListShapes
<1>2. mutex' # p => Shut(todo)
  BY DEF Shut
<1>3. GoesTo(p, todo)
  BY DEF Fails
<1>4. proc' \in [Process -> Memory] /\ Others(p) /\ Section(p, todo)
  <2> HIDE DEF todo
  <2> QED BY <1>1, <1>2, <1>3, GoesToSection
<1> QED BY <1>4

\* A command, and what it begins with.
LEMMA CommandSection ==
    ASSUME TypeOK, SectionInv, NEW p \in Process, Command(p)
    PROVE  /\ proc[p] = Idle /\ proc[p].todo = <<>> /\ UNCHANGED <<files, kept, stray>>
           /\ proc' \in [Process -> Memory] /\ Others(p)
           /\ mutex' = mutex \/ (mutex \notin Process /\ mutex' = p)
           /\ \E todo : Section(p, todo) /\ Fresh(todo) /\ ReadsFirst(todo)
<1>1. proc \in [Process -> Memory]
  BY DEF TypeOK
<1>2. ~Busy(p) /\ UNCHANGED <<files, kept, stray>>
  BY <1>1, CommandFacts
<1>3. PICK todo :
         /\ Fresh(todo) /\ ReadsFirst(todo) /\ proc' = [proc EXCEPT ![p].todo = todo]
         /\ \/ mutex \in {None, "dead"} /\ mutex' = p
            \/ mutex' = mutex /\ Shut(todo)
  BY <1>1, CommandFacts
<1>4. todo \in Seq(Step) /\ todo # <<>> /\ Shape(todo) /\ A("scan") \notin ToSet(todo)
  <2>1. A("scan")[1] = "scan"
    BY DEF A
  <2> QED BY <1>3, <2>1 DEF Fresh
<1>5. proc' \in [Process -> Memory] /\ proc'[p].todo = todo
      /\ \A q \in Process : q # p => proc'[q] = proc[q]
  BY <1>1, <1>3, <1>4, CommandMemory
<1>6. Section(p, todo)
  BY <1>3, <1>4, <1>5 DEF Section
<1>7. proc[p].todo = <<>> /\ proc[p] = Idle
  BY <1>2 DEF Busy, SectionInv
<1>8. mutex' = mutex \/ (mutex \notin Process /\ mutex' = p)
  BY <1>3, NoneAssumption, ProcessAssumption
<1> QED BY <1>2, <1>3, <1>5, <1>6, <1>7, <1>8 DEF Others

LEMMA ForgetFacts ==
    ASSUME NEW todo \in Seq(Step), NEW n \in Nat
    PROVE  /\ [Idle EXCEPT !.todo = todo] \in Memory
           /\ [Idle EXCEPT !.todo = todo].todo = todo /\ [Idle EXCEPT !.todo = todo].rounds = 0
           /\ [Idle EXCEPT !.todo = todo, !.rounds = n] \in Memory
           /\ [Idle EXCEPT !.todo = todo, !.rounds = n].todo = todo
           /\ [Idle EXCEPT !.todo = todo, !.rounds = n].rounds = n
<1>1. \A mem \in Memory : /\ [mem EXCEPT !.todo = todo, !.rounds = n] \in Memory
                          /\ [mem EXCEPT !.todo = todo, !.rounds = n].todo = todo
                          /\ [mem EXCEPT !.todo = todo, !.rounds = n].rounds = n
  BY DEF Memory, Step
<1> QED BY <1>1, MemoryFacts

LEMMA DoctorSection ==
    ASSUME TypeOK, SectionInv, NEW p \in Process, Doctor(p)
    PROVE  /\ proc[p] = Idle /\ proc[p].todo = <<>> /\ UNCHANGED <<files, mutex, kept, stray>>
           /\ proc' \in [Process -> Memory] /\ Others(p)
           /\ Section(p, << A("scan") >>) /\ proc'[p].rounds = DoctorPasses + 1
<1> DEFINE mem == [Idle EXCEPT !.todo = << A("scan") >>, !.rounds = DoctorPasses + 1]
<1>1. proc \in [Process -> Memory]
  BY DEF TypeOK
<1>2. << A("scan") >> \in Seq(Step)
  BY StepFacts DEF Verb
<1>3. mem \in Memory /\ mem.todo = << A("scan") >> /\ mem.rounds = 5
  <2>1. DoctorPasses + 1 \in Nat /\ DoctorPasses + 1 = 5
    BY DEF DoctorPasses
  <2> HIDE DEF DoctorPasses
  <2> QED BY <1>2, <2>1, ForgetFacts
<1>4. proc' = [proc EXCEPT ![p] = mem] /\ ~Busy(p) /\ UNCHANGED <<files, mutex, kept, stray>>
  BY DEF Doctor
<1> HIDE DEF mem
<1>5. proc' \in [Process -> Memory] /\ proc'[p] = mem /\ \A q \in Process : q # p => proc'[q] = proc[q]
  BY <1>1, <1>3, <1>4
<1>6. Shut(<< A("scan") >>) /\ << A("scan") >> # <<>>
  BY DEF Shut, A, Closers
<1>7. Section(p, << A("scan") >>)
  <2>1. proc'[p].todo = << A("scan") >> /\ proc'[p].rounds > 0
    BY <1>3, <1>5
  <2> QED BY <1>2, <1>6, <2>1, ListShapes DEF Section
<1>8. proc[p].todo = <<>> /\ proc[p] = Idle
  BY <1>4 DEF Busy, SectionInv
<1> QED BY <1>3, <1>4, <1>5, <1>7, <1>8 DEF Others, DoctorPasses

LEMMA LockSection ==
    ASSUME TypeOK, SectionInv, NEW p \in Process, Lock(p)
    PROVE  proc' \in [Process -> Memory] /\ Others(p) /\ Section(p, Rest(p)) /\ mutex \notin Process
<1>1. Takes(p, "lock", None) /\ GoesTo(p, Rest(p)) /\ mutex' = p /\ mutex \notin Process
  BY NoneAssumption, ProcessAssumption DEF Lock, Done
<1> QED BY <1>1, RestShape, GoesToSection

LEMMA UnlockSection ==
    ASSUME TypeOK, SectionInv, NEW p \in Process, Unlock(p)
    PROVE  proc' \in [Process -> Memory] /\ Others(p) /\ Section(p, Rest(p)) /\ mutex = p
<1>1. Takes(p, "unlock", None) /\ Done(p)
  BY DEF Unlock
<1>2. mutex = p
  BY <1>1, TakesGuarded DEF Guarded
<1> QED BY <1>1, <1>2, DoneSection

LEMMA SweepSection ==
    ASSUME TypeOK, SectionInv, NEW p \in Process, Sweep(p)
    PROVE  /\ proc' \in [Process -> Memory] /\ Others(p) /\ mutex = p
           /\ \/ /\ Unreadable
                 /\ \E todo : todo \in {<<>>, << A("unlock") >>} /\ Section(p, todo)
              \/ /\ ~Unreadable
                 /\ \E todo : /\ Section(p, todo) /\ todo # <<>> /\ proc'[p].rounds = proc[p].rounds
                              /\ ToSet(todo) = ({"reap"} \X {c \in Card : Stale(c)}) \cup ToSet(Rest(p))
<1>1. Takes(p, "sweep", None) /\ mutex' = mutex
      /\ IF Unreadable THEN Fails(p) ELSE GoesTo(p, ForEach("reap", {c \in Card : Stale(c)}) \o Rest(p))
  BY DEF Sweep
<1>2. mutex = p
  BY <1>1, TakesGuarded DEF Guarded
<1>3. CASE Unreadable
  BY <1>1, <1>2, <1>3, FailsSection
<1>4. CASE ~Unreadable
  <2> DEFINE s == proc[p].todo
             cards == {c \in Card : Stale(c)}
             todo == ForEach("reap", cards) \o Tail(s)
  <2>1. proc \in [Process -> Memory]
    BY DEF TypeOK
  <2>2. s \in Seq(Step) /\ s # <<>> /\ Head(s) = A("sweep") /\ Rest(p) = Tail(s) /\ ToSet(Tail(s)) \subseteq ToSet(s)
    BY <1>1, <2>1, RestFacts DEF A
  <2>3. Shape(s) /\ (A("scan") \in ToSet(s) => proc[p].rounds > 0)
    BY DEF SectionInv
  <2>4. cards \in SUBSET Card
    OBVIOUS
  <2>5. GoesTo(p, todo)
    BY <1>1, <1>4, <2>2
  <2> HIDE DEF s, cards
  <2>6. todo \in Seq(Step) /\ Shape(todo) /\ ToSet(todo) = ({"reap"} \X cards) \cup ToSet(Tail(s))
    BY <2>2, <2>3, <2>4, SweepShape
  <2>7. A("scan") \in ToSet(todo) => A("scan") \in ToSet(s)
    BY <2>2, <2>6 DEF A
  <2>8. todo # <<>>
    <3>1. \E x \in ToSet(Tail(s)) : TRUE
      <4>1. Leads(s, Guarded, Closers, {"lock"}) /\ 1 \in 1..Len(s) /\ s[1][1] = "sweep" /\ Len(s) \in Nat
        BY <2>2, <2>3, TailFacts DEF Shape, A
      <4>2. PICK j \in 1..Len(s) : s[j][1] \in Closers
        BY <4>1 DEF Leads, Comes, Guarded
      <4>3. s[j] \in ToSet(s) /\ s[j] # A("sweep")
        BY <2>2, <4>2, ToSetFacts DEF Closers, A
      <4> QED BY <2>2, <4>3, ToSetTail
    <3>2. ToSet(<<>>) = {}
      BY DEF ToSet
    <3> QED BY <2>6, <3>1, <3>2
  <2> HIDE DEF todo
  <2>9. proc' \in [Process -> Memory] /\ Others(p) /\ Section(p, todo)
    BY <1>1, <1>2, <2>3, <2>5, <2>6, <2>7, GoesToSection
  <2>10. proc'[p].rounds = proc[p].rounds
    BY <2>1, <2>5, <2>6, <2>8, GoesToFacts
  <2> QED BY <1>2, <1>4, <2>2, <2>6, <2>8, <2>9, <2>10 DEF cards
<1> QED BY <1>3, <1>4

LEMMA ReapSection ==
    ASSUME TypeOK, SectionInv, NEW p \in Process, NEW c \in Card, Reap(p, c)
    PROVE  /\ proc' \in [Process -> Memory] /\ Others(p) /\ mutex = p
           /\ Section(p, Archive(c) \o Rest(p)) /\ proc'[p].rounds = proc[p].rounds
           /\ ToSet(Archive(c) \o Rest(p)) =
                {<<"down", c>>, <<"drop", c>>, <<"clear", c>>, A("pin")} \cup ToSet(Rest(p))
<1> DEFINE s == proc[p].todo
           todo == Archive(c) \o Tail(s)
<1>1. Takes(p, "reap", c) /\ mutex' = mutex /\ GoesTo(p, Archive(c) \o Rest(p))
  BY DEF Reap
<1>2. mutex = p
  BY <1>1, TakesGuarded DEF Guarded
<1>3. proc \in [Process -> Memory]
  BY DEF TypeOK
<1>4. s \in Seq(Step) /\ s # <<>> /\ Head(s) = <<"reap", c>> /\ Rest(p) = Tail(s)
      /\ ToSet(s) = ToSet(Rest(p)) \cup {<<"reap", c>>}
  BY <1>1, <1>3, RestFacts
<1>5. Shape(s) /\ (A("scan") \in ToSet(s) => proc[p].rounds > 0)
  BY DEF SectionInv
<1> HIDE DEF s
<1>6. /\ todo \in Seq(Step) /\ Shape(todo)
      /\ ToSet(todo) = {<<"down", c>>, <<"drop", c>>, <<"clear", c>>, A("pin")} \cup ToSet(Tail(s))
  BY <1>4, <1>5, ReapShape
<1>7. A("scan") \in ToSet(todo) => A("scan") \in ToSet(s)
  BY <1>4, <1>6 DEF A
<1>8. todo # <<>>
  <2>1. ToSet(<<>>) = {}
    BY DEF ToSet
  <2> QED BY <1>6, <2>1
<1>9. GoesTo(p, todo)
  BY <1>1, <1>4
<1> HIDE DEF todo
<1>10. proc' \in [Process -> Memory] /\ Others(p) /\ Section(p, todo)
  BY <1>1, <1>2, <1>5, <1>6, <1>7, <1>9, GoesToSection
<1>11. proc'[p].rounds = proc[p].rounds
  BY <1>3, <1>6, <1>8, <1>9, GoesToFacts
<1> QED BY <1>2, <1>4, <1>6, <1>10, <1>11 DEF todo

LEMMA MendSection ==
    ASSUME TypeOK, SectionInv, NEW p \in Process, NEW c \in Card, Mend(p, c)
    PROVE  /\ proc' \in [Process -> Memory] /\ Others(p)
           /\ \E todo : /\ Section(p, todo) /\ todo # <<>> /\ proc'[p].rounds = proc[p].rounds
                        /\ ToSet(todo) = ToSet(Rest(p)) \cup (IF Up(c) THEN {<<"lease", c>>} ELSE {})
<1> DEFINE s == proc[p].todo
           q == When(Up(c), << <<"lease", c>> >>)
           todo == q \o Tail(s)
<1>1. Takes(p, "mend", c) /\ mutex' = mutex /\ GoesTo(p, q \o Rest(p))
  BY DEF Mend
<1>2. q \in {<<>>, << <<"lease", c>> >>} /\ (Up(c) => q # <<>>) /\ (~Up(c) => q = <<>>)
  BY DEF When
<1>3. proc \in [Process -> Memory]
  BY DEF TypeOK
<1>4. s \in Seq(Step) /\ s # <<>> /\ Head(s) = <<"mend", c>> /\ Rest(p) = Tail(s)
      /\ ToSet(s) = ToSet(Rest(p)) \cup {<<"mend", c>>}
  BY <1>1, <1>3, RestFacts
<1>5. Shape(s) /\ (mutex # p => Shut(s)) /\ (A("scan") \in ToSet(s) => proc[p].rounds > 0)
  BY DEF SectionInv
<1> HIDE DEF s, q
<1>6. /\ todo \in Seq(Step) /\ Shape(todo) /\ (Shut(s) => Shut(todo))
      /\ ToSet(todo) = ToSet(q) \cup ToSet(Tail(s)) /\ ToSet(q) \subseteq {<<"lease", c>>}
      /\ (q # <<>> => <<"lease", c>> \in ToSet(q))
  BY <1>2, <1>4, <1>5, MendShape
<1>7. ToSet(<<>>) = {}
  BY DEF ToSet
<1>8. ToSet(q) = IF Up(c) THEN {<<"lease", c>>} ELSE {}
  BY <1>2, <1>6, <1>7
<1>9. A("scan") \in ToSet(todo) => A("scan") \in ToSet(s)
  BY <1>4, <1>6 DEF A
<1>10. todo # <<>>
  <2>1. Leads(s, Repairing, {"scan"}, {}) /\ 1 \in 1..Len(s) /\ s[1][1] = "mend"
    BY <1>4, <1>5, TailFacts DEF Shape
  <2>2. PICK j \in 1..Len(s) : s[j][1] = "scan"
    BY <2>1 DEF Leads, Comes, Repairing
  <2>3. s[j] \in ToSet(s) /\ s[j] # <<"mend", c>>
    BY <1>4, <2>2, ToSetFacts
  <2> QED BY <1>4, <1>6, <1>7, <2>3
<1>11. GoesTo(p, todo)
  BY <1>1, <1>4
<1> HIDE DEF todo
<1>12. proc' \in [Process -> Memory] /\ Others(p) /\ Section(p, todo)
  BY <1>1, <1>5, <1>6, <1>9, <1>11, GoesToSection
<1>13. proc'[p].rounds = proc[p].rounds
  BY <1>3, <1>6, <1>10, <1>11, GoesToFacts
<1> QED BY <1>4, <1>6, <1>8, <1>10, <1>12, <1>13

LEMMA LookAgainSection ==
    ASSUME TypeOK, SectionInv, NEW p \in Process, LookAgain(p)
    PROVE  /\ proc' \in [Process -> Memory] /\ Others(p)
           /\ Section(p, Render \o Rest(p)) /\ A("scan") \notin ToSet(Rest(p))
           /\ ToSet(Render \o Rest(p)) = {A("snap"), A("door"), A("check")} \cup ToSet(Rest(p))
<1> DEFINE s == proc[p].todo
           todo == Render \o Tail(s)
           mem == [proc[p] EXCEPT !.todo = Render \o Rest(p), !.tries = @ + 1]
<1>1. Takes(p, "check", None) /\ mutex' = mutex /\ GoesOn(p, mem)
  BY DEF LookAgain
<1>2. proc \in [Process -> Memory] /\ proc[p] \in Memory
  BY DEF TypeOK
<1>3. s \in Seq(Step) /\ s # <<>> /\ Head(s) = A("check") /\ Rest(p) = Tail(s)
  BY <1>1, <1>2, RestFacts DEF A
<1>4. Shape(s) /\ (mutex # p => Shut(s)) /\ A("scan") \notin ToSet(Rest(p))
  BY <1>1, RestShape DEF SectionInv
<1>5. \A t \in Seq(Step), m \in Memory, k \in Nat :
          [m EXCEPT !.todo = t, !.tries = k] \in Memory /\ [m EXCEPT !.todo = t, !.tries = k].todo = t
  BY DEF Memory, Step
<1> HIDE DEF s
<1>6. /\ todo \in Seq(Step) /\ Shape(todo) /\ (Shut(s) => Shut(todo))
      /\ ToSet(todo) = {A("snap"), A("door"), A("check")} \cup ToSet(Tail(s))
  BY <1>3, <1>4, AgainShape
<1>7. todo = Render \o Rest(p)
  BY <1>3
<1> HIDE DEF todo
<1>8. mem \in Memory /\ mem.todo = todo
  <2>1. proc[p].tries + 1 \in Nat
    BY <1>2, MemoryFacts
  <2>2. mem = [proc[p] EXCEPT !.todo = todo, !.tries = proc[p].tries + 1]
    BY <1>7
  <2> QED BY <1>2, <1>5, <1>6, <2>1, <2>2
<1>9. A("scan") \notin ToSet(todo)
  BY <1>3, <1>4, <1>6 DEF A
<1> HIDE DEF mem
<1>10. proc' \in [Process -> Memory] /\ Others(p) /\ Section(p, mem.todo)
  BY <1>1, <1>4, <1>6, <1>8, <1>9, GoesOnSection
<1> QED BY <1>3, <1>4, <1>6, <1>7, <1>8, <1>10

LEMMA ScanSection ==
    ASSUME TypeOK, SectionInv, NEW p \in Process, Scan(p)
    PROVE  /\ proc' \in [Process -> Memory] /\ Others(p) /\ mutex' = mutex
           /\ Section(p, ToRepair) /\ proc'[p].rounds = proc[p].rounds - 1
<1> DEFINE mem == [Idle EXCEPT !.todo = Repairs \o << A("scan") >>, !.rounds = proc[p].rounds - 1]
<1>1. Takes(p, "scan", None) /\ proc[p].rounds > 1 /\ GoesOn(p, mem) /\ mutex' = mutex
  BY DEF Scan
<1>2. proc[p].rounds \in Nat /\ junk \in BOOLEAN
  BY MemoryFacts DEF TypeOK
<1>3. proc[p].rounds - 1 \in Nat /\ proc[p].rounds - 1 > 0
  BY <1>1, <1>2
<1>4. ToRepair \in Seq(Step) /\ Shape(ToRepair) /\ Shut(ToRepair) /\ ToRepair = Repairs \o << A("scan") >>
  BY <1>2, RepairsFacts DEF ToRepair
<1>5. mem \in Memory /\ mem.todo = ToRepair /\ mem.rounds = proc[p].rounds - 1
  BY <1>3, <1>4, ForgetFacts
<1> HIDE DEF mem
<1>6. proc' \in [Process -> Memory] /\ Others(p) /\ Section(p, mem.todo)
  BY <1>1, <1>3, <1>4, <1>5, GoesOnSection
<1>7. ToRepair # <<>>
  BY <1>4, ConcatProperties, RepairsFacts, <1>2
<1>8. proc'[p] = mem
  <2>1. proc \in [Process -> Memory]
    BY DEF TypeOK
  <2> QED BY <1>1, <1>5, <1>7, <2>1, GoesOnFacts
<1> QED BY <1>1, <1>5, <1>6, <1>8

LEMMA LastScanSection ==
    ASSUME TypeOK, SectionInv, NEW p \in Process, LastScan(p)
    PROVE  proc' \in [Process -> Memory] /\ Others(p) /\ Section(p, << A("report") >>)
<1> DEFINE mem == [Idle EXCEPT !.todo = << A("report") >>]
<1>1. GoesOn(p, mem)
  BY DEF LastScan
<1>2. << A("report") >> \in Seq(Step) /\ Shape(<< A("report") >>)
  BY StepFacts, ListShapes DEF Verb
<1>3. mem \in Memory /\ mem.todo = << A("report") >>
  BY <1>2, ForgetFacts
<1>4. Shut(<< A("report") >>) /\ A("scan") \notin ToSet(<< A("report") >>)
  <2>1. Shut(<< A("report") >>)
    BY DEF Shut, A, Closers
  <2>2. A("scan") \notin ToSet(<< A("report") >>)
    BY DEF A, ToSet
  <2> QED BY <2>1, <2>2
<1> HIDE DEF mem
<1>5. proc' \in [Process -> Memory] /\ Others(p) /\ Section(p, mem.todo)
  BY <1>1, <1>2, <1>3, <1>4, GoesOnSection
<1> QED BY <1>3, <1>5

LEMMA ForgetsSection ==
    ASSUME TypeOK, SectionInv, NEW p \in Process, Takes(p, "check", None), Forgets(p), mutex' = mutex
    PROVE  proc' \in [Process -> Memory] /\ Others(p) /\ Section(p, Rest(p))
<1> DEFINE mem == [Idle EXCEPT !.todo = Rest(p)]
<1>1. GoesOn(p, mem)
  BY DEF Forgets
<1>2. /\ Rest(p) \in Seq(Step) /\ Shape(Rest(p)) /\ (mutex # p => Shut(Rest(p)))
      /\ A("scan") \notin ToSet(Rest(p))
  <2>1. "check" # "lock"
    OBVIOUS
  <2> QED BY <2>1, RestShape
<1>3. mem \in Memory /\ mem.todo = Rest(p)
  BY <1>2, ForgetFacts
<1> HIDE DEF mem
<1>4. proc' \in [Process -> Memory] /\ Others(p) /\ Section(p, mem.todo)
  BY <1>1, <1>2, <1>3, GoesOnSection
<1> QED BY <1>3, <1>4

LEMMA DecideSection ==
    ASSUME TypeOK, SectionInv, NEW p \in Process, Decide(p)
    PROVE  /\ proc' \in [Process -> Memory] /\ Others(p) /\ mutex = p
           /\ \E todo : Section(p, todo) /\ Decided(todo)
<1>1. Takes(p, "decide", None) /\ mutex' = mutex
  BY DEF Decide
<1>2. mutex = p
  BY <1>1, TakesGuarded DEF Guarded
<1>3. PICK todo : Decided(todo) /\ GoesTo(p, todo)
  BY DecideFacts
<1>4. todo \in Seq(Step) /\ Shape(todo) /\ A("scan") \notin ToSet(todo)
  <2>1. A("scan")[1] = "scan"
    BY DEF A
  <2> QED BY <1>3, <2>1 DEF Decided
<1>5. proc' \in [Process -> Memory] /\ Others(p) /\ Section(p, todo)
  BY <1>1, <1>2, <1>3, <1>4, GoesToSection
<1> QED BY <1>2, <1>3, <1>5

LEMMA TakeSnapshotSection ==
    ASSUME TypeOK, SectionInv, NEW p \in Process, TakeSnapshot(p), Snapshot \in Snapshots
    PROVE  /\ proc' \in [Process -> Memory] /\ Others(p) /\ Section(p, Rest(p))
           /\ proc'[p].seen = Snapshot /\ proc'[p].rounds = proc[p].rounds
           /\ Len(Rest(p)) # 0 /\ Rest(p)[1][1] = "door"
<1> DEFINE mem == [proc[p] EXCEPT !.todo = Rest(p), !.seen = Snapshot, !.staged = TRUE]
<1>0. Takes(p, "snap", None) /\ mutex' = mutex
  BY DEF TakeSnapshot
<1>1. GoesOn(p, mem)
  BY DEF TakeSnapshot
<1>2. /\ Rest(p) \in Seq(Step) /\ Shape(Rest(p)) /\ (mutex # p => Shut(Rest(p)))
      /\ (A("scan") \in ToSet(Rest(p)) => proc[p].rounds > 0)
  <2>1. Rest(p) \in Seq(Step) /\ Shape(Rest(p)) /\ (A("scan") \in ToSet(Rest(p)) => proc[p].rounds > 0)
    BY <1>0, RestShape
  <2>2. mutex # p /\ "snap" # "lock" => Shut(Rest(p))
    BY <1>0, RestShape
  <2> QED BY <2>1, <2>2
<1>3. \A t \in Seq(Step), m \in Memory :
          /\ [m EXCEPT !.todo = t, !.seen = Snapshot, !.staged = TRUE] \in Memory
          /\ [m EXCEPT !.todo = t, !.seen = Snapshot, !.staged = TRUE].todo = t
          /\ [m EXCEPT !.todo = t, !.seen = Snapshot, !.staged = TRUE].seen = Snapshot
          /\ [m EXCEPT !.todo = t, !.seen = Snapshot, !.staged = TRUE].rounds = m.rounds
  BY DEF Memory, Step
<1>4. proc \in [Process -> Memory] /\ proc[p] \in Memory
  BY DEF TypeOK
<1>5. mem \in Memory /\ mem.todo = Rest(p) /\ mem.seen = Snapshot /\ mem.rounds = proc[p].rounds
  <2>1. Rest(p) \in Seq(Step) /\ proc[p] \in Memory
    BY <1>2, <1>4
  <2> QED BY <1>3, <2>1
<1> HIDE DEF mem
<1>6. proc' \in [Process -> Memory] /\ Others(p) /\ Section(p, mem.todo)
  BY <1>0, <1>1, <1>2, <1>5, GoesOnSection
<1>7. Len(Rest(p)) # 0 /\ Rest(p)[1][1] = "door"
  <2> DEFINE s == proc[p].todo
  <2>1. s \in Seq(Step) /\ s # <<>> /\ Head(s) = A("snap") /\ Rest(p) = Tail(s)
    BY <1>0, <1>4, RestFacts DEF A
  <2>2. Shape(s)
    BY DEF SectionInv
  <2> HIDE DEF s
  <2>3. /\ 1 \in 1..Len(s) /\ s[1][1] = "snap" /\ Len(s) \in Nat /\ Len(Tail(s)) = Len(s) - 1
        /\ \A i \in 1..Len(Tail(s)) : Tail(s)[i] = s[i + 1]
    BY <2>1, TailFacts DEF A
  <2>4. PICK j \in 1..Len(s) : s[j][1] \in Lookers
    BY <2>2, <2>3 DEF Shape, Leads, Comes, Watched
  <2>5. j # 1
    BY <2>3, <2>4 DEF Lookers
  <2>6. 2 \in 1..Len(s) /\ 1 \in 1..Len(Tail(s)) /\ 2 = 1 + 1
    BY <2>3, <2>5
  <2>7. Follows(s[1], s[2])
    BY <2>2, <2>3, <2>6 DEF Shape, InOrder
  <2> QED BY <2>1, <2>3, <2>6, <2>7 DEF Follows
<1>8. proc'[p] = mem
  <2>1. Rest(p) # <<>>
    BY <1>7
  <2> QED BY <1>1, <1>4, <1>5, <2>1, GoesOnFacts
<1> QED BY <1>5, <1>6, <1>7, <1>8

LEMMA JoinQueueSection ==
    ASSUME TypeOK, SectionInv, NEW p \in Process, NEW c \in Card, NEW e \in Entry, JoinQueue(p, c, e)
    PROVE  proc' \in [Process -> Memory] /\ Others(p) /\ Section(p, Rest(p))
<1> DEFINE mem == [proc[p] EXCEPT !.todo = Rest(p), !.entry = e]
<1>0. Takes(p, "join", c) /\ mutex' = mutex
  BY DEF JoinQueue
<1>1. GoesOn(p, mem)
  BY DEF JoinQueue
<1>2. /\ Rest(p) \in Seq(Step) /\ Shape(Rest(p)) /\ (mutex # p => Shut(Rest(p)))
      /\ (A("scan") \in ToSet(Rest(p)) => proc[p].rounds > 0)
  <2>1. Rest(p) \in Seq(Step) /\ Shape(Rest(p)) /\ (A("scan") \in ToSet(Rest(p)) => proc[p].rounds > 0)
    BY <1>0, RestShape
  <2>2. mutex # p /\ "join" # "lock" => Shut(Rest(p))
    BY <1>0, RestShape
  <2> QED BY <2>1, <2>2
<1>3. \A t \in Seq(Step), m \in Memory :
          /\ [m EXCEPT !.todo = t, !.entry = e] \in Memory /\ [m EXCEPT !.todo = t, !.entry = e].todo = t
          /\ [m EXCEPT !.todo = t, !.entry = e].rounds = m.rounds
  BY DEF Memory, Step
<1>4. proc \in [Process -> Memory] /\ proc[p] \in Memory
  BY DEF TypeOK
<1>5. mem \in Memory /\ mem.todo = Rest(p) /\ mem.rounds = proc[p].rounds
  BY <1>2, <1>3, <1>4
<1> HIDE DEF mem
<1>6. proc' \in [Process -> Memory] /\ Others(p) /\ Section(p, mem.todo)
  BY <1>0, <1>1, <1>2, <1>5, GoesOnSection
<1> QED BY <1>5, <1>6

\* The render that cannot rename its file gives up; only doctor takes it for an error.
LEMMA DoorFailsSection ==
    ASSUME TypeOK, SectionInv, NEW p \in Process, DoorFails(p)
    PROVE  /\ proc' \in [Process -> Memory] /\ Others(p)
           /\ \E todo : /\ Section(p, todo) /\ A("scan") \notin ToSet(todo)
                        /\ ToSet(todo) \subseteq ToSet(Rest(p)) \cup {A("unlock")}
                        /\ \/ todo \in {<<>>, << A("unlock") >>}
                           \/ Len(Rest(p)) # 0 /\ Rest(p)[1][1] = "check" /\ todo = Tail(Rest(p))
<1> DEFINE r == Rest(p)
<1>0. Takes(p, "door", None) /\ mutex' = mutex
  BY DEF DoorFails
<1>1. IF proc[p].rounds > 0 THEN Fails(p) ELSE GoesTo(p, Tail(r))
  BY DEF DoorFails
<1>2. proc \in [Process -> Memory]
  BY DEF TypeOK
<1>3. CASE proc[p].rounds > 0
  <2>1. PICK todo : /\ todo \in {<<>>, << A("unlock") >>} /\ Section(p, todo)
                    /\ proc' \in [Process -> Memory] /\ Others(p)
    BY <1>0, <1>1, <1>3, FailsSection
  <2>2. ToSet(<<>>) = {} /\ ToSet(<< A("unlock") >>) = {A("unlock")}
    BY DEF ToSet
  <2>3. A("scan") # A("unlock")
    BY DEF A
  <2>4. ToSet(todo) \subseteq {A("unlock")}
    BY <2>1, <2>2
  <2> QED BY <2>1, <2>3, <2>4
<1>4. CASE ~(proc[p].rounds > 0)
  <2>1. /\ r \in Seq(Step) /\ Shape(r) /\ (mutex # p => Shut(r)) /\ A("scan") \notin ToSet(r)
    <3>1. r \in Seq(Step) /\ Shape(r) /\ (A("scan") \in ToSet(r) => proc[p].rounds > 0)
      BY <1>0, RestShape
    <3>2. mutex # p /\ "door" # "lock" => Shut(r)
      BY <1>0, RestShape
    <3> QED BY <1>4, <3>1, <3>2
  <2>2. Len(r) # 0 /\ r[1][1] = "check"
    <3> DEFINE s == proc[p].todo
    <3>1. s \in Seq(Step) /\ s # <<>> /\ Head(s) = A("door") /\ r = Tail(s)
      BY <1>0, <1>2, RestFacts DEF A
    <3>2. Shape(s)
      BY DEF SectionInv
    <3> HIDE DEF s, r
    <3>3. /\ 1 \in 1..Len(s) /\ s[1][1] = "door" /\ Len(s) \in Nat /\ Len(Tail(s)) = Len(s) - 1
          /\ \A i \in 1..Len(Tail(s)) : Tail(s)[i] = s[i + 1]
      BY <3>1, TailFacts DEF A
    <3>4. PICK j \in 1..Len(s) : s[j][1] \in Lookers
      BY <3>2, <3>3 DEF Shape, Leads, Comes, Watched
    <3>5. j # 1
      BY <3>3, <3>4 DEF Lookers
    <3>6. 2 \in 1..Len(s) /\ 1 \in 1..Len(Tail(s)) /\ 2 = 1 + 1
      BY <3>3, <3>5
    <3>7. Follows(s[1], s[2])
      BY <3>2, <3>3, <3>6 DEF Shape, InOrder
    <3>8. r[1] = s[2] /\ Len(r) # 0 /\ 1 \in 1..Len(r)
      BY <3>1, <3>3, <3>6
    <3>9. r[1] \in {A("check"), A("scan")}
      BY <3>3, <3>7, <3>8 DEF Follows
    <3>10. r[1] # A("scan")
      BY <2>1, <3>8, ToSetFacts
    <3> QED BY <3>8, <3>9, <3>10 DEF A
  <2>3. r # <<>>
    BY <2>2
  <2>4. Head(r)[1] # "lock"
    BY <2>1, <2>2, <2>3, TailFacts
  <2>5. Tail(r) \in Seq(Step) /\ Shape(Tail(r)) /\ ToSet(Tail(r)) \subseteq ToSet(r)
    BY <2>1, <2>3, TailFacts, ShapeTail, ToSetTail
  <2>6. mutex # p => Shut(Tail(r))
    BY <2>1, <2>3, <2>4, ShutTail
  <2>7. GoesTo(p, Tail(r))
    BY <1>1, <1>4
  <2>8. proc' \in [Process -> Memory] /\ Others(p) /\ Section(p, Tail(r))
    <3> HIDE DEF r
    <3> QED BY <1>0, <2>1, <2>5, <2>6, <2>7, GoesToSection
  <2> QED BY <2>1, <2>2, <2>5, <2>8
<1> QED BY <1>3, <1>4

LEMMA ClearTmpSection ==
    ASSUME TypeOK, SectionInv, NEW p \in Process, ClearTmp(p)
    PROVE  /\ proc' \in [Process -> Memory] /\ Others(p) /\ Section(p, Rest(p))
           /\ Rest(p) # <<>> /\ proc'[p].rounds = proc[p].rounds /\ proc'[p].seen = proc[p].seen
<1>1. Takes(p, "tmp", None) /\ mutex' = mutex
  BY DEF ClearTmp
<1>2. proc \in [Process -> Memory]
  BY DEF TypeOK
<1>3. /\ Rest(p) \in Seq(Step) /\ Shape(Rest(p)) /\ (mutex # p => Shut(Rest(p)))
      /\ (A("scan") \in ToSet(Rest(p)) => proc[p].rounds > 0)
  <2>1. Rest(p) \in Seq(Step) /\ Shape(Rest(p)) /\ (A("scan") \in ToSet(Rest(p)) => proc[p].rounds > 0)
    BY <1>1, RestShape
  <2>2. mutex # p /\ "tmp" # "lock" => Shut(Rest(p))
    BY <1>1, RestShape
  <2> QED BY <2>1, <2>2
<1>4. \A m \in Memory, t \in Seq(Step) :
          /\ [m EXCEPT !.staged = FALSE, !.todo = t] \in Memory
          /\ [m EXCEPT !.staged = FALSE, !.todo = t].todo = t
          /\ [m EXCEPT !.staged = FALSE, !.todo = t].rounds = m.rounds
          /\ [m EXCEPT !.staged = FALSE, !.todo = t].seen = m.seen
          /\ [m EXCEPT !.staged = FALSE, !.todo = m.todo] = [m EXCEPT !.staged = FALSE]
  BY DEF Memory, Step
<1>5. \A q \in Process : proc'[q] = [proc[q] EXCEPT !.staged = FALSE,
                                                   !.todo = IF q = p THEN Rest(p) ELSE proc[q].todo]
  BY DEF ClearTmp
<1>6. proc'[p] = [proc[p] EXCEPT !.staged = FALSE, !.todo = Rest(p)]
  BY <1>5
<1>7. ASSUME NEW q \in Process, q # p PROVE proc'[q] = [proc[q] EXCEPT !.staged = FALSE]
  <2>1. proc[q] \in Memory /\ proc[q].todo \in Seq(Step)
    BY <1>2, MemoryFacts
  <2>2. [proc[q] EXCEPT !.staged = FALSE, !.todo = proc[q].todo] = [proc[q] EXCEPT !.staged = FALSE]
    BY <1>4, <2>1
  <2> QED BY <1>5, <1>7, <2>2
<1>8. Others(p)
  BY <1>7 DEF Others
<1>9. /\ proc'[p] \in Memory /\ proc'[p].todo = Rest(p)
      /\ proc'[p].rounds = proc[p].rounds /\ proc'[p].seen = proc[p].seen
  <2>1. proc[p] \in Memory /\ Rest(p) \in Seq(Step)
    BY <1>2, <1>3
  <2>2. LET m == [proc[p] EXCEPT !.staged = FALSE, !.todo = Rest(p)] IN
          m \in Memory /\ m.todo = Rest(p) /\ m.rounds = proc[p].rounds /\ m.seen = proc[p].seen
    BY <1>4, <2>1
  <2> QED BY <1>6, <2>2
<1>10. proc' \in [Process -> Memory]
  <2>1. ASSUME NEW q \in Process PROVE proc'[q] \in Memory
    <3>1. CASE q = p
      BY <1>9, <3>1
    <3>2. CASE q # p
      <4>1. proc[q].todo \in Seq(Step) /\ proc[q] \in Memory
        BY <1>2, MemoryFacts
      <4>2. proc'[q] = [proc[q] EXCEPT !.staged = FALSE, !.todo = proc[q].todo]
        BY <1>5, <3>2
      <4>3. [proc[q] EXCEPT !.staged = FALSE, !.todo = proc[q].todo] \in Memory
        BY <1>4, <4>1
      <4> QED BY <4>2, <4>3
    <3> QED BY <3>1, <3>2
  <2>2. \E f : proc' = [q \in Process |-> f[q]]
    <3> DEFINE f == [q \in Process |-> [proc[q] EXCEPT !.staged = FALSE, !.todo = IF q = p THEN Rest(p) ELSE @]]
    <3>1. proc' = f
      BY DEF ClearTmp
    <3>2. f = [q \in Process |-> f[q]]
      OBVIOUS
    <3> HIDE DEF f
    <3> QED BY <3>1, <3>2
  <2> QED BY <2>1, <2>2
<1>11. Rest(p) # <<>>
  <2> DEFINE s == proc[p].todo
  <2>1. s \in Seq(Step) /\ s # <<>> /\ Head(s) = A("tmp") /\ ToSet(s) = ToSet(Rest(p)) \cup {A("tmp")}
    BY <1>1, <1>2, RestFacts DEF A
  <2>2. Leads(s, Repairing, {"scan"}, {})
    BY DEF SectionInv, Shape
  <2> HIDE DEF s
  <2>3. 1 \in 1..Len(s) /\ s[1][1] = "tmp" /\ Len(s) \in Nat
    BY <2>1, TailFacts DEF A
  <2>4. PICK j \in 1..Len(s) : s[j][1] = "scan"
    BY <2>2, <2>3 DEF Leads, Comes, Repairing
  <2>5. s[j] \in ToSet(Rest(p))
    BY <2>1, <2>4, ToSetFacts DEF A
  <2>6. ToSet(<<>>) = {}
    BY DEF ToSet
  <2> QED BY <2>5, <2>6
<1>12. Section(p, Rest(p))
  BY <1>1, <1>3, <1>9, <1>11 DEF Section
<1> QED BY <1>8, <1>9, <1>10, <1>11, <1>12

LEMMA SnapshotType ==
    ASSUME TypeOK
    PROVE  Snapshot \in Snapshots
<1>1. IsFiniteSet(Entry) /\ DOMAIN queue \subseteq Entry /\ notes \in Nat
  BY FilesAssumption DEF TypeOK
<1>2. IsFiniteSet(DOMAIN queue) /\ Cardinality(DOMAIN queue) <= Cardinality(Entry)
  BY <1>1, FS_Subset
<1>3. Cardinality(DOMAIN queue) \in Nat /\ Cardinality(Entry) \in Nat
  BY <1>1, <1>2, FS_CardinalityType
<1>4. Cardinality(DOMAIN queue) \in 0..Cardinality(Entry)
  BY <1>2, <1>3
<1> QED BY <1>1, <1>4 DEF Snapshot, Snapshots

LEMMA SectionDone ==
    ASSUME TypeOK, SectionInv, NEW p \in Process, NEW verb, NEW c, Takes(p, verb, c), Done(p),
           verb # "lock", mutex' = mutex
    PROVE  proc' \in [Process -> Memory] /\ SectionInv'
<1>1. proc' \in [Process -> Memory] /\ Others(p) /\ Section(p, Rest(p))
  BY DoneSection
<1>2. \A q \in Process : q # p /\ mutex' # q => mutex # q
  OBVIOUS
<1> QED BY <1>1, <1>2, SectionGoes

LEMMA SectionStep ==
    ASSUME TypeOK, SectionInv, NEW p \in Process, Tended(p) \/ Untended(p)
    PROVE  proc' \in [Process -> Memory] /\ SectionInv'
<1> DEFINE Goal == proc' \in [Process -> Memory] /\ SectionInv'
<1>1. ASSUME mutex' = mutex, NEW todo, proc' \in [Process -> Memory], Others(p), Section(p, todo) PROVE Goal
  <2>1. \A q \in Process : q # p /\ mutex' # q => mutex # q
    BY <1>1
  <2> QED BY <1>1, <2>1, SectionGoes
<1>2. CASE Command(p)
  <2>1. PICK todo : Section(p, todo)
    BY <1>2, CommandSection
  <2>2. proc' \in [Process -> Memory] /\ Others(p) /\ \A q \in Process : q # p /\ mutex' # q => mutex # q
    BY <1>2, CommandSection
  <2> QED BY <2>1, <2>2, SectionGoes
<1>3. CASE Doctor(p)
  BY <1>1, <1>3, DoctorSection
<1>4. CASE Lock(p)
  <2>1. \A q \in Process : q # p /\ mutex' # q => mutex # q
    BY <1>4, LockSection
  <2> QED BY <1>4, <2>1, LockSection, SectionGoes
<1>5. CASE Unlock(p)
  <2>1. \A q \in Process : q # p /\ mutex' # q => mutex # q
    BY <1>5, UnlockSection
  <2> QED BY <1>5, <2>1, UnlockSection, SectionGoes
<1>6. CASE Sweep(p)
  <2>1. mutex' = mutex
    BY <1>6 DEF Sweep
  <2> QED BY <1>1, <1>6, <2>1, SweepSection
<1>7. CASE Decide(p)
  <2>1. mutex' = mutex
    BY <1>7 DEF Decide
  <2> QED BY <1>1, <1>7, <2>1, DecideSection
<1>8. CASE Pin(p)
  <2>1. Takes(p, "pin", None) /\ Done(p) /\ mutex' = mutex
    BY <1>8 DEF Pin
  <2> QED BY <2>1, SectionDone
<1>9. ASSUME NEW c \in Card,
             \/ Reap(p, c) \/ SaveClaim(p, c) \/ LeaseCard(p, c) \/ Renew(p, c) \/ ReadOwn(p, c)
             \/ TakeDown(p, c) \/ DropLease(p, c) \/ ClearQueueFor(p, c)
             \/ MoveClaim(p, c) \/ MoveLease(p, c) \/ Mend(p, c) \/ DropOrphan(p, c)
      PROVE  Goal
  <2>1. CASE Reap(p, c)
    <3>1. mutex' = mutex
      BY <2>1 DEF Reap
    <3> QED BY <1>1, <2>1, <3>1, ReapSection
  <2>2. CASE SaveClaim(p, c)
    BY <2>2, SectionDone DEF SaveClaim
  <2>3. CASE LeaseCard(p, c)
    BY <2>3, SectionDone DEF LeaseCard, WriteLease
  <2>4. CASE Renew(p, c)
    BY <2>4, SectionDone DEF Renew, WriteLease
  <2>5. CASE ReadOwn(p, c)
    BY <2>5, SectionDone DEF ReadOwn
  <2>6. CASE TakeDown(p, c)
    BY <2>6, SectionDone DEF TakeDown
  <2>7. CASE DropLease(p, c)
    BY <2>7, SectionDone DEF DropLease
  <2>8. CASE ClearQueueFor(p, c)
    BY <2>8, SectionDone DEF ClearQueueFor
  <2>9. CASE MoveClaim(p, c)
    BY <2>9, SectionDone DEF MoveClaim
  <2>10. CASE MoveLease(p, c)
    BY <2>10, SectionDone DEF MoveLease
  <2>11. CASE Mend(p, c)
    <3>1. mutex' = mutex
      BY <2>11 DEF Mend
    <3> QED BY <1>1, <2>11, <3>1, MendSection
  <2>12. CASE DropOrphan(p, c)
    BY <2>12, SectionDone DEF DropOrphan
  <2> QED BY <1>9, <2>1, <2>2, <2>3, <2>4, <2>5, <2>6, <2>7, <2>8, <2>9, <2>10, <2>11, <2>12
<1>10. CASE TakeSnapshot(p)
  <2>1. mutex' = mutex
    BY <1>10 DEF TakeSnapshot
  <2> QED BY <1>1, <1>10, <2>1, SnapshotType, TakeSnapshotSection
<1>11. CASE WriteDoor(p)
  BY <1>11, SectionDone DEF WriteDoor
<1>12. CASE LookAgain(p)
  <2>1. mutex' = mutex
    BY <1>12 DEF LookAgain
  <2> QED BY <1>1, <1>12, <2>1, LookAgainSection
<1>13. CASE Rendered(p) \/ GivesUp(p)
  <2>1. Takes(p, "check", None) /\ Forgets(p) /\ mutex' = mutex
    BY <1>13 DEF Rendered, GivesUp
  <2> QED BY <1>1, <2>1, ForgetsSection
<1>14. CASE Scan(p)
  BY <1>1, <1>14, ScanSection
<1>15. CASE Report(p)
  BY <1>15, SectionDone DEF Report
<1>16. CASE ClearTmp(p)
  <2>1. mutex' = mutex
    BY <1>16 DEF ClearTmp
  <2> QED BY <1>1, <1>16, <2>1, ClearTmpSection
<1>17. CASE BreakMutex(p)
  <2>1. Takes(p, "break", None) /\ Done(p) /\ (mutex' = mutex \/ (mutex = "dead" /\ mutex' = None))
    BY <1>17 DEF BreakMutex
  <2>2. mutex' # p => mutex # p
    BY <2>1, ProcessAssumption
  <2>3. proc' \in [Process -> Memory] /\ Others(p) /\ Section(p, Rest(p))
    <3>1. "break" # "lock"
      OBVIOUS
    <3> QED BY <2>1, <2>2, <3>1, DoneSection
  <2>4. \A q \in Process : q # p /\ mutex' # q => mutex # q
    BY <2>1, ProcessAssumption
  <2> QED BY <2>3, <2>4, SectionGoes
<1>18. ASSUME NEW c \in Card, RunBeat(p, c) PROVE Goal
  BY <1>18, SectionDone DEF RunBeat, WriteLease
<1>19. ASSUME NEW c \in Card, NEW e \in Entry, JoinQueue(p, c, e) PROVE Goal
  <2>1. mutex' = mutex
    BY <1>19 DEF JoinQueue
  <2> QED BY <1>1, <1>19, <2>1, JoinQueueSection
<1>20. CASE LeaveQueue(p)
  BY <1>20, SectionDone DEF LeaveQueue
<1>21. CASE Refuse(p)
  <2>1. mutex' = mutex /\ Fails(p)
    BY <1>21 DEF Refuse
  <2> QED BY <1>1, <2>1, FailsSection
<1>22. CASE DoorFails(p)
  <2>1. mutex' = mutex
    BY <1>22 DEF DoorFails
  <2> QED BY <1>1, <1>22, <2>1, DoorFailsSection
<1>23. CASE LastScan(p)
  <2>1. mutex' = mutex
    BY <1>23 DEF LastScan
  <2> QED BY <1>1, <1>23, <2>1, LastScanSection
<1>25. CASE ClaimFails(p)
  <2>1. mutex' = mutex /\ Fails(p)
    BY <1>25 DEF ClaimFails
  <2> QED BY <1>1, <2>1, FailsSection
<1>26. ASSUME Tended(p) PROVE Goal
  <2>1. CASE \E c \in Card :
                \/ Reap(p, c) \/ SaveClaim(p, c) \/ LeaseCard(p, c) \/ Renew(p, c) \/ ReadOwn(p, c)
                \/ TakeDown(p, c) \/ DropLease(p, c) \/ ClearQueueFor(p, c)
                \/ MoveClaim(p, c) \/ MoveLease(p, c) \/ Mend(p, c) \/ DropOrphan(p, c)
    BY <1>9, <2>1
  <2>2. CASE \/ Command(p) \/ Doctor(p) \/ Lock(p) \/ Unlock(p) \/ Sweep(p) \/ Decide(p) \/ Pin(p)
    BY <2>2, <1>2, <1>3, <1>4, <1>5, <1>6, <1>7, <1>8
  <2>3. CASE \/ TakeSnapshot(p) \/ WriteDoor(p) \/ LookAgain(p) \/ Rendered(p) \/ Scan(p) \/ Report(p)
             \/ ClearTmp(p) \/ BreakMutex(p) \/ Refuse(p)
    BY <2>3, <1>10, <1>11, <1>12, <1>13, <1>14, <1>15, <1>16, <1>17, <1>21
  <2>4. CASE \E c \in Card : \E e \in Entry : JoinQueue(p, c, e)
    BY <2>4, <1>19
  <2> QED BY <1>26, <2>1, <2>2, <2>3, <2>4 DEF Tended
<1>27. ASSUME Untended(p) PROVE Goal
  <2>1. CASE \E c \in Card : RunBeat(p, c)
    BY <2>1, <1>18
  <2>2. CASE \E c \in Card : \E e \in Entry : JoinQueue(p, c, e)
    BY <2>2, <1>19
  <2>3. CASE LeaveQueue(p) \/ ClaimFails(p) \/ DoorFails(p) \/ GivesUp(p) \/ LastScan(p)
    BY <2>3, <1>13, <1>20, <1>22, <1>23, <1>25
  <2> QED BY <1>27, <2>1, <2>2, <2>3 DEF Untended
<1> QED BY <1>26, <1>27

\* The types of the files, and of what is kept of them.
FilesOK ==
    /\ claim \in [Card -> ClaimFile] /\ lease \in [Card -> LeaseFile]
    /\ DOMAIN queue \subseteq Entry /\ queue \in [DOMAIN queue -> Card]
    /\ notes \in Nat /\ door \in Snapshots \cup {None} /\ junk \in BOOLEAN
    /\ mutex \in Process \cup {None, "recent", "dead"}
    /\ kept \subseteq Card /\ stray \subseteq Entry

LEMMA FilesStep ==
    ASSUME TypeOK, SectionInv, NEW p \in Process, Tended(p) \/ Untended(p)
    PROVE  FilesOK'
<1>0. FilesOK /\ proc[p] \in Memory
  BY DEF TypeOK, FilesOK
<1>1. ASSUME UNCHANGED <<files, kept, stray>>, mutex' \in Process \cup {None, "recent", "dead"} PROVE FilesOK'
  BY <1>0, <1>1 DEF FilesOK, files
<1>2. CASE Command(p)
  <2>1. UNCHANGED <<files, kept, stray>> /\ mutex' \in Process \cup {None, "recent", "dead"}
    BY <1>0, <1>2, CommandSection DEF FilesOK
  <2> QED BY <1>1, <2>1
<1>3. CASE Doctor(p)
  BY <1>0, <1>1, <1>3 DEF Doctor, FilesOK
<1>4. CASE Lock(p)
  BY <1>0, <1>1, <1>4 DEF Lock, FilesOK
<1>5. CASE Unlock(p)
  BY <1>0, <1>1, <1>5 DEF Unlock, FilesOK
<1>6. CASE Sweep(p)
  BY <1>0, <1>1, <1>6 DEF Sweep, FilesOK
<1>7. CASE Decide(p)
  BY <1>0, <1>1, <1>7 DEF Decide, FilesOK
<1>8. CASE Pin(p)
  BY <1>0, <1>8 DEF Pin, FilesOK
<1>9. ASSUME NEW c \in Card,
             \/ Reap(p, c) \/ SaveClaim(p, c) \/ LeaseCard(p, c) \/ Renew(p, c) \/ ReadOwn(p, c)
             \/ TakeDown(p, c) \/ DropLease(p, c) \/ ClearQueueFor(p, c)
             \/ MoveClaim(p, c) \/ MoveLease(p, c) \/ Mend(p, c) \/ DropOrphan(p, c)
      PROVE  FilesOK'
  <2>1. CASE Reap(p, c)
    BY <1>0, <1>1, <2>1 DEF Reap, FilesOK
  <2>2. CASE SaveClaim(p, c)
    BY <1>0, <2>2 DEF SaveClaim, FilesOK, ClaimFile, Readable
  <2>3. CASE LeaseCard(p, c)
    BY <1>0, <2>3 DEF LeaseCard, WriteLease, FilesOK, LeaseFile, Readable
  <2>4. CASE Renew(p, c)
    BY <1>0, <2>4 DEF Renew, WriteLease, FilesOK, LeaseFile, Readable
  <2>5. CASE ReadOwn(p, c)
    BY <1>0, <2>5 DEF ReadOwn, FilesOK, files
  <2>6. CASE TakeDown(p, c)
    BY <1>0, <2>6 DEF TakeDown, FilesOK, ClaimFile
  <2>7. CASE DropLease(p, c)
    BY <1>0, <2>7 DEF DropLease, FilesOK, LeaseFile
  <2>8. CASE ClearQueueFor(p, c)
    BY <1>0, <2>8 DEF ClearQueueFor, Without, FilesOK
  <2>9. CASE MoveClaim(p, c)
    BY <1>0, <2>9 DEF MoveClaim, FilesOK, ClaimFile
  <2>10. CASE MoveLease(p, c)
    BY <1>0, <2>10 DEF MoveLease, FilesOK, LeaseFile
  <2>11. CASE Mend(p, c)
    BY <1>0, <1>1, <2>11 DEF Mend, FilesOK
  <2>12. CASE DropOrphan(p, c)
    BY <1>0, <2>12 DEF DropOrphan, FilesOK, LeaseFile
  <2> QED BY <1>9, <2>1, <2>2, <2>3, <2>4, <2>5, <2>6, <2>7, <2>8, <2>9, <2>10, <2>11, <2>12
<1>10. CASE TakeSnapshot(p)
  BY <1>0, <1>1, <1>10 DEF TakeSnapshot, FilesOK
<1>11. CASE WriteDoor(p)
  BY <1>0, <1>11, MemoryFacts DEF WriteDoor, FilesOK
<1>12. CASE LookAgain(p)
  BY <1>0, <1>1, <1>12 DEF LookAgain, FilesOK
<1>13. CASE Rendered(p)
  BY <1>0, <1>1, <1>13 DEF Rendered, FilesOK
<1>14. CASE Scan(p)
  BY <1>0, <1>1, <1>14 DEF Scan, FilesOK
<1>15. CASE Report(p)
  BY <1>0, <1>1, <1>15 DEF Report, FilesOK
<1>16. CASE ClearTmp(p)
  BY <1>0, <1>16 DEF ClearTmp, FilesOK
<1>17. CASE BreakMutex(p)
  BY <1>0, <1>1, <1>17 DEF BreakMutex, FilesOK
<1>18. ASSUME NEW c \in Card, RunBeat(p, c) PROVE FilesOK'
  BY <1>0, <1>18 DEF RunBeat, WriteLease, FilesOK, LeaseFile, Readable
<1>19. ASSUME NEW c \in Card, NEW e \in Entry, JoinQueue(p, c, e) PROVE FilesOK'
  BY <1>0, <1>19 DEF JoinQueue, FilesOK
<1>20. CASE LeaveQueue(p)
  BY <1>0, <1>20 DEF LeaveQueue, Without, FilesOK
<1>21. CASE Refuse(p)
  BY <1>0, <1>1, <1>21 DEF Refuse, FilesOK
<1>22. CASE DoorFails(p)
  BY <1>0, <1>1, <1>22 DEF DoorFails, FilesOK
<1>23. CASE GivesUp(p)
  BY <1>0, <1>1, <1>23 DEF GivesUp, FilesOK
<1>24. CASE LastScan(p)
  BY <1>0, <1>1, <1>24 DEF LastScan, FilesOK
<1>25. CASE ClaimFails(p)
  BY <1>0, <1>1, <1>25 DEF ClaimFails, FilesOK
<1>26. ASSUME Tended(p) PROVE FilesOK'
  <2>1. CASE \E c \in Card :
                \/ Reap(p, c) \/ SaveClaim(p, c) \/ LeaseCard(p, c) \/ Renew(p, c) \/ ReadOwn(p, c)
                \/ TakeDown(p, c) \/ DropLease(p, c) \/ ClearQueueFor(p, c)
                \/ MoveClaim(p, c) \/ MoveLease(p, c) \/ Mend(p, c) \/ DropOrphan(p, c)
    BY <1>9, <2>1
  <2>2. CASE \/ Command(p) \/ Doctor(p) \/ Lock(p) \/ Unlock(p) \/ Sweep(p) \/ Decide(p) \/ Pin(p)
    BY <2>2, <1>2, <1>3, <1>4, <1>5, <1>6, <1>7, <1>8
  <2>3. CASE \/ TakeSnapshot(p) \/ WriteDoor(p) \/ LookAgain(p) \/ Rendered(p) \/ Scan(p) \/ Report(p)
             \/ ClearTmp(p) \/ BreakMutex(p) \/ Refuse(p)
    BY <2>3, <1>10, <1>11, <1>12, <1>13, <1>14, <1>15, <1>16, <1>17, <1>21
  <2>4. CASE \E c \in Card : \E e \in Entry : JoinQueue(p, c, e)
    BY <2>4, <1>19
  <2> QED BY <1>26, <2>1, <2>2, <2>3, <2>4 DEF Tended
<1>27. ASSUME Untended(p) PROVE FilesOK'
  <2>1. CASE \E c \in Card : RunBeat(p, c)
    BY <2>1, <1>18
  <2>2. CASE \E c \in Card : \E e \in Entry : JoinQueue(p, c, e)
    BY <2>2, <1>19
  <2>3. CASE LeaveQueue(p) \/ ClaimFails(p) \/ DoorFails(p) \/ GivesUp(p) \/ LastScan(p)
    BY <2>3, <1>20, <1>22, <1>23, <1>24, <1>25
  <2> QED BY <1>27, <2>1, <2>2, <2>3 DEF Untended
<1> QED BY <1>26, <1>27

LEMMA BaseInit == Init => TypeOK /\ SectionInv
<1> SUFFICES ASSUME Init PROVE TypeOK /\ SectionInv
  OBVIOUS
<1>1. proc = [p \in Process |-> Idle] /\ Idle \in Memory
  BY MemoryFacts DEF Init
<1>2. \A p \in Process : proc[p] = Idle /\ proc[p].todo = <<>>
  BY <1>1, MemoryFacts
<1>3. SectionInv
  <2>1. Shape(<<>>) /\ Shut(<<>>) /\ A("scan") \notin ToSet(<<>>)
    BY ListShapes DEF Shut, ToSet
  <2> QED BY <1>2, <2>1 DEF SectionInv
<1>4. TypeOK
  <2>1. proc \in [Process -> Memory]
    BY <1>1
  <2>2. DOMAIN queue \subseteq Entry /\ queue \in [DOMAIN queue -> Card]
    BY DEF Init
  <2>3. claim \in [Card -> ClaimFile] /\ lease \in [Card -> LeaseFile]
    BY DEF Init, ClaimFile, Readable
  <2> QED BY <2>1, <2>2, <2>3 DEF Init, TypeOK
<1> QED BY <1>3, <1>4

LEMMA BaseStep ==
    ASSUME TypeOK, SectionInv, [Next]_vars
    PROVE  TypeOK' /\ SectionInv'
<1>1. TypeOK <=> FilesOK /\ proc \in [Process -> Memory] /\ behind \in BOOLEAN /\ alone \in Process \cup {None}
  BY DEF TypeOK, FilesOK
<1>2. TypeOK' <=> /\ FilesOK' /\ proc' \in [Process -> Memory]
                  /\ behind' \in BOOLEAN /\ alone' \in Process \cup {None}
  BY DEF TypeOK, FilesOK
<1>3. ASSUME NEW p \in Process, Tended(p) \/ Untended(p), NEW now \in BOOLEAN, Excuse(now), Alone(p)
      PROVE  TypeOK' /\ SectionInv'
  <2>1. behind' \in BOOLEAN
    BY <1>3 DEF Excuse
  <2>2. alone' \in Process \cup {None}
    BY <1>3 DEF Alone
  <2> QED BY <1>2, <1>3, <2>1, <2>2, SectionStep, FilesStep
<1>4. ASSUME NEW c \in Card, Expire(c), Excuse(TRUE), alone' = None
      PROVE  TypeOK' /\ SectionInv'
  <2>1. behind' \in BOOLEAN
    BY <1>4 DEF Excuse
  <2>2. FilesOK' /\ proc' = proc /\ mutex' = mutex
    BY <1>1, <1>4 DEF Expire, FilesOK, ClaimFile, LeaseFile, Readable
  <2>3. SectionInv'
    BY <2>2 DEF SectionInv
  <2> QED BY <1>1, <1>2, <1>4, <2>1, <2>2, <2>3
<1>5. CASE UNCHANGED vars
  <2>1. FilesOK' = FilesOK /\ proc' = proc /\ mutex' = mutex /\ behind' = behind /\ alone' = alone
    BY <1>5 DEF vars, FilesOK
  <2>2. SectionInv'
    BY <2>1 DEF SectionInv
  <2> QED BY <1>1, <1>2, <2>1, <2>2
<1>6. CASE AgeMutex /\ Excuse(FALSE)
  <2>1. behind' \in BOOLEAN
    BY <1>6 DEF Excuse
  <2>2. /\ mutex = "recent" /\ mutex' = "dead" /\ alone' \in {alone, None}
        /\ UNCHANGED <<claim, lease, queue, notes, door, junk, proc, kept, stray>>
    BY <1>6 DEF AgeMutex, files
  <2>3. FilesOK' /\ alone' \in Process \cup {None} /\ proc' = proc
    BY <1>1, <2>2 DEF FilesOK
  <2>4. \A q \in Process : mutex # q
    BY <2>2, ProcessAssumption
  <2>5. SectionInv'
    BY <2>2, <2>4 DEF SectionInv
  <2> QED BY <1>1, <1>2, <2>1, <2>3, <2>5
<1> QED BY <1>3, <1>4, <1>5, <1>6 DEF Next

\* The files, the waiting list and what every process has in memory stay within their
\* types, whatever damage was there before, for any number of processes, cards and entries.
THEOREM TypeCorrect == Spec => []TypeOK
<1>1. TypeOK /\ SectionInv /\ [Next]_vars => (TypeOK /\ SectionInv)'
  BY BaseStep
<1> QED BY <1>1, BaseInit, PTL DEF Spec

-----------------------------------------------------------------------------
(* Cards, leases and who counts on them. *)

\* What must be true of card c, whose file is file and which its owner counts on or not,
\* while steps are still to be taken.
Keeps(steps, c, file, counted) ==
    /\ <<"save", c>> \in steps => file = "unused"
    /\ <<"lease", c>> \in steps => file # "torn" /\ (file # "unused" \/ <<"save", c>> \in steps)
    /\ <<"mend", c>> \in steps => file # "torn"
    /\ <<"moveclaim", c>> \in steps => file \in {"torn", "down", "moved"}
    /\ <<"orphan", c>> \in steps => file \in {"unused", "down", "moved"} /\ file # "unused"
    /\ <<"reap", c>> \in steps => file # "unused" /\ ~counted
    /\ <<"down", c>> \in steps => file # "unused" /\ (~counted \/ <<"read", c>> \in steps)
    /\ <<"drop", c>> \in steps =>
          file # "unused" /\ (file \in {"down", "moved"} \/ <<"down", c>> \in steps)

\* A card that its owner counts on has a lease that did not run out.
Sound(file, paper, counted) ==
    /\ file = "unused" => paper = "none" /\ ~counted
    /\ counted => file # "torn" /\ (file \in Readable => paper = "fresh")

CardInv ==
    /\ \A c \in Card : Sound(claim[c], lease[c], c \in kept)
    /\ \A p \in Process, c \in Card : Keeps(ToSet(proc[p].todo), c, claim[c], c \in kept)

\* Steps of the owner of the mutex, wherever they are in what is left of its command.
LEMMA Held ==
    ASSUME TypeOK, SectionInv, NEW p \in Process, NEW x \in ToSet(proc[p].todo),
           x[1] \in {"save", "reap", "read", "down", "drop", "clear"}
    PROVE  mutex = p
<1> DEFINE s == proc[p].todo
<1>1. proc[p] \in Memory
  BY DEF TypeOK
<1>2. s \in Seq(Step)
  BY <1>1, MemoryFacts
<1>3. Shape(s)
  BY DEF SectionInv
<1>4. PICK i \in 1..Len(s) : s[i] = x
  BY <1>2, ToSetFacts
<1>5. ASSUME NEW j \in 1..Len(s), j < i PROVE s[j][1] # "lock"
  <2>1. Fits(s[j], s[i])
    BY <1>3, <1>5 DEF Shape, InOrder
  <2> QED BY <1>4, <2>1 DEF Fits
<1>6. Leads(s, Guarded, Closers, {"lock"}) /\ s[i][1] \in Guarded
  BY <1>3, <1>4 DEF Shape, Guarded
<1> QED BY <1>4, <1>5, <1>6, Owner

\* Nobody writes the lease of a card without the mutex, but doctor.
LEMMA LeaseHeld ==
    ASSUME TypeOK, SectionInv, NEW p \in Process, NEW c, Takes(p, "lease", c), ~(proc[p].rounds > 0)
    PROVE  mutex = p
<1> DEFINE s == proc[p].todo
<1>1. proc \in [Process -> Memory]
  BY DEF TypeOK
<1>2. s \in Seq(Step) /\ s # <<>> /\ Head(s) = <<"lease", c>>
  BY <1>1, RestFacts
<1>3. Shape(s) /\ A("scan") \notin ToSet(s)
  BY DEF SectionInv
<1> HIDE DEF s
<1>4. 1 \in 1..Len(s) /\ s[1][1] = "lease" /\ Len(s) \in Nat
  BY <1>2, TailFacts
<1>5. \A j \in 1..Len(s) : s[j][1] # "scan"
  <2>1. ASSUME NEW j \in 1..Len(s), s[j][1] = "scan" PROVE FALSE
    <3>1. 1 < j
      BY <1>4, <2>1
    <3>2. Fits(s[1], s[j])
      BY <1>3, <1>4, <3>1 DEF Shape, InOrder
    <3>3. s[j] = A("scan")
      BY <2>1, <3>2 DEF Fits
    <3> QED BY <1>2, <1>3, <3>3, ToSetFacts
  <2> QED BY <2>1
<1>6. Leads(s, {"lease", "mend"}, Closers, {"lock"})
  <2>1. ASSUME NEW i \in 1..Len(s), s[i][1] \in {"lease", "mend"} PROVE Comes(s, i, Closers, {"lock"})
    <3>1. PICK j \in i..Len(s) : s[j][1] \in Closers \cup {"scan"} /\ \A k \in i..j : k < j => s[k][1] \notin {"lock"}
      BY <1>3, <2>1 DEF Shape, Leads, Comes
    <3>2. j \in 1..Len(s)
      BY <1>4
    <3>3. s[j][1] \in Closers
      BY <1>5, <3>1, <3>2
    <3> QED BY <3>1, <3>3 DEF Comes
  <2> QED BY <2>1 DEF Leads
<1>7. \A j \in 1..Len(s) : ~(j < 1)
  OBVIOUS
<1> QED BY <1>4, <1>6, <1>7, Owner DEF s

LEMMA CardGoes ==
    ASSUME TypeOK, SectionInv, CardInv, NEW p \in Process, NEW todo, Section(p, todo), Others(p),
           \A c \in Card : Sound(claim'[c], lease'[c], c \in kept'),
           \A c \in Card : Keeps(ToSet(todo), c, claim'[c], c \in kept'),
           \A q \in Process, c \in Card : q # p => Keeps(ToSet(proc[q].todo), c, claim'[c], c \in kept')
    PROVE  CardInv'
<1>1. ASSUME NEW q \in Process, q # p PROVE proc'[q].todo = proc[q].todo
  <2>1. proc[q] \in Memory
    BY DEF TypeOK
  <2>2. proc'[q] \in {proc[q], [proc[q] EXCEPT !.staged = FALSE]}
    BY <1>1 DEF Others
  <2> QED BY <2>1, <2>2 DEF Memory
<1>2. ASSUME NEW q \in Process, NEW c \in Card PROVE Keeps(ToSet(proc'[q].todo), c, claim'[c], c \in kept')
  <2>1. CASE q = p
    BY <2>1 DEF Section
  <2>2. CASE q # p
    BY <1>1, <2>2
  <2> QED BY <2>1, <2>2
<1> QED BY <1>2 DEF CardInv

\* Steps that leave cards, leases and what owners count on alone.
LEMMA CardSame ==
    ASSUME TypeOK, SectionInv, CardInv, NEW p \in Process, NEW todo, Section(p, todo), Others(p),
           UNCHANGED <<claim, lease, kept>>,
           \A c \in Card : Keeps(ToSet(todo), c, claim[c], c \in kept)
    PROVE  CardInv'
<1>1. \A c \in Card : Sound(claim'[c], lease'[c], c \in kept')
  BY DEF CardInv
<1>2. \A c \in Card : Keeps(ToSet(todo), c, claim'[c], c \in kept')
  OBVIOUS
<1>3. \A q \in Process, c \in Card : q # p => Keeps(ToSet(proc[q].todo), c, claim'[c], c \in kept')
  BY DEF CardInv
<1> QED BY <1>1, <1>2, <1>3, CardGoes

\* A step less to take, and steps more that say nothing of a card.
LEMMA KeepsLess ==
    ASSUME NEW steps, NEW rest, NEW x, steps = rest \cup {x},
           NEW c, x \notin {<<"save", c>>, <<"read", c>>, <<"down", c>>},
           NEW file, NEW counted, Keeps(steps, c, file, counted)
    PROVE  Keeps(rest, c, file, counted)
BY DEF Keeps

LEMMA KeepsMore ==
    ASSUME NEW rest, NEW more, \A x \in more : x[1] \in {"snap", "door", "check", "unlock", "pin", "scan", "report"},
           NEW c, NEW file, NEW counted, Keeps(rest, c, file, counted)
    PROVE  Keeps(rest \cup more, c, file, counted)
<1>1. /\ <<"save", c>> \notin more /\ <<"lease", c>> \notin more /\ <<"moveclaim", c>> \notin more
      /\ <<"orphan", c>> \notin more /\ <<"reap", c>> \notin more /\ <<"down", c>> \notin more
      /\ <<"drop", c>> \notin more
  <2>1. \A v \in {"save", "lease", "moveclaim", "orphan", "reap", "down", "drop"} :
            <<v, c>>[1] \notin {"snap", "door", "check", "unlock", "pin", "scan", "report"}
    OBVIOUS
  <2>2. \A v \in {"save", "lease", "moveclaim", "orphan", "reap", "down", "drop"} : <<v, c>> \notin more
    BY <2>1
  <2> QED BY <2>2
<1> QED BY <1>1 DEF Keeps

LEMMA KeepsNothing ==
    ASSUME NEW more, \A x \in more : x[1] \in {"snap", "door", "check", "unlock", "pin", "scan", "report"},
           NEW c, NEW file, NEW counted
    PROVE  Keeps(more, c, file, counted)
<1>1. Keeps({}, c, file, counted)
  BY DEF Keeps
<1>2. {} \cup more = more
  OBVIOUS
<1>3. Keeps({} \cup more, c, file, counted)
  BY <1>1, KeepsMore
<1> QED BY <1>2, <1>3

LEMMA TakesSet ==
    ASSUME TypeOK, NEW p \in Process, NEW verb, NEW x, Takes(p, verb, x)
    PROVE  ToSet(proc[p].todo) = ToSet(Rest(p)) \cup {<<verb, x>>}
<1>1. proc \in [Process -> Memory]
  BY DEF TypeOK
<1> QED BY <1>1, RestFacts

\* The rest of a process, when the step taken says nothing of the order of those after it.
LEMMA RestKeeps ==
    ASSUME TypeOK, SectionInv, CardInv, NEW p \in Process, NEW verb, NEW x, Takes(p, verb, x),
           NEW c \in Card, <<verb, x>> \notin {<<"save", c>>, <<"read", c>>, <<"down", c>>}
    PROVE  Keeps(ToSet(Rest(p)), c, claim[c], c \in kept)
<1>2. ToSet(proc[p].todo) = ToSet(Rest(p)) \cup {<<verb, x>>}
  BY TakesSet
<1>3. Keeps(ToSet(proc[p].todo), c, claim[c], c \in kept)
  BY DEF CardInv
<1> QED BY <1>2, <1>3, KeepsLess

\* The others have no step of the mutex while p has it.
LEMMA Quiet ==
    ASSUME TypeOK, SectionInv, NEW p \in Process, mutex = p, NEW q \in Process, q # p, NEW c
    PROVE  /\ <<"save", c>> \notin ToSet(proc[q].todo) /\ <<"reap", c>> \notin ToSet(proc[q].todo)
           /\ <<"read", c>> \notin ToSet(proc[q].todo) /\ <<"down", c>> \notin ToSet(proc[q].todo)
           /\ <<"drop", c>> \notin ToSet(proc[q].todo) /\ <<"clear", c>> \notin ToSet(proc[q].todo)
<1>1. ASSUME NEW x \in ToSet(proc[q].todo), x[1] \in {"save", "reap", "read", "down", "drop", "clear"}
      PROVE  FALSE
  BY <1>1, Held
<1>2. \A v \in {"save", "reap", "read", "down", "drop", "clear"} :
          <<v, c>>[1] \in {"save", "reap", "read", "down", "drop", "clear"}
  OBVIOUS
<1>3. \A v \in {"save", "reap", "read", "down", "drop", "clear"} : <<v, c>> \notin ToSet(proc[q].todo)
  BY <1>1, <1>2
<1> QED BY <1>3

\* What a process that takes a step knows of the steps after it.
LEMMA RestFits ==
    ASSUME TypeOK, SectionInv, NEW p \in Process, NEW verb, NEW x, Takes(p, verb, x), NEW c
    PROVE  /\ <<"save", c>> \notin ToSet(Rest(p)) /\ <<"read", c>> \notin ToSet(Rest(p))
           /\ <<"down", c>> \in ToSet(Rest(p)) => <<verb, x>> = <<"read", c>>
           /\ <<"drop", c>> \in ToSet(Rest(p)) => <<verb, x>> \in {<<"read", c>>, <<"down", c>>}
           /\ <<"clear", c>> \in ToSet(Rest(p)) =>
                <<verb, x>> \in {<<"read", c>>, <<"down", c>>, <<"drop", c>>}
           /\ <<"reap", c>> \in ToSet(Rest(p)) => verb \in {"reap", "down", "drop", "clear", "pin"}
           /\ <<"lease", c>> \in ToSet(Rest(p)) => <<verb, x>> = <<"save", c>>
           /\ <<"moveclaim", c>> \in ToSet(Rest(p)) => verb = "moveclaim"
           /\ <<"sweep", c>> \in ToSet(Rest(p)) => verb \in {"lock", "moveclaim", "movelease"}
<1>1. \A y \in ToSet(Rest(p)) : Fits(<<verb, x>>, y)
  BY RestShape
<1>2. ASSUME NEW v \in {"save", "read", "down", "drop", "clear", "reap", "lease", "moveclaim", "sweep"},
             <<v, c>> \in ToSet(Rest(p))
      PROVE  Fits(<<verb, x>>, <<v, c>>)
  BY <1>1, <1>2
<1>3. /\ <<"save", c>> \notin ToSet(Rest(p)) /\ <<"read", c>> \notin ToSet(Rest(p))
      /\ <<"down", c>> \in ToSet(Rest(p)) => <<verb, x>> = <<"read", c>>
      /\ <<"drop", c>> \in ToSet(Rest(p)) => <<verb, x>> \in {<<"read", c>>, <<"down", c>>}
  BY <1>2 DEF Fits
<1>4. /\ <<"clear", c>> \in ToSet(Rest(p)) =>
           <<verb, x>> \in {<<"read", c>>, <<"down", c>>, <<"drop", c>>}
      /\ <<"reap", c>> \in ToSet(Rest(p)) => verb \in {"reap", "down", "drop", "clear", "pin"}
      /\ <<"lease", c>> \in ToSet(Rest(p)) => <<verb, x>> = <<"save", c>>
  BY <1>2 DEF Fits
<1>5. /\ <<"moveclaim", c>> \in ToSet(Rest(p)) => verb = "moveclaim"
      /\ <<"sweep", c>> \in ToSet(Rest(p)) => verb \in {"lock", "moveclaim", "movelease"}
  BY <1>2 DEF Fits
<1> QED BY <1>3, <1>4, <1>5

LEMMA CardSave ==
    ASSUME TypeOK, SectionInv, CardInv, NEW p \in Process, NEW c \in Card, SaveClaim(p, c)
    PROVE  CardInv'
<1>1. /\ Takes(p, "save", c) /\ Done(p) /\ mutex' = mutex /\ lease' = lease /\ kept' = kept
      /\ claim' = [claim EXCEPT ![c] = "fresh"] /\ proc \in [Process -> Memory]
      /\ claim \in [Card -> ClaimFile]
  BY DEF SaveClaim, TypeOK
<1>2. mutex = p
  BY <1>1, TakesGuarded DEF Guarded
<1>3. Others(p) /\ Section(p, Rest(p))
  BY <1>1, DoneSection
<1>4. claim'[c] = "fresh" /\ \A d \in Card : d # c => claim'[d] = claim[d]
  BY <1>1
<1>5. ToSet(proc[p].todo) = ToSet(Rest(p)) \cup {<<"save", c>>}
  BY <1>1, RestFacts
<1>6. Keeps(ToSet(proc[p].todo), c, claim[c], c \in kept) /\ claim[c] = "unused"
  BY <1>5 DEF CardInv, Keeps
<1>7. ASSUME NEW d \in Card PROVE Sound(claim'[d], lease'[d], d \in kept')
  <2>1. Sound(claim[d], lease[d], d \in kept)
    BY DEF CardInv
  <2> QED BY <1>1, <1>4, <1>6, <2>1 DEF Sound
<1>8. ASSUME NEW d \in Card PROVE Keeps(ToSet(Rest(p)), d, claim'[d], d \in kept')
  <2>1. CASE d = c
    <3>1. <<"save", c>> \notin ToSet(Rest(p))
      BY <1>1, RestFits
    <3> QED BY <1>4, <1>5, <1>6, <2>1, <3>1 DEF Keeps
  <2>2. CASE d # c
    <3>1. Keeps(ToSet(Rest(p)), d, claim[d], d \in kept)
      BY <1>1, <2>2, RestKeeps
    <3> QED BY <1>1, <1>4, <2>2, <3>1
  <2> QED BY <2>1, <2>2
<1>9. ASSUME NEW q \in Process, NEW d \in Card, q # p
      PROVE  Keeps(ToSet(proc[q].todo), d, claim'[d], d \in kept')
  <2>1. Keeps(ToSet(proc[q].todo), d, claim[d], d \in kept)
    BY DEF CardInv
  <2>2. CASE d = c
    <3>1. /\ <<"save", c>> \notin ToSet(proc[q].todo) /\ <<"reap", c>> \notin ToSet(proc[q].todo)
          /\ <<"down", c>> \notin ToSet(proc[q].todo) /\ <<"drop", c>> \notin ToSet(proc[q].todo)
      BY <1>2, <1>9, Quiet
    <3> QED BY <1>4, <1>6, <2>1, <2>2, <3>1 DEF Keeps
  <2>3. CASE d # c
    BY <1>1, <1>4, <2>1, <2>3
  <2> QED BY <2>2, <2>3
<1> QED BY <1>3, <1>7, <1>8, <1>9, CardGoes

\* A lease is written, for an owner that counts on its card or by doctor.
LEMMA CardLease ==
    ASSUME TypeOK, SectionInv, CardInv, NEW p \in Process, NEW c \in Card, NEW verb,
           verb \notin {"save", "read", "down", "reap", "drop", "clear", "pin", "lock"},
           Takes(p, verb, c), Done(p), claim' = claim, mutex' = mutex,
           lease' = [lease EXCEPT ![c] = "fresh"], claim[c] \notin {"unused", "torn"},
           kept' = kept \/ (mutex = p /\ kept' = kept \cup {c})
    PROVE  CardInv'
<1>1. lease \in [Card -> LeaseFile] /\ proc \in [Process -> Memory]
  BY DEF TypeOK
<1>2. lease'[c] = "fresh" /\ \A d \in Card : d # c => lease'[d] = lease[d] /\ (d \in kept' <=> d \in kept)
  BY <1>1
<1>3. Others(p) /\ Section(p, Rest(p))
  BY DoneSection
<1>4. ASSUME NEW d \in Card PROVE Sound(claim'[d], lease'[d], d \in kept')
  <2>1. Sound(claim[d], lease[d], d \in kept)
    BY DEF CardInv
  <2>2. CASE d = c
    BY <1>2, <2>2 DEF Sound
  <2>3. CASE d # c
    BY <1>2, <2>1, <2>3
  <2> QED BY <2>2, <2>3
<1>5. ASSUME NEW d \in Card PROVE Keeps(ToSet(Rest(p)), d, claim'[d], d \in kept')
  <2>1. Keeps(ToSet(Rest(p)), d, claim[d], d \in kept)
    BY RestKeeps
  <2>2. CASE d = c
    <3>1. <<"reap", c>> \notin ToSet(Rest(p)) /\ <<"down", c>> \notin ToSet(Rest(p))
      BY RestFits
    <3> QED BY <2>1, <2>2, <3>1 DEF Keeps
  <2>3. CASE d # c
    BY <1>2, <2>1, <2>3
  <2> QED BY <2>2, <2>3
<1>6. ASSUME NEW q \in Process, NEW d \in Card, q # p
      PROVE  Keeps(ToSet(proc[q].todo), d, claim'[d], d \in kept')
  <2>1. Keeps(ToSet(proc[q].todo), d, claim[d], d \in kept)
    BY DEF CardInv
  <2>2. CASE d = c /\ kept' # kept
    <3>1. <<"reap", c>> \notin ToSet(proc[q].todo) /\ <<"down", c>> \notin ToSet(proc[q].todo)
      BY <1>6, <2>2, Quiet
    <3> QED BY <2>1, <2>2, <3>1 DEF Keeps
  <2>3. CASE d # c \/ kept' = kept
    BY <1>2, <2>1, <2>3
  <2> QED BY <2>2, <2>3
<1> QED BY <1>3, <1>4, <1>5, <1>6, CardGoes

LEMMA CardRead ==
    ASSUME TypeOK, SectionInv, CardInv, NEW p \in Process, NEW c \in Card, ReadOwn(p, c)
    PROVE  CardInv'
<1>1. /\ Takes(p, "read", c) /\ Done(p) /\ mutex' = mutex /\ lease' = lease /\ claim' = claim
      /\ kept' = kept \ {c}
  BY DEF ReadOwn, files
<1>2. Others(p) /\ Section(p, Rest(p))
  BY <1>1, DoneSection
<1>3. ASSUME NEW d \in Card PROVE Sound(claim'[d], lease'[d], d \in kept')
  <2>1. Sound(claim[d], lease[d], d \in kept)
    BY DEF CardInv
  <2> QED BY <1>1, <2>1 DEF Sound
<1>4. ASSUME NEW q \in Process, NEW d \in Card PROVE Keeps(ToSet(proc[q].todo), d, claim'[d], d \in kept')
  <2>1. Keeps(ToSet(proc[q].todo), d, claim[d], d \in kept)
    BY DEF CardInv
  <2> QED BY <1>1, <2>1 DEF Keeps
<1>5. ASSUME NEW d \in Card PROVE Keeps(ToSet(Rest(p)), d, claim'[d], d \in kept')
  <2>1. Keeps(ToSet(proc[p].todo), d, claim'[d], d \in kept')
    BY <1>4
  <2>2. ToSet(proc[p].todo) = ToSet(Rest(p)) \cup {<<"read", c>>}
    BY <1>1, TakesSet
  <2>3. CASE d = c
    <3>1. d \notin kept'
      BY <1>1, <2>3
    <3> QED BY <2>1, <2>2, <3>1 DEF Keeps
  <2>4. CASE d # c
    <3>1. <<"read", c>> \notin {<<"save", d>>, <<"read", d>>, <<"down", d>>}
      BY <2>4
    <3> QED BY <2>1, <2>2, <3>1, KeepsLess
  <2> QED BY <2>3, <2>4
<1> QED BY <1>2, <1>3, <1>4, <1>5, CardGoes

LEMMA CardDown ==
    ASSUME TypeOK, SectionInv, CardInv, NEW p \in Process, NEW c \in Card, TakeDown(p, c)
    PROVE  CardInv' /\ c \notin kept
<1>1. /\ Takes(p, "down", c) /\ Done(p) /\ mutex' = mutex /\ lease' = lease /\ kept' = kept
      /\ claim' = [claim EXCEPT ![c] = IF There(c) THEN "down" ELSE @]
      /\ claim \in [Card -> ClaimFile]
  BY DEF TakeDown, TypeOK
<1>2. Others(p) /\ Section(p, Rest(p))
  BY <1>1, DoneSection
<1>3. /\ claim'[c] = IF There(c) THEN "down" ELSE claim[c]
      /\ \A d \in Card : d # c => claim'[d] = claim[d]
  BY <1>1
<1>4. ToSet(proc[p].todo) = ToSet(Rest(p)) \cup {<<"down", c>>}
  BY <1>1, TakesSet
<1>5. <<"read", c>> \notin ToSet(Rest(p)) /\ <<"save", c>> \notin ToSet(Rest(p))
      /\ <<"down", c>> \notin ToSet(Rest(p)) /\ <<"lease", c>> \notin ToSet(Rest(p))
  <2>1. <<"down", c>> # <<"read", c>> /\ <<"down", c>> # <<"save", c>>
    OBVIOUS
  <2> QED BY <1>1, <2>1, RestFits
<1>6. claim[c] # "unused" /\ c \notin kept
  <2>1. Keeps(ToSet(proc[p].todo), c, claim[c], c \in kept)
    BY DEF CardInv
  <2> QED BY <1>4, <1>5, <2>1 DEF Keeps
<1>7. claim'[c] \in {"down", "moved"}
  <2>1. claim[c] \in {"unused", "fresh", "old", "torn", "down", "moved"}
    BY <1>1 DEF ClaimFile, Readable
  <2> QED BY <1>3, <1>6, <2>1 DEF There, Readable
<1>8. ASSUME NEW d \in Card PROVE Sound(claim'[d], lease'[d], d \in kept')
  <2>1. Sound(claim[d], lease[d], d \in kept)
    BY DEF CardInv
  <2>2. CASE d = c
    BY <1>1, <1>6, <1>7, <2>2 DEF Sound
  <2>3. CASE d # c
    BY <1>1, <1>3, <2>1, <2>3
  <2> QED BY <2>2, <2>3
<1>9. ASSUME NEW q \in Process, NEW d \in Card PROVE Keeps(ToSet(proc[q].todo), d, claim'[d], d \in kept')
  <2>1. Keeps(ToSet(proc[q].todo), d, claim[d], d \in kept)
    BY DEF CardInv
  <2>2. CASE d = c
    BY <1>1, <1>6, <1>7, <2>1, <2>2 DEF Keeps
  <2>3. CASE d # c
    BY <1>1, <1>3, <2>1, <2>3
  <2> QED BY <2>2, <2>3
<1>10. ASSUME NEW d \in Card PROVE Keeps(ToSet(Rest(p)), d, claim'[d], d \in kept')
  <2>1. Keeps(ToSet(proc[p].todo), d, claim'[d], d \in kept')
    BY <1>9
  <2>2. CASE d = c
    BY <1>4, <1>5, <1>7, <2>1, <2>2 DEF Keeps
  <2>3. CASE d # c
    <3>1. <<"down", c>> \notin {<<"save", d>>, <<"read", d>>, <<"down", d>>}
      BY <2>3
    <3> QED BY <1>4, <2>1, <3>1, KeepsLess
  <2> QED BY <2>2, <2>3
<1> QED BY <1>2, <1>6, <1>8, <1>9, <1>10, CardGoes

\* The lease of a card that is not there, or not counted on any more, goes.
LEMMA CardNoLease ==
    ASSUME TypeOK, SectionInv, CardInv, NEW p \in Process, NEW c \in Card, NEW verb,
           verb \notin {"save", "read", "down", "lock"},
           Takes(p, verb, c), Done(p), claim' = claim, mutex' = mutex,
           lease' = [lease EXCEPT ![c] = "none"],
           \/ kept' = kept /\ claim[c] \notin Readable
           \/ kept' = kept \ {c}
    PROVE  CardInv'
<1>1. lease \in [Card -> LeaseFile]
  BY DEF TypeOK
<1>2. lease'[c] = "none" /\ \A d \in Card : d # c => lease'[d] = lease[d] /\ (d \in kept' <=> d \in kept)
  BY <1>1
<1>3. Others(p) /\ Section(p, Rest(p))
  BY DoneSection
<1>4. ASSUME NEW d \in Card PROVE Sound(claim'[d], lease'[d], d \in kept')
  <2>1. Sound(claim[d], lease[d], d \in kept)
    BY DEF CardInv
  <2>2. CASE d = c
    BY <1>2, <2>1, <2>2 DEF Sound
  <2>3. CASE d # c
    BY <1>2, <2>1, <2>3
  <2> QED BY <2>2, <2>3
<1>5. ASSUME NEW steps, NEW d \in Card, Keeps(steps, d, claim[d], d \in kept)
      PROVE  Keeps(steps, d, claim'[d], d \in kept')
  BY <1>5 DEF Keeps
<1>6. ASSUME NEW d \in Card PROVE Keeps(ToSet(Rest(p)), d, claim'[d], d \in kept')
  BY <1>5, RestKeeps
<1>7. ASSUME NEW q \in Process, NEW d \in Card, q # p
      PROVE  Keeps(ToSet(proc[q].todo), d, claim'[d], d \in kept')
  BY <1>5 DEF CardInv
<1> QED BY <1>3, <1>4, <1>6, <1>7, CardGoes

LEMMA CardMoved ==
    ASSUME TypeOK, SectionInv, CardInv, NEW p \in Process, NEW c \in Card, MoveClaim(p, c)
    PROVE  CardInv' /\ (There(c) => c \notin kept)
<1>1. /\ Takes(p, "moveclaim", c) /\ Done(p) /\ mutex' = mutex /\ lease' = lease /\ kept' = kept
      /\ claim' = [claim EXCEPT ![c] = IF There(c) THEN "moved" ELSE @]
      /\ claim \in [Card -> ClaimFile]
  BY DEF MoveClaim, TypeOK
<1>2. Others(p) /\ Section(p, Rest(p))
  BY <1>1, DoneSection
<1>3. /\ claim'[c] = IF There(c) THEN "moved" ELSE claim[c]
      /\ \A d \in Card : d # c => claim'[d] = claim[d]
  BY <1>1
<1>4. ToSet(proc[p].todo) = ToSet(Rest(p)) \cup {<<"moveclaim", c>>}
  BY <1>1, TakesSet
<1>5. claim[c] \in {"torn", "down", "moved"}
  <2>1. Keeps(ToSet(proc[p].todo), c, claim[c], c \in kept)
    BY DEF CardInv
  <2> QED BY <1>4, <2>1 DEF Keeps
<1>6. \/ claim[c] = "torn" /\ claim'[c] = "moved"
      \/ claim[c] \in {"down", "moved"} /\ claim'[c] = claim[c]
  BY <1>3, <1>5 DEF There, Readable
<1>7. There(c) => c \notin kept
  <2>1. Sound(claim[c], lease[c], c \in kept)
    BY DEF CardInv
  <2> QED BY <1>5, <2>1 DEF Sound, There, Readable
<1>8. ASSUME NEW d \in Card PROVE Sound(claim'[d], lease'[d], d \in kept')
  <2>1. Sound(claim[d], lease[d], d \in kept)
    BY DEF CardInv
  <2>2. CASE d = c
    BY <1>1, <1>6, <2>1, <2>2 DEF Sound, Readable
  <2>3. CASE d # c
    BY <1>1, <1>3, <2>1, <2>3
  <2> QED BY <2>2, <2>3
<1>9. ASSUME NEW steps, NEW d \in Card, Keeps(steps, d, claim[d], d \in kept)
      PROVE  Keeps(steps, d, claim'[d], d \in kept')
  <2>1. CASE d = c
    BY <1>1, <1>6, <1>9, <2>1 DEF Keeps
  <2>2. CASE d # c
    BY <1>1, <1>3, <1>9, <2>2
  <2> QED BY <2>1, <2>2
<1>10. ASSUME NEW d \in Card PROVE Keeps(ToSet(Rest(p)), d, claim'[d], d \in kept')
  <2>1. Keeps(ToSet(Rest(p)), d, claim[d], d \in kept)
    BY <1>1, RestKeeps
  <2> QED BY <1>9, <2>1
<1>11. ASSUME NEW q \in Process, NEW d \in Card, q # p
      PROVE  Keeps(ToSet(proc[q].todo), d, claim'[d], d \in kept')
  BY <1>9 DEF CardInv
<1> QED BY <1>2, <1>7, <1>8, <1>10, <1>11, CardGoes

LEMMA CardMend ==
    ASSUME TypeOK, SectionInv, CardInv, NEW p \in Process, NEW c \in Card, Mend(p, c)
    PROVE  CardInv'
<1>1. Takes(p, "mend", c) /\ UNCHANGED <<claim, lease, kept>> /\ claim[c] # "torn"
  BY DEF Mend, files
<1>2. Others(p)
  BY MendSection
<1>3. PICK todo : /\ Section(p, todo)
                  /\ ToSet(todo) = ToSet(Rest(p)) \cup (IF Up(c) THEN {<<"lease", c>>} ELSE {})
  BY MendSection
<1>4. ASSUME NEW d \in Card PROVE Keeps(ToSet(todo), d, claim[d], d \in kept)
  <2>1. Keeps(ToSet(Rest(p)), d, claim[d], d \in kept)
    BY <1>1, RestKeeps
  <2>2. <<"lease", d>> \in ToSet(todo) \ ToSet(Rest(p)) => claim[d] # "torn" /\ claim[d] # "unused"
    BY <1>1, <1>3 DEF Up, Readable
  <2>3. \A v \in {"save", "mend", "moveclaim", "orphan", "reap", "down", "drop", "read"} :
            <<v, d>> \in ToSet(todo) <=> <<v, d>> \in ToSet(Rest(p))
    BY <1>3
  <2>4. <<"lease", d>> \in ToSet(todo) =>
            claim[d] # "torn" /\ (claim[d] # "unused" \/ <<"save", d>> \in ToSet(todo))
    BY <2>1, <2>2, <2>3 DEF Keeps
  <2> QED BY <2>1, <2>3, <2>4 DEF Keeps
<1> QED BY <1>1, <1>2, <1>3, <1>4, CardSame

LEMMA CardSweep ==
    ASSUME TypeOK, SectionInv, CardInv, NEW p \in Process, Sweep(p)
    PROVE  CardInv'
<1>1. Takes(p, "sweep", None) /\ UNCHANGED <<claim, lease, kept>>
  BY DEF Sweep, files
<1>2. Others(p)
  BY SweepSection
<1>3. ASSUME NEW todo \in {<<>>, << A("unlock") >>}, Section(p, todo) PROVE CardInv'
  <2>1. \A x \in ToSet(todo) : x[1] \in {"snap", "door", "check", "unlock", "pin", "scan", "report"}
    <3>1. ToSet(<<>>) = {} /\ ToSet(<< A("unlock") >>) = {A("unlock")}
      BY DEF ToSet
    <3> QED BY <1>3, <3>1 DEF A
  <2>2. \A c \in Card : Keeps(ToSet(todo), c, claim[c], c \in kept)
    BY <2>1, KeepsNothing
  <2> QED BY <1>1, <1>2, <1>3, <2>2, CardSame
<1>4. ASSUME NEW todo, Section(p, todo),
             ToSet(todo) = ({"reap"} \X {c \in Card : Stale(c)}) \cup ToSet(Rest(p))
      PROVE  CardInv'
  <2>1. ASSUME NEW c \in Card PROVE Keeps(ToSet(todo), c, claim[c], c \in kept)
    <3>1. Keeps(ToSet(Rest(p)), c, claim[c], c \in kept) /\ Sound(claim[c], lease[c], c \in kept)
      BY <1>1, RestKeeps DEF CardInv
    <3>2. <<"reap", c>> \in ToSet(todo) \ ToSet(Rest(p)) => claim[c] # "unused" /\ c \notin kept
      <4>1. ASSUME Stale(c) PROVE claim[c] # "unused" /\ c \notin kept
        BY <3>1, <4>1 DEF Stale, Up, Readable, Sound
      <4> QED BY <1>4, <4>1
    <3>3. \A v \in {"save", "lease", "mend", "moveclaim", "orphan", "down", "drop", "read"} :
              <<v, c>> \in ToSet(todo) <=> <<v, c>> \in ToSet(Rest(p))
      BY <1>4
    <3>4. <<"reap", c>> \in ToSet(todo) => claim[c] # "unused" /\ c \notin kept
      BY <3>1, <3>2 DEF Keeps
    <3> QED BY <3>1, <3>3, <3>4 DEF Keeps
  <2> QED BY <1>1, <1>2, <1>4, <2>1, CardSame
<1> QED BY <1>3, <1>4, SweepSection

LEMMA CardReap ==
    ASSUME TypeOK, SectionInv, CardInv, NEW p \in Process, NEW c \in Card, Reap(p, c)
    PROVE  CardInv'
<1> DEFINE todo == Archive(c) \o Rest(p)
<1>1. Takes(p, "reap", c) /\ UNCHANGED <<claim, lease, kept>>
  BY DEF Reap, files
<1>2. Others(p) /\ Section(p, todo)
      /\ ToSet(todo) = {<<"down", c>>, <<"drop", c>>, <<"clear", c>>, A("pin")} \cup ToSet(Rest(p))
  BY ReapSection
<1> HIDE DEF todo
<1>3. claim[c] # "unused" /\ c \notin kept
  <2>1. ToSet(proc[p].todo) = ToSet(Rest(p)) \cup {<<"reap", c>>}
    BY <1>1, TakesSet
  <2> QED BY <2>1 DEF CardInv, Keeps
<1>4. ASSUME NEW d \in Card PROVE Keeps(ToSet(todo), d, claim[d], d \in kept)
  <2>1. Keeps(ToSet(Rest(p)), d, claim[d], d \in kept)
    BY <1>1, RestKeeps
  <2>2. \A v \in {"save", "lease", "mend", "moveclaim", "orphan", "reap", "read"} :
            <<v, d>> \in ToSet(todo) <=> <<v, d>> \in ToSet(Rest(p))
    BY <1>2 DEF A
  <2>3. CASE d = c
    <3>1. <<"down", d>> \in ToSet(todo)
      BY <1>2, <2>3
    <3> QED BY <1>3, <2>1, <2>2, <2>3, <3>1 DEF Keeps
  <2>4. CASE d # c
    <3>1. \A v \in {"down", "drop"} : <<v, d>> \in ToSet(todo) <=> <<v, d>> \in ToSet(Rest(p))
      BY <1>2, <2>4 DEF A
    <3> QED BY <2>1, <2>2, <3>1 DEF Keeps
  <2> QED BY <2>3, <2>4
<1> QED BY <1>1, <1>2, <1>4, CardSame

LEMMA CardScan ==
    ASSUME TypeOK, SectionInv, CardInv, NEW p \in Process, Scan(p)
    PROVE  CardInv'
<1>1. UNCHANGED <<claim, lease, kept>>
  BY DEF Scan, files
<1>2. Others(p) /\ Section(p, ToRepair)
  BY ScanSection
<1>3. junk \in BOOLEAN /\ claim \in [Card -> ClaimFile]
  BY DEF TypeOK
<1>4. ToSet(ToRepair) =
         ({"moveclaim"} \X Torn) \cup ({"movelease"} \X TornLeases)
         \cup (IF \E c \in Card : Stale(c) THEN {A("lock"), A("sweep"), A("unlock")} ELSE {})
         \cup ({"mend"} \X Unleased) \cup ({"orphan"} \X Orphans)
         \cup (IF junk THEN {A("tmp")} ELSE {}) \cup (IF mutex \in {"recent", "dead"} THEN {A("break")} ELSE {})
         \cup (IF door # Snapshot THEN {A("snap"), A("door"), A("scan")} ELSE {A("scan")})
  BY <1>3, RepairsFacts
<1>5. ASSUME NEW c \in Card PROVE Keeps(ToSet(ToRepair), c, claim[c], c \in kept)
  <2>1. \A v \in {"save", "lease", "reap", "down", "drop"} : <<v, c>> \notin ToSet(ToRepair)
    BY <1>4 DEF A
  <2>2. <<"moveclaim", c>> \in ToSet(ToRepair) => claim[c] = "torn"
    BY <1>4 DEF A, Torn
  <2>3. <<"orphan", c>> \in ToSet(ToRepair) => lease[c] \in Readable /\ ~There(c)
    BY <1>4 DEF A, Orphans
  <2>4. lease[c] \in Readable /\ ~There(c) => claim[c] \in {"down", "moved"}
    <3>1. Sound(claim[c], lease[c], c \in kept) /\ claim[c] \in ClaimFile
      BY <1>3 DEF CardInv
    <3> QED BY <3>1 DEF Sound, Readable, There, ClaimFile
  <2>5. <<"mend", c>> \in ToSet(ToRepair) => claim[c] # "torn"
    BY <1>4 DEF A, Unleased, Up, Readable
  <2> QED BY <2>1, <2>2, <2>3, <2>4, <2>5 DEF Keeps
<1> QED BY <1>1, <1>2, <1>5, CardSame

LEMMA CardDecide ==
    ASSUME TypeOK, SectionInv, CardInv, NEW p \in Process, Decide(p)
    PROVE  CardInv'
<1>1. UNCHANGED <<claim, lease, kept>>
  BY DEF Decide, files
<1>2. Others(p)
  BY DecideSection
<1>3. PICK todo : Section(p, todo) /\ Decided(todo)
  BY DecideSection
<1>4. ASSUME NEW c \in Card PROVE Keeps(ToSet(todo), c, claim[c], c \in kept)
  <2>1. ASSUME NEW v \in {"mend", "moveclaim", "orphan", "reap", "down", "drop"}, <<v, c>> \in ToSet(todo) PROVE FALSE
    <3>1. <<v, c>>[1] = v
      OBVIOUS
    <3> QED BY <1>3, <2>1, <3>1 DEF Decided
  <2>2. /\ <<"save", c>> \in ToSet(todo) => claim[c] = "unused"
        /\ <<"lease", c>> \in ToSet(todo) => <<"save", c>> \in ToSet(todo)
    BY <1>3 DEF Decided
  <2> QED BY <2>1, <2>2 DEF Keeps
<1> QED BY <1>1, <1>2, <1>3, <1>4, CardSame

LEMMA CardCommand ==
    ASSUME TypeOK, SectionInv, CardInv, NEW p \in Process, Command(p)
    PROVE  CardInv'
<1>1. UNCHANGED <<claim, lease, kept>> /\ Others(p)
  BY CommandSection DEF files
<1>2. PICK todo : Section(p, todo) /\ Fresh(todo) /\ ReadsFirst(todo)
  BY CommandSection
<1>3. ASSUME NEW c \in Card PROVE Keeps(ToSet(todo), c, claim[c], c \in kept)
  <2>1. ASSUME NEW v \in {"save", "lease", "mend", "moveclaim", "orphan", "reap"}, <<v, c>> \in ToSet(todo) PROVE FALSE
    <3>1. <<v, c>>[1] = v
      OBVIOUS
    <3> QED BY <1>2, <2>1, <3>1 DEF Fresh
  <2>2. <<"down", c>> \in ToSet(todo) \/ <<"drop", c>> \in ToSet(todo) =>
            claim[c] # "unused" /\ <<"read", c>> \in ToSet(todo) /\ <<"down", c>> \in ToSet(todo)
    BY <1>2 DEF ReadsFirst
  <2> QED BY <2>1, <2>2 DEF Keeps
<1> QED BY <1>1, <1>2, <1>3, CardSame

LEMMA CardExpire ==
    ASSUME TypeOK, SectionInv, CardInv, NEW c \in Card, Expire(c)
    PROVE  CardInv'
<1>1. proc' = proc /\ claim \in [Card -> ClaimFile] /\ lease \in [Card -> LeaseFile]
  BY DEF Expire, TypeOK
<1>2. \/ claim[c] = "fresh" /\ claim' = [claim EXCEPT ![c] = "old"] /\ lease' = lease /\ kept' = kept
      \/ /\ lease[c] = "fresh" /\ lease' = [lease EXCEPT ![c] = "old"] /\ kept' = kept \ {c}
         /\ claim' = claim
  BY DEF Expire
<1>3. ASSUME NEW d \in Card PROVE Sound(claim'[d], lease'[d], d \in kept')
  <2>1. Sound(claim[d], lease[d], d \in kept)
    BY DEF CardInv
  <2>2. CASE claim[c] = "fresh" /\ claim' = [claim EXCEPT ![c] = "old"] /\ lease' = lease /\ kept' = kept
    BY <1>1, <2>1, <2>2 DEF Sound, Readable
  <2>3. CASE lease[c] = "fresh" /\ lease' = [lease EXCEPT ![c] = "old"] /\ kept' = kept \ {c} /\ claim' = claim
    BY <1>1, <2>1, <2>3 DEF Sound, Readable
  <2> QED BY <1>2, <2>2, <2>3
<1>4. ASSUME NEW steps, NEW d \in Card, Keeps(steps, d, claim[d], d \in kept)
      PROVE  Keeps(steps, d, claim'[d], d \in kept')
  <2>1. CASE claim[c] = "fresh" /\ claim' = [claim EXCEPT ![c] = "old"] /\ lease' = lease /\ kept' = kept
    BY <1>1, <1>4, <2>1 DEF Keeps
  <2>2. CASE lease[c] = "fresh" /\ lease' = [lease EXCEPT ![c] = "old"] /\ kept' = kept \ {c} /\ claim' = claim
    BY <1>1, <1>4, <2>2 DEF Keeps
  <2> QED BY <1>2, <2>1, <2>2
<1> QED BY <1>1, <1>3, <1>4 DEF CardInv

\* The next step is only one less, and says nothing of a card.
LEMMA CardRest ==
    ASSUME TypeOK, SectionInv, CardInv, NEW p \in Process, NEW verb, NEW x, Takes(p, verb, x),
           verb \notin {"save", "read", "down"}, Section(p, Rest(p)), Others(p),
           UNCHANGED <<claim, lease, kept>>
    PROVE  CardInv'
<1>1. \A c \in Card : Keeps(ToSet(Rest(p)), c, claim[c], c \in kept)
  <2>1. ASSUME NEW c \in Card PROVE Keeps(ToSet(Rest(p)), c, claim[c], c \in kept)
    <3>1. <<verb, x>> \notin {<<"save", c>>, <<"read", c>>, <<"down", c>>}
      OBVIOUS
    <3> QED BY <3>1, RestKeeps
  <2> QED BY <2>1
<1> QED BY <1>1, CardSame

LEMMA CardDone ==
    ASSUME TypeOK, SectionInv, CardInv, NEW p \in Process, NEW verb, NEW x, Takes(p, verb, x), Done(p),
           verb \notin {"save", "read", "down", "lock"}, mutex' = mutex, UNCHANGED <<claim, lease, kept>>
    PROVE  CardInv'
<1>1. Others(p) /\ Section(p, Rest(p))
  BY DoneSection
<1> QED BY <1>1, CardRest

LEMMA CardNothing ==
    ASSUME TypeOK, SectionInv, CardInv, NEW p \in Process, NEW todo, Section(p, todo), Others(p),
           todo \in {<<>>, << A("unlock") >>, << A("scan") >>, << A("report") >>},
           UNCHANGED <<claim, lease, kept>>
    PROVE  CardInv'
<1>1. \A x \in ToSet(todo) : x[1] \in {"snap", "door", "check", "unlock", "pin", "scan", "report"}
  <2>1. /\ ToSet(<<>>) = {} /\ ToSet(<< A("unlock") >>) = {A("unlock")}
        /\ ToSet(<< A("scan") >>) = {A("scan")} /\ ToSet(<< A("report") >>) = {A("report")}
    BY DEF ToSet
  <2> QED BY <2>1 DEF A
<1>2. \A c \in Card : Keeps(ToSet(todo), c, claim[c], c \in kept)
  BY <1>1, KeepsNothing
<1> QED BY <1>2, CardSame

LEMMA CardDoorFails ==
    ASSUME TypeOK, SectionInv, CardInv, NEW p \in Process, DoorFails(p)
    PROVE  CardInv'
<1>1. Takes(p, "door", None) /\ UNCHANGED <<claim, lease, kept>>
  BY DEF DoorFails, files
<1>2. Others(p)
  BY DoorFailsSection
<1>3. PICK todo : /\ Section(p, todo)
                  /\ \/ todo \in {<<>>, << A("unlock") >>}
                     \/ Len(Rest(p)) # 0 /\ Rest(p)[1][1] = "check" /\ todo = Tail(Rest(p))
  BY DoorFailsSection
<1>4. CASE todo \in {<<>>, << A("unlock") >>}
  BY <1>1, <1>2, <1>3, <1>4, CardNothing
<1>5. CASE Len(Rest(p)) # 0 /\ Rest(p)[1][1] = "check" /\ todo = Tail(Rest(p))
  <2> DEFINE r == Rest(p)
  <2>1. r \in Seq(Step)
    BY <1>1, RestShape
  <2>2. ASSUME NEW c \in Card PROVE Keeps(ToSet(todo), c, claim[c], c \in kept)
    <3>1. Keeps(ToSet(r), c, claim[c], c \in kept)
      <4>1. <<"door", None>> \notin {<<"save", c>>, <<"read", c>>, <<"down", c>>}
        OBVIOUS
      <4> QED BY <1>1, <4>1, RestKeeps
    <3>2. r # <<>> /\ r[1][1] = "check"
      BY <1>5
    <3> HIDE DEF r
    <3>3. ToSet(r) = ToSet(Tail(r)) \cup {Head(r)} /\ Head(r) = r[1]
      BY <2>1, <3>2, ToSetTail, TailFacts
    <3>4. Head(r) \notin {<<"save", c>>, <<"read", c>>, <<"down", c>>}
      BY <3>2, <3>3
    <3>5. Keeps(ToSet(Tail(r)), c, claim[c], c \in kept)
      BY <3>1, <3>3, <3>4, KeepsLess
    <3> QED BY <1>5, <3>5 DEF r
  <2> QED BY <1>1, <1>2, <1>3, <2>2, CardSame
<1> QED BY <1>3, <1>4, <1>5

LEMMA CardAgain ==
    ASSUME TypeOK, SectionInv, CardInv, NEW p \in Process, LookAgain(p)
    PROVE  CardInv'
<1> DEFINE todo == Render \o Rest(p)
<1>1. Takes(p, "check", None) /\ UNCHANGED <<claim, lease, kept>>
  BY DEF LookAgain, files
<1>2. Others(p) /\ Section(p, todo) /\ ToSet(todo) = {A("snap"), A("door"), A("check")} \cup ToSet(Rest(p))
  BY LookAgainSection
<1> HIDE DEF todo
<1>3. ASSUME NEW c \in Card PROVE Keeps(ToSet(todo), c, claim[c], c \in kept)
  <2>1. Keeps(ToSet(Rest(p)), c, claim[c], c \in kept)
    <3>1. <<"check", None>> \notin {<<"save", c>>, <<"read", c>>, <<"down", c>>}
      OBVIOUS
    <3> QED BY <1>1, <3>1, RestKeeps
  <2>2. \A x \in {A("snap"), A("door"), A("check")} :
            x[1] \in {"snap", "door", "check", "unlock", "pin", "scan", "report"}
    BY DEF A
  <2>3. ToSet(todo) = ToSet(Rest(p)) \cup {A("snap"), A("door"), A("check")}
    BY <1>2
  <2>4. Keeps(ToSet(Rest(p)) \cup {A("snap"), A("door"), A("check")}, c, claim[c], c \in kept)
    BY <2>1, <2>2, KeepsMore
  <2> QED BY <2>3, <2>4
<1> QED BY <1>1, <1>2, <1>3, CardSame

\* No step takes a card from an owner that counts on it.
Stays == \A c \in kept : There(c) => There(c)'

LEMMA CardStep ==
    ASSUME TypeOK, SectionInv, CardInv, NEW p \in Process, Tended(p) \/ Untended(p)
    PROVE  CardInv' /\ Stays
<1>0. kept \subseteq Card /\ claim \in [Card -> ClaimFile]
  BY DEF TypeOK
<1>1. ASSUME claim' = claim, CardInv' PROVE CardInv' /\ Stays
  BY <1>1 DEF Stays, There
<1>2. CASE Command(p)
  <2>1. claim' = claim
    BY <1>2, CommandSection DEF files
  <2> QED BY <1>1, <1>2, <2>1, CardCommand
<1>3. CASE Doctor(p)
  <2>1. UNCHANGED <<claim, lease, kept>> /\ Others(p) /\ Section(p, << A("scan") >>)
    BY <1>3, DoctorSection DEF files
  <2> QED BY <1>1, <2>1, CardNothing
<1>4. CASE Lock(p)
  <2>1. Takes(p, "lock", None) /\ UNCHANGED <<claim, lease, kept>>
    BY <1>4 DEF Lock, files
  <2>2. Others(p) /\ Section(p, Rest(p))
    BY <1>4, LockSection
  <2> QED BY <1>1, <2>1, <2>2, CardRest
<1>5. CASE Unlock(p)
  <2>1. Takes(p, "unlock", None) /\ UNCHANGED <<claim, lease, kept>>
    BY <1>5 DEF Unlock, files
  <2>2. Others(p) /\ Section(p, Rest(p))
    BY <1>5, UnlockSection
  <2> QED BY <1>1, <2>1, <2>2, CardRest
<1>6. CASE Sweep(p)
  <2>1. claim' = claim
    BY <1>6 DEF Sweep, files
  <2> QED BY <1>1, <1>6, <2>1, CardSweep
<1>7. CASE Decide(p)
  <2>1. claim' = claim
    BY <1>7 DEF Decide, files
  <2> QED BY <1>1, <1>7, <2>1, CardDecide
<1>8. CASE Pin(p)
  <2>1. Takes(p, "pin", None) /\ Done(p) /\ mutex' = mutex /\ UNCHANGED <<claim, lease, kept>>
    BY <1>8 DEF Pin
  <2> QED BY <1>1, <2>1, CardDone
<1>9. ASSUME NEW c \in Card,
             \/ Reap(p, c) \/ SaveClaim(p, c) \/ LeaseCard(p, c) \/ Renew(p, c) \/ ReadOwn(p, c)
             \/ TakeDown(p, c) \/ DropLease(p, c) \/ ClearQueueFor(p, c)
             \/ MoveClaim(p, c) \/ MoveLease(p, c) \/ Mend(p, c) \/ DropOrphan(p, c)
      PROVE  CardInv' /\ Stays
  <2>1. CASE Reap(p, c)
    <3>1. claim' = claim
      BY <2>1 DEF Reap, files
    <3> QED BY <1>1, <2>1, <3>1, CardReap
  <2>2. CASE SaveClaim(p, c)
    <3>1. claim' = [claim EXCEPT ![c] = "fresh"]
      BY <2>2 DEF SaveClaim
    <3>2. Stays
      BY <1>0, <3>1 DEF Stays, There, Readable
    <3> QED BY <2>2, <3>2, CardSave
  <2>3. CASE LeaseCard(p, c)
    <3>1. /\ Takes(p, "lease", c) /\ Done(p) /\ claim' = claim /\ mutex' = mutex
          /\ lease' = [lease EXCEPT ![c] = "fresh"]
          /\ kept' = IF proc[p].rounds > 0 THEN kept ELSE kept \cup {c}
      BY <2>3 DEF LeaseCard, WriteLease
    <3>2. claim[c] \notin {"unused", "torn"}
      <4>1. ToSet(proc[p].todo) = ToSet(Rest(p)) \cup {<<"lease", c>>}
        BY <3>1, TakesSet
      <4>2. <<"save", c>> \notin ToSet(Rest(p))
        BY <3>1, RestFits
      <4> QED BY <4>1, <4>2 DEF CardInv, Keeps
    <3>3. kept' = kept \/ (mutex = p /\ kept' = kept \cup {c})
      BY <3>1, LeaseHeld
    <3> QED BY <1>1, <3>1, <3>2, <3>3, CardLease
  <2>4. CASE Renew(p, c)
    <3>1. /\ Takes(p, "renew", c) /\ Done(p) /\ claim' = claim /\ mutex' = mutex
          /\ lease' = [lease EXCEPT ![c] = "fresh"] /\ kept' = kept \cup {c}
          /\ claim[c] \notin {"unused", "torn"}
      BY <2>4 DEF Renew, WriteLease, Up, Readable
    <3>2. mutex = p
      BY <3>1, TakesGuarded DEF Guarded
    <3> QED BY <1>1, <3>1, <3>2, CardLease
  <2>5. CASE ReadOwn(p, c)
    <3>1. claim' = claim
      BY <2>5 DEF ReadOwn, files
    <3> QED BY <1>1, <2>5, <3>1, CardRead
  <2>6. CASE TakeDown(p, c)
    <3>1. claim' = [claim EXCEPT ![c] = IF There(c) THEN "down" ELSE @]
      BY <2>6 DEF TakeDown
    <3>2. CardInv' /\ c \notin kept
      BY <2>6, CardDown
    <3>3. \A d \in Card : d # c => claim'[d] = claim[d]
      BY <1>0, <3>1
    <3>4. Stays
      BY <1>0, <3>2, <3>3 DEF Stays, There
    <3> QED BY <3>2, <3>4
  <2>7. CASE DropLease(p, c)
    <3>1. /\ Takes(p, "drop", c) /\ Done(p) /\ claim' = claim /\ mutex' = mutex /\ kept' = kept
          /\ lease' = [lease EXCEPT ![c] = "none"]
      BY <2>7 DEF DropLease
    <3>2. claim[c] \notin Readable
      <4>1. ToSet(proc[p].todo) = ToSet(Rest(p)) \cup {<<"drop", c>>}
        BY <3>1, TakesSet
      <4>2. <<"drop", c>> # <<"read", c>> /\ <<"drop", c>> # <<"down", c>>
        OBVIOUS
      <4>3. <<"down", c>> \notin ToSet(Rest(p))
        BY <3>1, <4>2, RestFits
      <4> QED BY <4>1, <4>2, <4>3 DEF CardInv, Keeps, Readable
    <3> QED BY <1>1, <3>1, <3>2, CardNoLease
  <2>8. CASE ClearQueueFor(p, c)
    <3>1. Takes(p, "clear", c) /\ Done(p) /\ mutex' = mutex /\ UNCHANGED <<claim, lease, kept>>
      BY <2>8 DEF ClearQueueFor
    <3> QED BY <1>1, <3>1, CardDone
  <2>9. CASE MoveClaim(p, c)
    <3>1. claim' = [claim EXCEPT ![c] = IF There(c) THEN "moved" ELSE @]
      BY <2>9 DEF MoveClaim
    <3>2. CardInv' /\ (There(c) => c \notin kept)
      BY <2>9, CardMoved
    <3>3. \A d \in Card : d # c => claim'[d] = claim[d]
      BY <1>0, <3>1
    <3>4. Stays
      BY <1>0, <3>2, <3>3 DEF Stays, There
    <3> QED BY <3>2, <3>4
  <2>10. CASE MoveLease(p, c)
    <3>1. /\ Takes(p, "movelease", c) /\ Done(p) /\ claim' = claim /\ mutex' = mutex /\ kept' = kept \ {c}
          /\ lease' = [lease EXCEPT ![c] = "none"]
      BY <2>10 DEF MoveLease
    <3> QED BY <1>1, <3>1, CardNoLease
  <2>11. CASE Mend(p, c)
    <3>1. claim' = claim
      BY <2>11 DEF Mend, files
    <3> QED BY <1>1, <2>11, <3>1, CardMend
  <2>12. CASE DropOrphan(p, c)
    <3>1. /\ Takes(p, "orphan", c) /\ Done(p) /\ claim' = claim /\ mutex' = mutex /\ kept' = kept
          /\ lease' = [lease EXCEPT ![c] = "none"]
      BY <2>12 DEF DropOrphan
    <3>2. claim[c] \notin Readable
      <4>1. ToSet(proc[p].todo) = ToSet(Rest(p)) \cup {<<"orphan", c>>}
        BY <3>1, TakesSet
      <4> QED BY <4>1 DEF CardInv, Keeps, Readable
    <3> QED BY <1>1, <3>1, <3>2, CardNoLease
  <2> QED BY <1>9, <2>1, <2>2, <2>3, <2>4, <2>5, <2>6, <2>7, <2>8, <2>9, <2>10, <2>11, <2>12
<1>10. CASE TakeSnapshot(p)
  <2>1. Takes(p, "snap", None) /\ UNCHANGED <<claim, lease, kept>>
    BY <1>10 DEF TakeSnapshot, files
  <2>2. Others(p) /\ Section(p, Rest(p))
    BY <1>10, SnapshotType, TakeSnapshotSection
  <2> QED BY <1>1, <2>1, <2>2, CardRest
<1>11. CASE WriteDoor(p)
  <2>1. Takes(p, "door", None) /\ Done(p) /\ mutex' = mutex /\ UNCHANGED <<claim, lease, kept>>
    BY <1>11 DEF WriteDoor
  <2> QED BY <1>1, <2>1, CardDone
<1>12. CASE LookAgain(p)
  <2>1. claim' = claim
    BY <1>12 DEF LookAgain, files
  <2> QED BY <1>1, <1>12, <2>1, CardAgain
<1>13. CASE Rendered(p) \/ GivesUp(p)
  <2>1. Takes(p, "check", None) /\ Forgets(p) /\ mutex' = mutex /\ UNCHANGED <<claim, lease, kept>>
    BY <1>13 DEF Rendered, GivesUp, files
  <2>2. Others(p) /\ Section(p, Rest(p))
    BY <2>1, ForgetsSection
  <2> QED BY <1>1, <2>1, <2>2, CardRest
<1>14. CASE Scan(p)
  <2>1. claim' = claim
    BY <1>14 DEF Scan, files
  <2> QED BY <1>1, <1>14, <2>1, CardScan
<1>15. CASE Report(p)
  <2>1. Takes(p, "report", None) /\ Done(p) /\ mutex' = mutex /\ UNCHANGED <<claim, lease, kept>>
    BY <1>15 DEF Report, files
  <2> QED BY <1>1, <2>1, CardDone
<1>16. CASE ClearTmp(p)
  <2>1. Takes(p, "tmp", None) /\ UNCHANGED <<claim, lease, kept>>
    BY <1>16 DEF ClearTmp
  <2>2. Others(p) /\ Section(p, Rest(p))
    BY <1>16, ClearTmpSection
  <2> QED BY <1>1, <2>1, <2>2, CardRest
<1>17. CASE BreakMutex(p)
  <2>1. /\ Takes(p, "break", None) /\ Done(p) /\ UNCHANGED <<claim, lease, kept>>
        /\ (mutex' = mutex \/ (mutex = "dead" /\ mutex' = None))
    BY <1>17 DEF BreakMutex, files
  <2>2. mutex' # p => mutex # p
    BY <2>1, ProcessAssumption
  <2>3. Others(p) /\ Section(p, Rest(p))
    <3>1. "break" # "lock"
      OBVIOUS
    <3> QED BY <2>1, <2>2, <3>1, DoneSection
  <2> QED BY <1>1, <2>1, <2>3, CardRest
<1>18. ASSUME NEW c \in Card, RunBeat(p, c) PROVE CardInv' /\ Stays
  <2>1. /\ Takes(p, "beat", c) /\ Done(p) /\ claim' = claim /\ mutex' = mutex
        /\ lease' = [lease EXCEPT ![c] = "fresh"] /\ kept' = kept \cup {c}
        /\ claim[c] \notin {"unused", "torn"}
    BY <1>18 DEF RunBeat, WriteLease, Up, Readable
  <2>2. mutex = p
    BY <2>1, TakesGuarded DEF Guarded
  <2> QED BY <1>1, <2>1, <2>2, CardLease
<1>19. ASSUME NEW c \in Card, NEW e \in Entry, JoinQueue(p, c, e) PROVE CardInv' /\ Stays
  <2>1. Takes(p, "join", c) /\ UNCHANGED <<claim, lease, kept>>
    BY <1>19 DEF JoinQueue
  <2>2. Others(p) /\ Section(p, Rest(p))
    BY <1>19, JoinQueueSection
  <2> QED BY <1>1, <2>1, <2>2, CardRest
<1>20. CASE LeaveQueue(p)
  <2>1. Takes(p, "leave", None) /\ Done(p) /\ mutex' = mutex /\ UNCHANGED <<claim, lease, kept>>
    BY <1>20 DEF LeaveQueue
  <2> QED BY <1>1, <2>1, CardDone
<1>21. CASE Refuse(p)
  <2>1. mutex' = mutex /\ Fails(p) /\ UNCHANGED <<claim, lease, kept>>
    BY <1>21 DEF Refuse, files
  <2>2. PICK todo : todo \in {<<>>, << A("unlock") >>} /\ Section(p, todo) /\ Others(p)
    BY <2>1, FailsSection
  <2> QED BY <1>1, <2>1, <2>2, CardNothing
<1>22. CASE DoorFails(p)
  <2>1. claim' = claim
    BY <1>22 DEF DoorFails, files
  <2> QED BY <1>1, <1>22, <2>1, CardDoorFails
<1>23. CASE LastScan(p)
  <2>1. UNCHANGED <<claim, lease, kept>>
    BY <1>23 DEF LastScan, files
  <2>2. Others(p) /\ Section(p, << A("report") >>)
    BY <1>23, LastScanSection
  <2> QED BY <1>1, <2>1, <2>2, CardNothing
<1>24. CASE ClaimFails(p)
  <2>1. mutex' = mutex /\ Fails(p) /\ UNCHANGED <<claim, lease, kept>>
    BY <1>24 DEF ClaimFails, files
  <2>2. PICK todo : todo \in {<<>>, << A("unlock") >>} /\ Section(p, todo) /\ Others(p)
    BY <2>1, FailsSection
  <2> QED BY <1>1, <2>1, <2>2, CardNothing
<1>25. ASSUME Tended(p) PROVE CardInv' /\ Stays
  <2>1. CASE \E c \in Card :
                \/ Reap(p, c) \/ SaveClaim(p, c) \/ LeaseCard(p, c) \/ Renew(p, c) \/ ReadOwn(p, c)
                \/ TakeDown(p, c) \/ DropLease(p, c) \/ ClearQueueFor(p, c)
                \/ MoveClaim(p, c) \/ MoveLease(p, c) \/ Mend(p, c) \/ DropOrphan(p, c)
    BY <1>9, <2>1
  <2>2. CASE \/ Command(p) \/ Doctor(p) \/ Lock(p) \/ Unlock(p) \/ Sweep(p) \/ Decide(p) \/ Pin(p)
    BY <2>2, <1>2, <1>3, <1>4, <1>5, <1>6, <1>7, <1>8
  <2>3. CASE \/ TakeSnapshot(p) \/ WriteDoor(p) \/ LookAgain(p) \/ Rendered(p) \/ Scan(p) \/ Report(p)
             \/ ClearTmp(p) \/ BreakMutex(p) \/ Refuse(p)
    BY <2>3, <1>10, <1>11, <1>12, <1>13, <1>14, <1>15, <1>16, <1>17, <1>21
  <2>4. CASE \E c \in Card : \E e \in Entry : JoinQueue(p, c, e)
    BY <2>4, <1>19
  <2> QED BY <1>25, <2>1, <2>2, <2>3, <2>4 DEF Tended
<1>26. ASSUME Untended(p) PROVE CardInv' /\ Stays
  <2>1. CASE \E c \in Card : RunBeat(p, c)
    BY <2>1, <1>18
  <2>2. CASE \E c \in Card : \E e \in Entry : JoinQueue(p, c, e)
    BY <2>2, <1>19
  <2>3. CASE LeaveQueue(p) \/ ClaimFails(p) \/ DoorFails(p) \/ GivesUp(p) \/ LastScan(p)
    BY <2>3, <1>13, <1>20, <1>22, <1>23, <1>24
  <2> QED BY <1>26, <2>1, <2>2, <2>3 DEF Untended
<1> QED BY <1>25, <1>26

LEMMA CardInit == Init => CardInv
<1> SUFFICES ASSUME Init PROVE CardInv
  OBVIOUS
<1>1. \A p \in Process : proc[p] = Idle /\ proc[p].todo = <<>>
  BY MemoryFacts DEF Init
<1>2. ASSUME NEW c \in Card PROVE Keeps(ToSet(<<>>), c, claim[c], c \in kept)
  <2>1. ToSet(<<>>) = {}
    BY DEF ToSet
  <2> QED BY <2>1 DEF Keeps
<1>3. \A c \in Card : Sound(claim[c], lease[c], c \in kept)
  BY DEF Init, Sound
<1> QED BY <1>1, <1>2, <1>3 DEF CardInv

LEMMA CardNext ==
    ASSUME TypeOK, SectionInv, CardInv, [Next]_vars
    PROVE  CardInv' /\ (Stays \/ UNCHANGED vars)
<1>1. ASSUME NEW p \in Process, Tended(p) \/ Untended(p) PROVE CardInv' /\ Stays
  BY <1>1, CardStep
<1>2. ASSUME NEW c \in Card, Expire(c) PROVE CardInv' /\ Stays
  <2>1. claim \in [Card -> ClaimFile] /\ (claim' = claim \/ claim' = [claim EXCEPT ![c] = "old"])
        /\ (claim' # claim => claim[c] = "fresh") /\ kept \subseteq Card
    BY <1>2 DEF Expire, TypeOK
  <2>2. Stays
    BY <2>1 DEF Stays, There, Readable
  <2> QED BY <1>2, <2>2, CardExpire
<1>3. CASE UNCHANGED vars
  BY <1>3 DEF vars, CardInv
<1>4. CASE AgeMutex
  BY <1>4 DEF AgeMutex, files, CardInv, Stays, There
<1> QED BY <1>1, <1>2, <1>3, <1>4 DEF Next

UpkeepInv == TypeOK /\ SectionInv /\ CardInv

LEMMA UpkeepInvariant == Spec => []UpkeepInv
<1>1. Init => UpkeepInv
  BY BaseInit, CardInit DEF UpkeepInv
<1>2. UpkeepInv /\ [Next]_vars => UpkeepInv'
  BY BaseStep, CardNext DEF UpkeepInv
<1> QED BY <1>1, <1>2, PTL DEF Spec

\* What a doctor found to be the lease of no card, it is when the doctor unlinks it,
\* outside of the mutex: no card comes up under that id again.
THEOREM OrphansAreOrphans == Spec => []OrphansStayOrphans
<1>1. UpkeepInv => OrphansStayOrphans
  BY DEF UpkeepInv, CardInv, Keeps, OrphansStayOrphans, There, Readable
<1> QED BY <1>1, UpkeepInvariant, PTL

\* No sweep, no release and no repair takes the card of an owner that took or renewed it
\* in time.
THEOREM CountedCardsStay == Spec => KeptCardsStay
<1>1. UpkeepInv /\ [Next]_vars => [\A c \in kept : There(c) => There(c)']_vars
  BY CardNext DEF UpkeepInv, Stays
<1> QED BY <1>1, UpkeepInvariant, PTL DEF Spec, KeptCardsStay

-----------------------------------------------------------------------------
(* The waiting list. *)

\* Every step leaves the others their steps.
LEMMA StepOthers ==
    ASSUME TypeOK, SectionInv, NEW p \in Process, Tended(p) \/ Untended(p)
    PROVE  Others(p)
<1>0. proc \in [Process -> Memory]
  BY DEF TypeOK
<1>1. ASSUME NEW mem, GoesOn(p, mem) PROVE Others(p)
  BY <1>0, <1>1 DEF GoesOn, Others
<1>2. ASSUME NEW todo, GoesTo(p, todo) PROVE Others(p)
  BY <1>1, <1>2 DEF GoesTo
<1>3. ASSUME Done(p) \/ Fails(p) PROVE Others(p)
  BY <1>2, <1>3 DEF Done, Fails
<1>4. ASSUME Forgets(p) PROVE Others(p)
  BY <1>1, <1>4 DEF Forgets
<1>5. CASE Command(p) \/ Doctor(p) \/ ClearTmp(p)
  BY <1>5, CommandSection, DoctorSection, ClearTmpSection
<1>6. CASE Lock(p) \/ Unlock(p) \/ Pin(p) \/ Report(p) \/ WriteDoor(p) \/ BreakMutex(p) \/ LeaveQueue(p)
            \/ Refuse(p) \/ ClaimFails(p)
  BY <1>3, <1>6 DEF Lock, Unlock, Pin, Report, WriteDoor, BreakMutex, LeaveQueue, Refuse, ClaimFails
<1>7. CASE Sweep(p) \/ DoorFails(p)
  BY <1>2, <1>3, <1>7 DEF Sweep, DoorFails
<1>8. CASE Decide(p)
  BY <1>2, <1>8 DEF Decide
<1>9. CASE TakeSnapshot(p) \/ LookAgain(p) \/ Scan(p) \/ LastScan(p)
  BY <1>1, <1>9 DEF TakeSnapshot, LookAgain, Scan, LastScan
<1>10. CASE Rendered(p) \/ GivesUp(p)
  BY <1>4, <1>10 DEF Rendered, GivesUp
<1>11. ASSUME NEW c \in Card,
              \/ SaveClaim(p, c) \/ LeaseCard(p, c) \/ Renew(p, c) \/ ReadOwn(p, c)
              \/ TakeDown(p, c) \/ DropLease(p, c) \/ ClearQueueFor(p, c)
              \/ MoveClaim(p, c) \/ MoveLease(p, c) \/ DropOrphan(p, c) \/ RunBeat(p, c)
       PROVE  Others(p)
  BY <1>3, <1>11 DEF SaveClaim, LeaseCard, Renew, ReadOwn, TakeDown, DropLease, ClearQueueFor, MoveClaim,
                     MoveLease, DropOrphan, RunBeat
<1>12. ASSUME NEW c \in Card, Reap(p, c) \/ Mend(p, c) PROVE Others(p)
  BY <1>2, <1>12 DEF Reap, Mend
<1>13. ASSUME NEW c \in Card, NEW e \in Entry, JoinQueue(p, c, e) PROVE Others(p)
  BY <1>1, <1>13 DEF JoinQueue
<1>14. CASE Tended(p)
  BY <1>14, <1>5, <1>6, <1>7, <1>8, <1>9, <1>10, <1>11, <1>12, <1>13 DEF Tended
<1>15. CASE Untended(p)
  BY <1>15, <1>6, <1>7, <1>9, <1>10, <1>11, <1>13 DEF Untended
<1> QED BY <1>14, <1>15

\* What is left of a release or of a sweep once the card is down.
Clears(s, c) ==
    \E i \in 1..Len(s) : /\ s[i] = <<"clear", c>>
                         /\ \A j \in 1..Len(s) : j < i => s[j][1] \in {"down", "drop"}

LEMMA ClearsHead ==
    ASSUME NEW s \in Seq(Step), NEW c, Clears(s, c)
    PROVE  s # <<>> /\ Head(s)[1] \in {"down", "drop", "clear"}
<1>1. PICK i \in 1..Len(s) : /\ s[i] = <<"clear", c>>
                             /\ \A j \in 1..Len(s) : j < i => s[j][1] \in {"down", "drop"}
  BY DEF Clears
<1>2. Len(s) \in Nat
  BY LenProperties
<1>3. s # <<>> /\ 1 \in 1..Len(s) /\ Head(s) = s[1]
  <2>1. s # <<>>
    BY <1>1, <1>2, EmptySeq
  <2> QED BY <2>1, TailFacts
<1>4. CASE i = 1
  BY <1>1, <1>3, <1>4
<1>5. CASE 1 < i
  BY <1>1, <1>3, <1>5
<1> QED BY <1>2, <1>3, <1>4, <1>5

LEMMA ClearsTail ==
    ASSUME NEW s \in Seq(Step), NEW c, Clears(s, c), Head(s) # <<"clear", c>>
    PROVE  Clears(Tail(s), c)
<1>1. PICK i \in 1..Len(s) : /\ s[i] = <<"clear", c>>
                             /\ \A j \in 1..Len(s) : j < i => s[j][1] \in {"down", "drop"}
  BY DEF Clears
<1> DEFINE t == Tail(s)
<1>2. /\ Len(s) \in Nat /\ Head(s) = s[1] /\ Len(t) = Len(s) - 1
      /\ \A j \in 1..Len(t) : j + 1 \in 1..Len(s) /\ t[j] = s[j + 1]
  BY ClearsHead, TailFacts
<1> HIDE DEF t
<1>3. i # 1
  BY <1>1, <1>2
<1>4. i - 1 \in 1..Len(t) /\ (i - 1) + 1 = i
  BY <1>2, <1>3
<1>5. t[i - 1] = <<"clear", c>>
  BY <1>1, <1>2, <1>4
<1>6. \A j \in 1..Len(t) : j < i - 1 => t[j][1] \in {"down", "drop"}
  BY <1>1, <1>2
<1>7. Clears(t, c)
  BY <1>4, <1>5, <1>6 DEF Clears
<1> QED BY <1>7 DEF t

\* Taking a card down is followed by what clears its waiters.
LEMMA ClearsAfterDown ==
    ASSUME NEW s \in Seq(Step), s # <<>>, Shape(s), NEW c, Head(s) = <<"down", c>>
    PROVE  Clears(Tail(s), c)
<1> DEFINE t == Tail(s)
<1>1. /\ Len(s) \in Nat /\ 1 \in 1..Len(s) /\ s[1] = <<"down", c>> /\ Len(t) = Len(s) - 1
      /\ \A j \in 1..Len(t) : j + 1 \in 1..Len(s) /\ t[j] = s[j + 1]
  BY TailFacts
<1> HIDE DEF t
<1>2. ASSUME NEW i \in 1..Len(s), s[i][1] \in {"down", "drop"} PROVE i + 1 \in 1..Len(s)
  <2>1. Comes(s, i, Lookers, {})
    BY <1>2 DEF Shape, Leads, Watched
  <2>2. PICK j \in i..Len(s) : s[j][1] \in Lookers
    BY <2>1 DEF Comes
  <2>3. j # i
    BY <1>2, <2>2 DEF Lookers
  <2> QED BY <1>1, <2>3
<1>3. \A i, j \in 1..Len(s) : j = i + 1 => Follows(s[i], s[j])
  BY DEF Shape, InOrder
<1>4. 2 \in 1..Len(s) /\ s[2] = <<"drop", c>>
  <2>1. 2 \in 1..Len(s)
    <3>1. 1 + 1 \in 1..Len(s)
      BY <1>1, <1>2
    <3> QED BY <3>1
  <2>2. Follows(s[1], s[2])
    BY <1>1, <1>3, <2>1
  <2> QED BY <1>1, <2>1, <2>2 DEF Follows
<1>5. 3 \in 1..Len(s) /\ s[3] = <<"clear", c>>
  <2>1. 3 \in 1..Len(s)
    <3>1. 2 + 1 \in 1..Len(s)
      BY <1>2, <1>4
    <3> QED BY <3>1
  <2>2. Follows(s[2], s[3])
    BY <1>3, <1>4, <2>1
  <2> QED BY <1>4, <2>1, <2>2 DEF Follows
<1>6. 1 \in 1..Len(t) /\ 2 \in 1..Len(t) /\ t[1] = s[2] /\ t[2] = s[3]
  <2>1. 1 \in 1..Len(t) /\ 2 \in 1..Len(t)
    BY <1>1, <1>5
  <2>2. t[1] = s[1 + 1] /\ t[2] = s[2 + 1]
    BY <1>1, <2>1
  <2> QED BY <2>1, <2>2
<1>7. \A j \in 1..Len(t) : j < 2 => t[j][1] \in {"down", "drop"}
  BY <1>4, <1>6
<1>8. Clears(t, c)
  BY <1>5, <1>6, <1>7 DEF Clears
<1> QED BY <1>8 DEF t

\* An entry of the waiting list has its card, or somebody took that down and is about to
\* clear its waiters, or the entry is one of those that nobody will clear.
WaitInv ==
    \A e \in DOMAIN queue :
        There(queue[e]) \/ e \in stray \/ \E p \in Process : Clears(proc[p].todo, queue[e])

\* A step of p: each entry is all right, or was not p's to clear and p did nothing to it.
LEMMA WaitGoes ==
    ASSUME TypeOK, WaitInv, NEW p \in Process, Others(p),
           \A e \in DOMAIN queue' :
              \/ claim'[queue'[e]] \in Readable \cup {"torn"} \/ e \in stray'
              \/ Clears(proc'[p].todo, queue'[e])
              \/ /\ e \in DOMAIN queue /\ queue'[e] = queue[e]
                 /\ ~There(queue[e]) /\ e \notin stray /\ ~Clears(proc[p].todo, queue[e])
    PROVE  WaitInv'
<1>1. ASSUME NEW e \in DOMAIN queue'
      PROVE  \/ There(queue[e])' \/ e \in stray'
             \/ \E q \in Process : Clears(proc'[q].todo, queue'[e])
  <2>1. CASE \/ claim'[queue'[e]] \in Readable \cup {"torn"} \/ e \in stray'
             \/ Clears(proc'[p].todo, queue'[e])
    BY <2>1 DEF There, Readable
  <2>2. CASE /\ e \in DOMAIN queue /\ queue'[e] = queue[e]
             /\ ~There(queue[e]) /\ e \notin stray /\ ~Clears(proc[p].todo, queue[e])
    <3>1. PICK q \in Process : Clears(proc[q].todo, queue[e])
      BY <2>2 DEF WaitInv
    <3>2. q # p
      BY <2>2, <3>1
    <3>3. proc'[q] \in {proc[q], [proc[q] EXCEPT !.staged = FALSE]}
      BY <3>2 DEF Others
    <3>4. proc'[q].todo = proc[q].todo
      <4>1. proc[q] \in Memory
        BY DEF TypeOK
      <4> QED BY <3>3, <4>1 DEF Memory
    <3> QED BY <2>2, <3>1, <3>4
  <2> QED BY <2>1, <2>2
<1> QED BY <1>1 DEF WaitInv

\* Steps that have nothing to do with the waiting list.
Calm(p) ==
    /\ UNCHANGED <<claim, queue, stray>>
    /\ ~Busy(p) \/ \E verb \in Verb, c \in Card \cup {None} :
                      verb \notin {"down", "drop", "clear"} /\ Takes(p, verb, c)

LEMMA ClearsTakes ==
    ASSUME TypeOK, NEW p \in Process, NEW c, Clears(proc[p].todo, c)
    PROVE  /\ Busy(p)
           /\ \A verb, x : Takes(p, verb, x) => verb \in {"down", "drop", "clear"}
<1>1. proc[p] \in Memory
  BY DEF TypeOK
<1>2. proc[p].todo \in Seq(Step)
  BY <1>1, MemoryFacts
<1>3. proc[p].todo # <<>> /\ Head(proc[p].todo)[1] \in {"down", "drop", "clear"}
  BY <1>2, ClearsHead
<1> QED BY <1>3 DEF Busy, Takes

LEMMA WaitCalm ==
    ASSUME TypeOK, SectionInv, WaitInv, NEW p \in Process, Tended(p) \/ Untended(p), Calm(p)
    PROVE  WaitInv'
<1>1. \A c : ~Clears(proc[p].todo, c)
  BY ClearsTakes DEF Calm
<1>2. Others(p)
  BY StepOthers
<1>3. ASSUME NEW e \in DOMAIN queue
      PROVE  \/ claim[queue[e]] \in Readable \cup {"torn"} \/ e \in stray
             \/ ~There(queue[e]) /\ e \notin stray /\ ~Clears(proc[p].todo, queue[e])
  BY <1>1 DEF There
<1> QED BY <1>2, <1>3, WaitGoes DEF Calm

LEMMA WaitDown ==
    ASSUME TypeOK, SectionInv, WaitInv, NEW p \in Process, NEW c \in Card, TakeDown(p, c)
    PROVE  WaitInv'
<1>1. /\ Takes(p, "down", c) /\ Done(p) /\ mutex' = mutex /\ UNCHANGED <<queue, stray>>
      /\ claim' = [claim EXCEPT ![c] = IF There(c) THEN "down" ELSE @]
      /\ claim \in [Card -> ClaimFile] /\ proc \in [Process -> Memory]
      /\ queue \in [DOMAIN queue -> Card]
  BY DEF TakeDown, TypeOK
<1>2. Others(p) /\ proc'[p].todo = Rest(p)
  BY <1>1, DoneSection DEF Section
<1>3. /\ proc[p].todo \in Seq(Step) /\ proc[p].todo # <<>> /\ Head(proc[p].todo) = <<"down", c>>
      /\ Rest(p) = Tail(proc[p].todo)
  BY <1>1, RestFacts
<1>4. Clears(proc'[p].todo, c)
  BY <1>2, <1>3, ClearsAfterDown DEF SectionInv
<1>5. ASSUME NEW d, Clears(proc[p].todo, d) PROVE Clears(proc'[p].todo, d)
  BY <1>2, <1>3, <1>5, ClearsTail
<1>6. \A d \in Card : d # c => claim'[d] = claim[d]
  BY <1>1
<1>7. ASSUME NEW e \in DOMAIN queue
      PROVE  \/ claim'[queue[e]] \in Readable \cup {"torn"} \/ e \in stray
             \/ Clears(proc'[p].todo, queue[e])
             \/ ~There(queue[e]) /\ e \notin stray /\ ~Clears(proc[p].todo, queue[e])
  <2>1. CASE queue[e] = c
    BY <1>4, <2>1
  <2>2. CASE queue[e] # c
    BY <1>1, <1>5, <1>6, <2>2 DEF There
  <2> QED BY <2>1, <2>2
<1> QED BY <1>1, <1>2, <1>7, WaitGoes

LEMMA WaitDrop ==
    ASSUME TypeOK, SectionInv, WaitInv, NEW p \in Process, NEW c \in Card, DropLease(p, c)
    PROVE  WaitInv'
<1>1. /\ Takes(p, "drop", c) /\ Done(p) /\ mutex' = mutex /\ UNCHANGED <<claim, queue, stray>>
      /\ proc \in [Process -> Memory]
  BY DEF DropLease, TypeOK
<1>2. Others(p) /\ proc'[p].todo = Rest(p)
  BY <1>1, DoneSection DEF Section
<1>3. /\ proc[p].todo \in Seq(Step) /\ proc[p].todo # <<>> /\ Head(proc[p].todo) = <<"drop", c>>
      /\ Rest(p) = Tail(proc[p].todo)
  BY <1>1, RestFacts
<1>4. ASSUME NEW d, Clears(proc[p].todo, d) PROVE Clears(proc'[p].todo, d)
  BY <1>2, <1>3, <1>4, ClearsTail
<1>5. ASSUME NEW e \in DOMAIN queue
      PROVE  \/ claim[queue[e]] \in Readable \cup {"torn"} \/ e \in stray
             \/ Clears(proc'[p].todo, queue[e])
             \/ ~There(queue[e]) /\ e \notin stray /\ ~Clears(proc[p].todo, queue[e])
  BY <1>4 DEF There
<1> QED BY <1>1, <1>2, <1>5, WaitGoes

LEMMA WithoutFacts ==
    ASSUME NEW entries
    PROVE  /\ DOMAIN Without(entries) = DOMAIN queue \ entries
           /\ \A e \in DOMAIN queue \ entries : Without(entries)[e] = queue[e]
BY DEF Without

LEMMA WaitClear ==
    ASSUME TypeOK, SectionInv, WaitInv, NEW p \in Process, NEW c \in Card, ClearQueueFor(p, c)
    PROVE  WaitInv'
<1>1. /\ Takes(p, "clear", c) /\ Done(p) /\ mutex' = mutex /\ claim' = claim
      /\ queue' = Without({e \in DOMAIN queue : queue[e] = c}) /\ stray' = stray \cap DOMAIN queue'
      /\ proc \in [Process -> Memory]
  BY DEF ClearQueueFor, TypeOK
<1>2. Others(p) /\ proc'[p].todo = Rest(p)
  BY <1>1, DoneSection DEF Section
<1>3. /\ proc[p].todo \in Seq(Step) /\ proc[p].todo # <<>> /\ Head(proc[p].todo) = <<"clear", c>>
      /\ Rest(p) = Tail(proc[p].todo)
  BY <1>1, RestFacts
<1>4. ASSUME NEW d, d # c, Clears(proc[p].todo, d) PROVE Clears(proc'[p].todo, d)
  BY <1>2, <1>3, <1>4, ClearsTail
<1>5. ASSUME NEW e \in DOMAIN queue'
      PROVE  e \in DOMAIN queue /\ queue'[e] = queue[e] /\ queue[e] # c
  <2> DEFINE gone == {x \in DOMAIN queue : queue[x] = c}
  <2>1. queue' = Without(gone) /\ \A x \in DOMAIN queue : queue[x] = c => x \in gone
    BY <1>1
  <2> HIDE DEF gone
  <2>2. DOMAIN queue' = DOMAIN queue \ gone /\ \A x \in DOMAIN queue \ gone : queue'[x] = queue[x]
    BY <2>1, WithoutFacts
  <2> QED BY <1>5, <2>1, <2>2
<1>6. ASSUME NEW e \in DOMAIN queue'
      PROVE  \/ claim'[queue'[e]] \in Readable \cup {"torn"} \/ e \in stray'
             \/ Clears(proc'[p].todo, queue'[e])
             \/ /\ e \in DOMAIN queue /\ queue'[e] = queue[e]
                /\ ~There(queue[e]) /\ e \notin stray /\ ~Clears(proc[p].todo, queue[e])
  BY <1>1, <1>4, <1>5 DEF There
<1> QED BY <1>2, <1>6, WaitGoes

LEMMA WaitJoin ==
    ASSUME TypeOK, SectionInv, WaitInv, NEW p \in Process, NEW c \in Card, NEW e \in Entry, JoinQueue(p, c, e)
    PROVE  WaitInv'
<1>1. /\ Takes(p, "join", c) /\ claim' = claim /\ e \notin DOMAIN queue
      /\ queue' = [x \in DOMAIN queue \cup {e} |-> IF x = e THEN c ELSE queue[x]]
      /\ stray' = IF There(c) THEN stray ELSE stray \cup {e}
  BY DEF JoinQueue
<1>2. Others(p)
  BY JoinQueueSection
<1>3. \A d : ~Clears(proc[p].todo, d)
  BY <1>1, ClearsTakes
<1>4. ASSUME NEW x \in DOMAIN queue'
      PROVE  \/ claim'[queue'[x]] \in Readable \cup {"torn"} \/ x \in stray'
             \/ /\ x \in DOMAIN queue /\ queue'[x] = queue[x]
                /\ ~There(queue[x]) /\ x \notin stray /\ ~Clears(proc[p].todo, queue[x])
  <2>1. CASE x = e
    <3>1. queue'[x] = c
      BY <1>1, <2>1
    <3> QED BY <1>1, <2>1, <3>1 DEF There
  <2>2. CASE x # e
    <3>1. x \in DOMAIN queue /\ queue'[x] = queue[x] /\ (x \in stray => x \in stray')
      BY <1>1, <2>2
    <3> QED BY <1>1, <1>3, <3>1 DEF There
  <2> QED BY <2>1, <2>2
<1> QED BY <1>2, <1>4, WaitGoes

LEMMA WaitLeave ==
    ASSUME TypeOK, SectionInv, WaitInv, NEW p \in Process, LeaveQueue(p)
    PROVE  WaitInv'
<1>1. /\ Takes(p, "leave", None) /\ claim' = claim
      /\ queue' = Without({proc[p].entry}) /\ stray' = stray \cap DOMAIN queue'
  BY DEF LeaveQueue
<1>2. Others(p)
  BY StepOthers DEF Untended
<1>3. \A d : ~Clears(proc[p].todo, d)
  BY <1>1, ClearsTakes
<1>4. ASSUME NEW e \in DOMAIN queue'
      PROVE  e \in DOMAIN queue /\ queue'[e] = queue[e]
  BY <1>1, WithoutFacts
<1>5. ASSUME NEW e \in DOMAIN queue'
      PROVE  \/ claim'[queue'[e]] \in Readable \cup {"torn"} \/ e \in stray'
             \/ /\ e \in DOMAIN queue /\ queue'[e] = queue[e]
                /\ ~There(queue[e]) /\ e \notin stray /\ ~Clears(proc[p].todo, queue[e])
  BY <1>1, <1>3, <1>4 DEF There
<1> QED BY <1>2, <1>5, WaitGoes

\* Quarantine gives up the waiters of the card; saving one gives nothing up.
LEMMA WaitFile ==
    ASSUME TypeOK, SectionInv, WaitInv, NEW p \in Process, NEW c \in Card, MoveClaim(p, c) \/ SaveClaim(p, c)
    PROVE  WaitInv'
<1>0. claim \in [Card -> ClaimFile] /\ queue \in [DOMAIN queue -> Card]
  BY DEF TypeOK
<1>1. /\ Takes(p, "moveclaim", c) \/ Takes(p, "save", c)
      /\ queue' = queue /\ stray \subseteq stray' /\ \A d \in Card : d # c => claim'[d] = claim[d]
      /\ \/ claim'[c] = "fresh"
         \/ \A e \in DOMAIN queue : queue[e] = c => e \in stray'
  <2>1. CASE MoveClaim(p, c)
    BY <1>0, <2>1 DEF MoveClaim
  <2>2. CASE SaveClaim(p, c)
    BY <1>0, <2>2 DEF SaveClaim
  <2> QED BY <2>1, <2>2
<1>2. Others(p)
  BY StepOthers DEF Tended
<1>3. \A d : ~Clears(proc[p].todo, d)
  BY <1>1, ClearsTakes
<1>4. ASSUME NEW e \in DOMAIN queue
      PROVE  \/ claim'[queue[e]] \in Readable \cup {"torn"} \/ e \in stray'
             \/ ~There(queue[e]) /\ e \notin stray /\ ~Clears(proc[p].todo, queue[e])
  <2>1. CASE queue[e] = c
    BY <1>1, <2>1 DEF Readable
  <2>2. CASE queue[e] # c
    BY <1>0, <1>1, <1>3, <2>2 DEF There
  <2> QED BY <2>1, <2>2
<1> QED BY <1>1, <1>2, <1>4, WaitGoes

LEMMA WaitStep ==
    ASSUME TypeOK, SectionInv, WaitInv, NEW p \in Process, Tended(p) \/ Untended(p)
    PROVE  WaitInv'
<1>1. ASSUME Calm(p) PROVE WaitInv'
  BY <1>1, WaitCalm
<1>2. ASSUME UNCHANGED <<claim, queue, stray>>, NEW verb \in Verb \ {"down", "drop", "clear"},
             NEW c \in Card \cup {None}, Takes(p, verb, c)
      PROVE  Calm(p)
  BY <1>2 DEF Calm
<1>3. CASE Command(p) \/ Doctor(p)
  <2>1. UNCHANGED <<files, stray>> /\ proc[p].todo = <<>>
    BY <1>3, CommandSection, DoctorSection
  <2> QED BY <1>1, <2>1 DEF files, Busy, Calm
<1>4. CASE Lock(p) \/ Unlock(p) \/ Sweep(p) \/ Decide(p) \/ Pin(p)
  BY <1>1, <1>2, <1>4 DEF Lock, Unlock, Sweep, Decide, Pin, files, Verb
<1>5. CASE TakeSnapshot(p) \/ WriteDoor(p) \/ LookAgain(p) \/ Rendered(p) \/ GivesUp(p) \/ DoorFails(p)
  BY <1>1, <1>2, <1>5 DEF TakeSnapshot, WriteDoor, LookAgain, Rendered, GivesUp, DoorFails, files, Verb
<1>6. CASE Scan(p) \/ LastScan(p) \/ Report(p) \/ ClearTmp(p) \/ BreakMutex(p)
  BY <1>1, <1>2, <1>6 DEF Scan, LastScan, Report, ClearTmp, BreakMutex, files, Verb
<1>7. CASE Refuse(p)
  <2>1. UNCHANGED <<claim, queue, stray>>
    BY <1>7 DEF Refuse, files
  <2>2. \E verb \in {"renew", "beat", "read", "mend"}, c \in Card : Takes(p, verb, c)
    BY <1>7 DEF Refuse
  <2>3. {"renew", "beat", "read", "mend"} \subseteq Verb \ {"down", "drop", "clear"}
    BY DEF Verb
  <2> QED BY <1>1, <1>2, <2>1, <2>2, <2>3
<1>8. ASSUME NEW c \in Card, Reap(p, c) \/ LeaseCard(p, c) \/ Renew(p, c) \/ ReadOwn(p, c) \/ RunBeat(p, c)
      PROVE  WaitInv'
  BY <1>1, <1>2, <1>8 DEF Reap, LeaseCard, Renew, ReadOwn, RunBeat, WriteLease, files, Verb
<1>9. ASSUME NEW c \in Card, MoveLease(p, c) \/ Mend(p, c) \/ DropOrphan(p, c)
      PROVE  WaitInv'
  BY <1>1, <1>2, <1>9 DEF MoveLease, Mend, DropOrphan, files, Verb
<1>10. CASE ClaimFails(p)
  <2>1. UNCHANGED <<claim, queue, stray>> /\ Takes(p, "decide", None)
    BY <1>10 DEF ClaimFails, files
  <2>2. "decide" \in Verb \ {"down", "drop", "clear"}
    BY DEF Verb
  <2> QED BY <1>1, <1>2, <2>1, <2>2
<1>11. CASE Tended(p)
  <2>1. CASE \E c \in Card :
                \/ Reap(p, c) \/ SaveClaim(p, c) \/ LeaseCard(p, c) \/ Renew(p, c) \/ ReadOwn(p, c)
                \/ TakeDown(p, c) \/ DropLease(p, c) \/ ClearQueueFor(p, c)
                \/ MoveClaim(p, c) \/ MoveLease(p, c) \/ Mend(p, c) \/ DropOrphan(p, c)
    BY <1>8, <1>9, <2>1, WaitDown, WaitDrop, WaitClear, WaitFile
  <2>2. CASE \/ Command(p) \/ Doctor(p) \/ Lock(p) \/ Unlock(p) \/ Sweep(p) \/ Decide(p) \/ Pin(p)
    BY <2>2, <1>3, <1>4
  <2>3. CASE \/ TakeSnapshot(p) \/ WriteDoor(p) \/ LookAgain(p) \/ Rendered(p) \/ Scan(p) \/ Report(p)
             \/ ClearTmp(p) \/ BreakMutex(p) \/ Refuse(p)
    BY <2>3, <1>5, <1>6, <1>7
  <2>4. CASE \E c \in Card : \E e \in Entry : JoinQueue(p, c, e)
    BY <2>4, WaitJoin
  <2> QED BY <1>11, <2>1, <2>2, <2>3, <2>4 DEF Tended
<1>12. CASE Untended(p)
  <2>1. CASE \E c \in Card : RunBeat(p, c) \/ \E e \in Entry : JoinQueue(p, c, e)
    BY <2>1, <1>8, WaitJoin
  <2>2. CASE LeaveQueue(p) \/ ClaimFails(p) \/ DoorFails(p) \/ GivesUp(p) \/ LastScan(p)
    BY <2>2, <1>5, <1>6, <1>10, WaitLeave
  <2> QED BY <1>12, <2>1, <2>2 DEF Untended
<1> QED BY <1>11, <1>12

LEMMA WaitExpire ==
    ASSUME TypeOK, WaitInv, NEW c \in Card, Expire(c)
    PROVE  WaitInv'
<1>1. UNCHANGED <<queue, stray, proc>> /\ claim \in [Card -> ClaimFile] /\ queue \in [DOMAIN queue -> Card]
      /\ (claim' = claim \/ (claim[c] = "fresh" /\ claim' = [claim EXCEPT ![c] = "old"]))
  BY DEF Expire, TypeOK
<1>2. \A d \in Card : There(d) => There(d)'
  BY <1>1 DEF There, Readable
<1>3. ASSUME NEW e \in DOMAIN queue
      PROVE  There(queue[e])' \/ e \in stray \/ \E p \in Process : Clears(proc[p].todo, queue[e])
  <2>1. There(queue[e]) => claim'[queue[e]] \in Readable \cup {"torn"}
    BY <1>1, <1>2 DEF There
  <2> QED BY <1>1, <2>1 DEF WaitInv, There
<1> QED BY <1>1, <1>3 DEF WaitInv

\* An entry of the waiting list goes with its card or with the wait that wrote it: whoever
\* takes the card down clears its waiters in the same hold of the mutex, whoever else stops.
THEOREM WaitersAreCleared == Spec => []WaitersGoWithTheirCard
<1>1. Init => WaitInv
  BY DEF Init, WaitInv
<1>2. UpkeepInv /\ WaitInv /\ [Next]_vars => WaitInv'
  <2> SUFFICES ASSUME UpkeepInv, WaitInv, [Next]_vars PROVE WaitInv'
    OBVIOUS
  <2>1. CASE UNCHANGED vars
    BY <2>1 DEF vars, WaitInv, There
  <2>2. CASE AgeMutex
    BY <2>2 DEF AgeMutex, files, WaitInv, There
  <2> QED BY <2>1, <2>2, WaitStep, WaitExpire DEF Next, UpkeepInv
<1>3. UpkeepInv /\ WaitInv => WaitersGoWithTheirCard
  <2> SUFFICES ASSUME UpkeepInv, WaitInv PROVE WaitersGoWithTheirCard
    OBVIOUS
  <2>1. ASSUME NEW p \in Process, NEW c, Clears(proc[p].todo, c) PROVE <<"clear", c>> \in ToSet(proc[p].todo)
    <3>1. proc[p] \in Memory
      BY DEF UpkeepInv, TypeOK
    <3>2. proc[p].todo \in Seq(Step)
      BY <3>1, MemoryFacts
    <3> QED BY <2>1, <3>2, ToSetFacts DEF Clears
  <2> QED BY <2>1 DEF UpkeepInv, WaitInv, WaitersGoWithTheirCard
<1> QED BY <1>1, <1>2, <1>3, UpkeepInvariant, PTL DEF Spec

-----------------------------------------------------------------------------
(* The rendered view. *)

\* A process counts as one that keeps the door up when a door, or what leads to one, is
\* among its steps, or a look at one that it will find out of date, and nothing that may
\* be refused before it comes there; a sweep that may yet fail does not stop it.
Refusable == {"renew", "beat", "read"}
Counts(mem, snap) ==
    /\ \A x \in ToSet(mem.todo) : x[1] \notin Refusable
    /\ A("sweep") \in ToSet(mem.todo) => A("scan") \in ToSet(mem.todo)
    /\ \/ \E x \in ToSet(mem.todo) : x[1] \in {"decide", "scan", "door"}
       \/ mem.seen # snap /\ \E x \in ToSet(mem.todo) : x[1] = "check"

\* A doctor moves what cannot be read away before it sweeps.
SweepInv ==
    \A p \in Process, c \in Card :
        A("scan") \in ToSet(proc[p].todo) /\ A("sweep") \in ToSet(proc[p].todo) /\ claim[c] = "torn" =>
            <<"moveclaim", c>> \in ToSet(proc[p].todo)

DoorUp == door = Snapshot \/ behind \/ \E p \in Process : Counts(proc[p], Snapshot)

LEMMA DoneTodo ==
    ASSUME TypeOK, NEW p \in Process, NEW verb, NEW c, Takes(p, verb, c), Done(p)
    PROVE  /\ proc'[p].todo = Rest(p)
           /\ Rest(p) # <<>> => proc'[p].seen = proc[p].seen /\ proc'[p].rounds = proc[p].rounds
<1>1. proc \in [Process -> Memory]
  BY DEF TypeOK
<1>2. Rest(p) \in Seq(Step)
  BY <1>1, RestFacts
<1> QED BY <1>1, <1>2, GoesToFacts DEF Done

LEMMA NoSweepRest ==
    ASSUME TypeOK, SectionInv, NEW p \in Process, NEW verb, NEW x, Takes(p, verb, x),
           verb \notin {"lock", "moveclaim", "movelease"}
    PROVE  A("sweep") \notin ToSet(Rest(p))
BY RestFits DEF A

\* What can be refused is the first thing a command does.
LEMMA NoRefusals ==
    ASSUME TypeOK, SectionInv, NEW p \in Process, NEW verb, NEW x, Takes(p, verb, x)
    PROVE  \A y \in ToSet(Rest(p)) : y[1] \notin Refusable
BY RestShape DEF Fits, Refusable

\* Reports are only written by the last scan, sweeps only by commands and scans.
LEMMA SweepsFrom ==
    ASSUME TypeOK, SectionInv, NEW p \in Process, Tended(p) \/ Untended(p),
           A("scan") \in ToSet(proc'[p].todo), A("sweep") \in ToSet(proc'[p].todo)
    PROVE  Lock(p) \/ Scan(p) \/ \E c \in Card : MoveClaim(p, c) \/ MoveLease(p, c)
<1> SUFFICES ASSUME ~Lock(p), ~Scan(p), \A c \in Card : ~MoveClaim(p, c) /\ ~MoveLease(p, c)
             PROVE  FALSE
  OBVIOUS
<1>1. ASSUME NEW verb, NEW c, Takes(p, verb, c), verb \notin {"lock", "moveclaim", "movelease"},
             proc'[p].todo = Rest(p)
      PROVE  FALSE
  BY <1>1, NoSweepRest
<1>2. ASSUME NEW verb, NEW c, Takes(p, verb, c), verb \notin {"lock", "moveclaim", "movelease"}, Done(p)
      PROVE  FALSE
  BY <1>1, <1>2, DoneTodo
<1>3. ASSUME NEW todo \in {<<>>, << A("unlock") >>, << A("scan") >>, << A("report") >>}, proc'[p].todo = todo
      PROVE  FALSE
  <2>1. /\ ToSet(<<>>) = {} /\ ToSet(<< A("unlock") >>) = {A("unlock")}
        /\ ToSet(<< A("scan") >>) = {A("scan")} /\ ToSet(<< A("report") >>) = {A("report")}
    BY DEF ToSet
  <2> QED BY <1>3, <2>1 DEF A
<1>4. ~Command(p)
  <2>1. ASSUME Command(p) PROVE A("scan") \notin ToSet(proc'[p].todo)
    <3>1. PICK todo : Section(p, todo) /\ Fresh(todo)
      BY <2>1, CommandSection
    <3> QED BY <3>1 DEF Section, Fresh, A
  <2> QED BY <2>1
<1>5. ~Doctor(p)
  BY <1>3, DoctorSection DEF Section
<1>6. ~Decide(p)
  <2>1. ASSUME Decide(p) PROVE A("scan") \notin ToSet(proc'[p].todo)
    <3>1. PICK todo : Section(p, todo) /\ Decided(todo)
      BY <2>1, DecideSection
    <3> QED BY <3>1 DEF Section, Decided, A
  <2> QED BY <2>1
<1>7. ~Unlock(p) /\ ~Pin(p) /\ ~Report(p) /\ ~WriteDoor(p) /\ ~BreakMutex(p) /\ ~LeaveQueue(p)
  BY <1>2 DEF Unlock, Pin, Report, WriteDoor, BreakMutex, LeaveQueue
<1>8. ~Sweep(p)
  <2>1. ASSUME Sweep(p) PROVE FALSE
    <3>1. Takes(p, "sweep", None)
      BY <2>1 DEF Sweep
    <3>2. A("sweep") \notin ToSet(Rest(p))
      BY <3>1, NoSweepRest
    <3>3. A("sweep") \notin {"reap"} \X {c \in Card : Stale(c)}
      BY DEF A
    <3>4. \E todo : /\ Section(p, todo)
                    /\ \/ todo \in {<<>>, << A("unlock") >>}
                       \/ ToSet(todo) = ({"reap"} \X {c \in Card : Stale(c)}) \cup ToSet(Rest(p))
      BY <2>1, SweepSection
    <3> QED BY <1>3, <3>2, <3>3, <3>4 DEF Section
  <2> QED BY <2>1
<1>9. ASSUME NEW c \in Card,
             \/ SaveClaim(p, c) \/ LeaseCard(p, c) \/ Renew(p, c) \/ ReadOwn(p, c)
             \/ TakeDown(p, c) \/ DropLease(p, c) \/ ClearQueueFor(p, c) \/ DropOrphan(p, c) \/ RunBeat(p, c)
      PROVE  FALSE
  BY <1>2, <1>9 DEF SaveClaim, LeaseCard, Renew, ReadOwn, TakeDown, DropLease, ClearQueueFor, DropOrphan, RunBeat
<1>10. ASSUME NEW c \in Card, Reap(p, c) PROVE FALSE
  <2>1. Takes(p, "reap", c)
    BY <1>10 DEF Reap
  <2>2. A("sweep") \notin ToSet(Rest(p))
    BY <2>1, NoSweepRest
  <2>3. /\ proc'[p].todo = Archive(c) \o Rest(p)
        /\ ToSet(Archive(c) \o Rest(p)) =
             {<<"down", c>>, <<"drop", c>>, <<"clear", c>>, A("pin")} \cup ToSet(Rest(p))
    BY <1>10, ReapSection DEF Section
  <2>4. A("sweep") \notin {<<"down", c>>, <<"drop", c>>, <<"clear", c>>, A("pin")}
    BY DEF A
  <2> HIDE DEF Archive
  <2> QED BY <2>2, <2>3, <2>4
<1>11. ASSUME NEW c \in Card, Mend(p, c) PROVE FALSE
  <2>1. Takes(p, "mend", c)
    BY <1>11 DEF Mend
  <2>2. A("sweep") \notin ToSet(Rest(p))
    BY <2>1, NoSweepRest
  <2>3. PICK todo : /\ Section(p, todo)
                    /\ ToSet(todo) = ToSet(Rest(p)) \cup (IF Up(c) THEN {<<"lease", c>>} ELSE {})
    BY <1>11, MendSection
  <2>4. A("sweep") # <<"lease", c>>
    BY DEF A
  <2> QED BY <2>2, <2>3, <2>4 DEF Section
<1>12. ASSUME NEW c \in Card, NEW e \in Entry, JoinQueue(p, c, e) PROVE FALSE
  <2>1. Takes(p, "join", c) /\ proc'[p].todo = Rest(p)
    BY <1>12, JoinQueueSection DEF JoinQueue, Section
  <2> QED BY <1>1, <2>1
<1>13. ~TakeSnapshot(p) /\ ~ClearTmp(p)
  <2>1. ASSUME TakeSnapshot(p) PROVE FALSE
    <3>1. Takes(p, "snap", None) /\ proc'[p].todo = Rest(p)
      BY <2>1, TakeSnapshotSection, SnapshotType DEF TakeSnapshot, Section
    <3> QED BY <1>1, <3>1
  <2>2. ASSUME ClearTmp(p) PROVE FALSE
    <3>1. Takes(p, "tmp", None) /\ proc'[p].todo = Rest(p)
      BY <2>2, ClearTmpSection DEF ClearTmp, Section
    <3> QED BY <1>1, <3>1
  <2> QED BY <2>1, <2>2
<1>14. ~LookAgain(p)
  <2>1. ASSUME LookAgain(p) PROVE A("scan") \notin ToSet(proc'[p].todo)
    <3>1. /\ proc'[p].todo = Render \o Rest(p) /\ A("scan") \notin ToSet(Rest(p))
          /\ ToSet(Render \o Rest(p)) = {A("snap"), A("door"), A("check")} \cup ToSet(Rest(p))
      BY <2>1, LookAgainSection DEF Section
    <3>2. A("scan") \notin {A("snap"), A("door"), A("check")}
      BY DEF A
    <3> HIDE DEF Render
    <3> QED BY <3>1, <3>2
  <2> QED BY <2>1
<1>15. ~Rendered(p) /\ ~GivesUp(p)
  <2>1. ASSUME Rendered(p) \/ GivesUp(p) PROVE FALSE
    <3>1. Takes(p, "check", None) /\ Forgets(p) /\ mutex' = mutex
      BY <2>1 DEF Rendered, GivesUp
    <3>2. proc'[p].todo = Rest(p)
      BY <3>1, ForgetsSection DEF Section
    <3> QED BY <1>1, <3>1, <3>2
  <2> QED BY <2>1
<1>16. ~Refuse(p)
  <2>1. ASSUME Refuse(p) PROVE FALSE
    <3>1. Fails(p) /\ mutex' = mutex
      BY <2>1 DEF Refuse
    <3>2. \E todo : todo \in {<<>>, << A("unlock") >>} /\ Section(p, todo)
      BY <3>1, FailsSection
    <3> QED BY <1>3, <3>2 DEF Section
  <2> QED BY <2>1
<1>17. ~ClaimFails(p)
  <2>1. ASSUME ClaimFails(p) PROVE FALSE
    <3>1. Fails(p) /\ mutex' = mutex
      BY <2>1 DEF ClaimFails
    <3>2. \E todo : todo \in {<<>>, << A("unlock") >>} /\ Section(p, todo)
      BY <3>1, FailsSection
    <3> QED BY <1>3, <3>2 DEF Section
  <2> QED BY <2>1
<1>18. ~DoorFails(p)
  BY DoorFailsSection DEF Section
<1>19. ~LastScan(p)
  BY <1>3, LastScanSection DEF Section
<1>20. ~Tended(p)
  BY <1>4, <1>5, <1>6, <1>7, <1>8, <1>9, <1>10, <1>11, <1>12, <1>13, <1>14, <1>15, <1>16
     DEF Tended
<1>21. ~Untended(p)
  BY <1>7, <1>9, <1>12, <1>15, <1>17, <1>18, <1>19 DEF Untended
<1> QED BY <1>20, <1>21

\* Nothing writes half a record.
LEMMA TornStays ==
    ASSUME TypeOK, Next, NEW c \in Card, claim'[c] = "torn"
    PROVE  claim[c] = "torn"
<1>1. claim \in [Card -> ClaimFile]
  BY DEF TypeOK
<1>2. ASSUME NEW d \in Card, NEW file, file # "torn", claim' = [claim EXCEPT ![d] = file] PROVE claim[c] = "torn"
  BY <1>1, <1>2
<1>3. ASSUME claim' = claim PROVE claim[c] = "torn"
  BY <1>3
<1>4. ASSUME NEW d \in Card, Expire(d) PROVE claim[c] = "torn"
  BY <1>2, <1>3, <1>4 DEF Expire
<1>5. ASSUME NEW p \in Process, NEW d \in Card, SaveClaim(p, d) PROVE claim[c] = "torn"
  BY <1>2, <1>5 DEF SaveClaim
<1>6. ASSUME NEW p \in Process, NEW d \in Card, TakeDown(p, d) \/ MoveClaim(p, d) PROVE claim[c] = "torn"
  <2>1. claim' = claim \/ claim' = [claim EXCEPT ![d] = "down"] \/ claim' = [claim EXCEPT ![d] = "moved"]
    <3>1. CASE There(d)
      BY <1>6, <3>1 DEF TakeDown, MoveClaim
    <3>2. CASE ~There(d)
      BY <1>1, <1>6, <3>2 DEF TakeDown, MoveClaim
    <3> QED BY <3>1, <3>2
  <2> QED BY <1>2, <1>3, <2>1
<1>7. ASSUME NEW p \in Process, Tended(p) PROVE claim[c] = "torn"
  <2>1. CASE \/ Command(p) \/ Doctor(p) \/ Lock(p) \/ Unlock(p) \/ Sweep(p) \/ Decide(p) \/ Pin(p)
    <3>1. CASE Command(p)
      <4>1. \E steps : Begin(p, steps)
        BY <3>1 DEF Command
      <4> QED BY <1>3, <4>1 DEF Begin, files
    <3> QED BY <1>3, <2>1, <3>1 DEF Doctor, Lock, Unlock, Sweep, Decide, Pin, files
  <2>2. CASE \E d \in Card :
                \/ Reap(p, d) \/ LeaseCard(p, d) \/ Renew(p, d) \/ ReadOwn(p, d)
                \/ DropLease(p, d) \/ ClearQueueFor(p, d) \/ MoveLease(p, d) \/ Mend(p, d) \/ DropOrphan(p, d)
    BY <1>3, <2>2 DEF Reap, LeaseCard, WriteLease, Renew, ReadOwn, DropLease, ClearQueueFor, MoveLease, Mend,
                      DropOrphan, files
  <2>3. CASE \/ TakeSnapshot(p) \/ WriteDoor(p) \/ LookAgain(p) \/ Rendered(p) \/ Scan(p) \/ Report(p)
             \/ ClearTmp(p) \/ BreakMutex(p) \/ Refuse(p)
    BY <1>3, <2>3 DEF TakeSnapshot, WriteDoor, LookAgain, Rendered, Scan, Report, ClearTmp, BreakMutex, Refuse,
                      files
  <2>4. CASE \E d \in Card : \E e \in Entry : JoinQueue(p, d, e)
    BY <1>3, <2>4 DEF JoinQueue
  <2> QED BY <1>5, <1>6, <1>7, <2>1, <2>2, <2>3, <2>4 DEF Tended
<1>8. ASSUME NEW p \in Process, Untended(p) PROVE claim[c] = "torn"
  <2>1. CASE \E d \in Card : RunBeat(p, d) \/ \E e \in Entry : JoinQueue(p, d, e)
    BY <1>3, <2>1 DEF RunBeat, WriteLease, JoinQueue
  <2>2. CASE LeaveQueue(p) \/ ClaimFails(p) \/ DoorFails(p) \/ GivesUp(p) \/ LastScan(p)
    BY <1>3, <2>2 DEF LeaveQueue, ClaimFails, DoorFails, GivesUp, LastScan, files
  <2> QED BY <1>8, <2>1, <2>2 DEF Untended
<1>9. CASE AgeMutex
  BY <1>3, <1>9 DEF AgeMutex, files
<1> QED BY <1>4, <1>7, <1>8, <1>9 DEF Next

LEMMA OthersTodo ==
    ASSUME TypeOK, NEW p \in Process, Others(p), NEW q \in Process, q # p
    PROVE  proc'[q].todo = proc[q].todo /\ proc'[q].seen = proc[q].seen /\ proc'[q].rounds = proc[q].rounds
<1>1. proc[q] \in Memory /\ proc'[q] \in {proc[q], [proc[q] EXCEPT !.staged = FALSE]}
  BY DEF TypeOK, Others
<1> QED BY <1>1 DEF Memory

LEMMA SweepNext ==
    ASSUME TypeOK, SectionInv, SweepInv, [Next]_vars
    PROVE  SweepInv'
<1>1. CASE UNCHANGED vars
  BY <1>1 DEF vars, SweepInv
<1>2. ASSUME NEW c \in Card, Expire(c), Next PROVE SweepInv'
  <2>1. proc' = proc
    BY <1>2 DEF Expire
  <2> QED BY <1>2, <2>1, TornStays DEF SweepInv
<1>3. ASSUME NEW p \in Process, Tended(p) \/ Untended(p), Next PROVE SweepInv'
  <2>1. ASSUME NEW q \in Process, NEW c \in Card, A("scan") \in ToSet(proc'[q].todo),
               A("sweep") \in ToSet(proc'[q].todo), claim'[c] = "torn"
        PROVE  <<"moveclaim", c>> \in ToSet(proc'[q].todo)
    <3>1. claim[c] = "torn"
      BY <1>3, <2>1, TornStays
    <3>2. CASE q # p
      <4>1. proc'[q].todo = proc[q].todo
        BY <1>3, <3>2, StepOthers, OthersTodo
      <4> QED BY <2>1, <3>1, <4>1 DEF SweepInv
    <3>3. CASE q = p
      <4>1. CASE Scan(p)
        <5>1. proc'[p].todo = ToRepair /\ junk \in BOOLEAN
          BY <4>1, ScanSection DEF Section, TypeOK
        <5>2. {"moveclaim"} \X Torn \subseteq ToSet(ToRepair)
          BY <5>1, RepairsFacts
        <5>3. <<"moveclaim", c>> \in {"moveclaim"} \X Torn
          BY <3>1 DEF Torn
        <5> QED BY <3>3, <5>1, <5>2, <5>3
      <4>2. ASSUME NEW verb, NEW x, Takes(p, verb, x), proc'[p].todo = Rest(p), <<verb, x>> # <<"moveclaim", c>>
            PROVE  <<"moveclaim", c>> \in ToSet(proc'[p].todo)
        <5>1. ToSet(proc[p].todo) = ToSet(Rest(p)) \cup {<<verb, x>>}
          BY <4>2, TakesSet
        <5>2. <<"moveclaim", c>> \in ToSet(proc[p].todo)
          BY <2>1, <3>1, <3>3, <4>2, <5>1 DEF SweepInv
        <5> QED BY <4>2, <5>1, <5>2
      <4>3. CASE Lock(p)
        <5>1. Takes(p, "lock", None) /\ Done(p)
          BY <4>3 DEF Lock
        <5>2. proc'[p].todo = Rest(p) /\ <<"lock", None>> # <<"moveclaim", c>>
          BY <5>1, DoneTodo
        <5> QED BY <3>3, <4>2, <5>1, <5>2
      <4>4. ASSUME NEW d \in Card, MoveLease(p, d) PROVE <<"moveclaim", c>> \in ToSet(proc'[p].todo)
        <5>1. Takes(p, "movelease", d) /\ Done(p)
          BY <4>4 DEF MoveLease
        <5>2. proc'[p].todo = Rest(p) /\ <<"movelease", d>> # <<"moveclaim", c>>
          BY <5>1, DoneTodo
        <5> QED BY <4>2, <5>1, <5>2
      <4>5. ASSUME NEW d \in Card, MoveClaim(p, d) PROVE <<"moveclaim", c>> \in ToSet(proc'[p].todo)
        <5>1. Takes(p, "moveclaim", d) /\ Done(p) /\ claim' = [claim EXCEPT ![d] = IF There(d) THEN "moved" ELSE @]
          BY <4>5 DEF MoveClaim
        <5>2. proc'[p].todo = Rest(p)
          BY <5>1, DoneTodo
        <5>3. d # c
          <6>1. claim \in [Card -> ClaimFile]
            BY DEF TypeOK
          <6> QED BY <2>1, <3>1, <5>1, <6>1 DEF There
        <5> QED BY <4>2, <5>1, <5>2, <5>3
      <4> QED BY <1>3, <2>1, <3>3, <4>1, <4>3, <4>4, <4>5, SweepsFrom
    <3> QED BY <3>2, <3>3
  <2> QED BY <2>1 DEF SweepInv
<1>4. ASSUME AgeMutex, Next PROVE SweepInv'
  <2>1. proc' = proc
    BY <1>4 DEF AgeMutex
  <2> QED BY <1>4, <2>1, TornStays DEF SweepInv
<1> QED BY <1>1, <1>2, <1>3, <1>4 DEF Next

\* What is left after a step that somebody is to look at the door after.
LEMMA WatchedRest ==
    ASSUME TypeOK, SectionInv, NEW p \in Process, NEW verb, NEW c, Takes(p, verb, c),
           verb \in Watched \/ (verb = "join" /\ ~ByWait(p))
    PROVE  /\ Rest(p) # <<>>
           /\ \A x \in ToSet(Rest(p)) : x[1] \notin Refusable
           /\ A("sweep") \in ToSet(Rest(p)) => A("scan") \in ToSet(Rest(p))
           /\ \/ \E x \in ToSet(Rest(p)) : x[1] \in {"decide", "scan", "door"}
              \/ verb = "door" /\ \E x \in ToSet(Rest(p)) : x[1] = "check"
<1> DEFINE s == proc[p].todo
           t == Rest(p)
<1>1. proc \in [Process -> Memory] /\ Shape(s)
  BY DEF TypeOK, SectionInv
<1>2. s \in Seq(Step) /\ s # <<>> /\ Head(s) = <<verb, c>> /\ t = Tail(s)
  BY <1>1, RestFacts
<1> HIDE DEF s, t
<1>3. /\ Len(s) \in Nat /\ Len(s) >= 1 /\ 1 \in 1..Len(s) /\ s[1] = <<verb, c>>
      /\ t \in Seq(Step) /\ Len(t) = Len(s) - 1
      /\ \A i \in 1..Len(t) : i + 1 \in 1..Len(s) /\ t[i] = s[i + 1]
  BY <1>2, TailFacts
<1>4. ASSUME NEW j \in 1..Len(s), j # 1 PROVE s[j] \in ToSet(t) /\ t # <<>>
  <2>1. j - 1 \in 1..Len(t) /\ (j - 1) + 1 = j
    BY <1>3, <1>4
  <2>2. t[j - 1] = s[j]
    BY <1>3, <2>1
  <2> QED BY <1>3, <2>1, <2>2, ToSetFacts, EmptySeq
<1>5. PICK j \in 1..Len(s) : s[j][1] \in Lookers
  <2>1. CASE verb \in Watched
    <3>1. Comes(s, 1, Lookers, {})
      BY <1>1, <1>3, <2>1 DEF Shape, Leads
    <3> QED BY <3>1 DEF Comes
  <2>2. CASE verb = "join" /\ ~ByWait(p)
    <3>1. Comes(s, 1, Lookers \cup {"leave"}, {})
      <4>1. Leads(s, {"join"}, Lookers \cup {"leave"}, {})
        BY <1>1 DEF Shape
      <4>2. 1 \in 1..Len(s) /\ s[1][1] \in {"join"}
        BY <1>3, <2>2
      <4> QED BY <4>1, <4>2 DEF Leads
    <3>2. PICK j \in 1..Len(s) : s[j][1] \in Lookers \cup {"leave"}
      BY <3>1 DEF Comes
    <3>3. j # 1
      BY <1>3, <2>2, <3>2 DEF Lookers
    <3>4. s[j] \in ToSet(t)
      BY <1>4, <3>3
    <3>5. s[j][1] # "leave"
      BY <2>2, <3>4 DEF ByWait, t
    <3> QED BY <3>2, <3>5
  <2> QED BY <2>1, <2>2
<1>6. j # 1
  BY <1>3, <1>5 DEF Watched, Lookers
<1>7. s[j] \in ToSet(t) /\ t # <<>>
  BY <1>4, <1>6
<1>8. \/ \E x \in ToSet(t) : x[1] \in {"decide", "scan", "door"}
      \/ verb = "door" /\ \E x \in ToSet(t) : x[1] = "check"
  <2>1. CASE s[j][1] \in {"decide", "scan"}
    BY <1>7, <2>1
  <2>2. CASE s[j][1] = "check"
    <3>1. j - 1 \in 1..Len(s) /\ j = (j - 1) + 1
      BY <1>3, <1>6
    <3>2. Follows(s[j - 1], s[j])
      BY <1>1, <3>1 DEF Shape, InOrder
    <3>3. s[j - 1][1] = "door"
      BY <2>2, <3>2 DEF Follows
    <3>4. CASE j - 1 = 1
      <4>1. s[1][1] = verb
        BY <1>3
      <4> QED BY <1>7, <2>2, <3>3, <3>4, <4>1
    <3>5. CASE j - 1 # 1
      BY <1>4, <3>1, <3>3, <3>5
    <3> QED BY <3>4, <3>5
  <2> QED BY <1>5, <2>1, <2>2 DEF Lookers
<1>9. ASSUME A("sweep") \in ToSet(t) PROVE A("scan") \in ToSet(t)
  <2>1. verb \in {"moveclaim", "movelease"}
    <3>1. verb # "lock"
      BY DEF Watched
    <3> QED BY <1>9, <3>1, NoSweepRest DEF t
  <2>2. Comes(s, 1, {"scan"}, {})
    BY <1>1, <1>3, <2>1 DEF Shape, Leads, Repairing
  <2>3. PICK k \in 1..Len(s) : s[k][1] = "scan"
    BY <2>2 DEF Comes
  <2>4. k # 1
    BY <1>3, <2>1, <2>3
  <2>5. Fits(s[1], s[k])
    <3>1. \A i, l \in 1..Len(s) : i < l => Fits(s[i], s[l])
      BY <1>1 DEF Shape, InOrder
    <3>2. 1 < k
      BY <1>3, <2>4
    <3> QED BY <1>3, <3>1, <3>2
  <2>6. s[k] = A("scan")
    BY <2>3, <2>5 DEF Fits
  <2> QED BY <1>4, <2>4, <2>6
<1> QED BY <1>7, <1>8, <1>9, NoRefusals DEF t

\* A step of p that is to be tidied up after.
LEMMA DoorGoes ==
    ASSUME TypeOK, DoorUp, NEW p \in Process, Others(p), Excuse(FALSE),
           \/ Counts(proc'[p], Snapshot')
           \/ /\ UNCHANGED <<door, Snapshot>>
              /\ Counts(proc[p], Snapshot) => Counts(proc'[p], Snapshot)
    PROVE  DoorUp'
<1>1. behind' = (door' # Snapshot' /\ behind)
  BY DEF Excuse
<1>2. CASE Counts(proc'[p], Snapshot')
  BY <1>2 DEF DoorUp
<1>3. CASE /\ UNCHANGED <<door, Snapshot>>
           /\ Counts(proc[p], Snapshot) => Counts(proc'[p], Snapshot)
  <2>1. CASE door = Snapshot \/ behind
    BY <1>1, <1>3, <2>1 DEF DoorUp
  <2>2. ASSUME NEW q \in Process, Counts(proc[q], Snapshot) PROVE DoorUp'
    <3>1. CASE q = p
      BY <1>3, <2>2, <3>1 DEF DoorUp
    <3>2. CASE q # p
      <4>1. proc'[q].todo = proc[q].todo /\ proc'[q].seen = proc[q].seen
        BY <3>2, OthersTodo
      <4>2. Counts(proc'[q], Snapshot)
        BY <2>2, <4>1 DEF Counts
      <4> QED BY <1>3, <4>2 DEF DoorUp
    <3> QED BY <3>1, <3>2
  <2> QED BY <2>1, <2>2 DEF DoorUp
<1> QED BY <1>2, <1>3

LEMMA FilesSame ==
    ASSUME UNCHANGED files
    PROVE  UNCHANGED <<door, Snapshot>>
BY DEF files, Snapshot, Stale, Up

\* What is left after a step that changes nothing the door shows.
LEMMA CountsRest ==
    ASSUME TypeOK, NEW p \in Process, NEW verb, NEW c, Takes(p, verb, c),
           verb \notin {"decide", "scan", "door", "check"}, NEW snap, Counts(proc[p], snap),
           proc'[p].todo = Rest(p), Rest(p) # <<>> => proc'[p].seen = proc[p].seen
    PROVE  Counts(proc'[p], snap)
<1>1. ToSet(proc[p].todo) = ToSet(Rest(p)) \cup {<<verb, c>>}
  BY TakesSet
<1>2. ASSUME NEW v \in {"decide", "scan", "door", "check"}, NEW x \in ToSet(proc[p].todo), x[1] = v
      PROVE  x \in ToSet(Rest(p))
  BY <1>1, <1>2
<1>3. A("scan") \in ToSet(proc[p].todo) => A("scan") \in ToSet(Rest(p))
  <2>1. A("scan")[1] = "scan"
    BY DEF A
  <2> QED BY <1>2, <2>1
<1>4. \A x : x \in ToSet(Rest(p)) => Rest(p) # <<>>
  BY DEF ToSet
<1>5. \/ \E x \in ToSet(Rest(p)) : x[1] \in {"decide", "scan", "door"}
      \/ proc'[p].seen # snap /\ \E x \in ToSet(Rest(p)) : x[1] = "check"
  BY <1>2, <1>4 DEF Counts
<1>6. A("sweep") \in ToSet(Rest(p)) => A("scan") \in ToSet(Rest(p))
  BY <1>1, <1>3 DEF Counts
<1>7. \A x \in ToSet(Rest(p)) : x[1] \notin Refusable
  BY <1>1 DEF Counts
<1> QED BY <1>5, <1>6, <1>7 DEF Counts

LEMMA CountsDone ==
    ASSUME TypeOK, NEW p \in Process, NEW verb, NEW c, Takes(p, verb, c), Done(p),
           verb \notin {"decide", "scan", "door", "check"}, NEW snap, Counts(proc[p], snap)
    PROVE  Counts(proc'[p], snap)
BY CountsRest, DoneTodo

\* What is left after a step that changes something of it.
LEMMA CountsWatched ==
    ASSUME TypeOK, SectionInv, NEW p \in Process, NEW verb, NEW c, Takes(p, verb, c),
           verb \in Watched \ {"door"} \/ (verb = "join" /\ ~ByWait(p)),
           NEW more, ToSet(proc'[p].todo) = ToSet(Rest(p)) \cup more, A("sweep") \notin more,
           \A x \in more : x[1] \notin Refusable, NEW snap
    PROVE  Counts(proc'[p], snap)
BY WatchedRest DEF Counts

LEMMA WatchedLeft ==
    ASSUME TypeOK, SectionInv, NEW p \in Process, NEW verb, NEW c, Takes(p, verb, c),
           verb \in Watched \ {"door"} \/ (verb = "join" /\ ~ByWait(p)),
           proc'[p].todo = Rest(p), NEW snap
    PROVE  Counts(proc'[p], snap)
BY WatchedRest DEF Counts

LEMMA WatchedDone ==
    ASSUME TypeOK, SectionInv, NEW p \in Process, NEW verb \in Watched \ {"door"}, NEW c, Takes(p, verb, c),
           Done(p), NEW snap
    PROVE  Counts(proc'[p], snap)
BY WatchedLeft, DoneTodo

\* The door is written: whoever has more to do looks at it.
LEMMA CountsDoor ==
    ASSUME TypeOK, SectionInv, NEW p \in Process, WriteDoor(p)
    PROVE  door' = Snapshot' \/ Counts(proc'[p], Snapshot')
<1>1. Takes(p, "door", None) /\ Done(p) /\ door' = proc[p].seen
  BY DEF WriteDoor
<1>2. proc'[p].todo = Rest(p) /\ (Rest(p) # <<>> => proc'[p].seen = proc[p].seen)
  BY <1>1, DoneTodo
<1>3. /\ Rest(p) # <<>>
      /\ \A x \in ToSet(Rest(p)) : x[1] \notin Refusable
      /\ A("sweep") \in ToSet(Rest(p)) => A("scan") \in ToSet(Rest(p))
      /\ \/ \E x \in ToSet(Rest(p)) : x[1] \in {"decide", "scan", "door"}
         \/ \E x \in ToSet(Rest(p)) : x[1] = "check"
  <2>1. "door" \in Watched
    BY DEF Watched
  <2> QED BY <1>1, <2>1, WatchedRest
<1> QED BY <1>1, <1>2, <1>3 DEF Counts

LEMMA CountsSweep ==
    ASSUME TypeOK, SectionInv, SweepInv, NEW p \in Process, Sweep(p), NEW snap, Counts(proc[p], snap)
    PROVE  Counts(proc'[p], snap)
<1>1. Takes(p, "sweep", None)
  BY DEF Sweep
<1>2. ToSet(proc[p].todo) = ToSet(Rest(p)) \cup {<<"sweep", None>>}
  BY <1>1, TakesSet
<1>3. ~Unreadable
  <2>1. ASSUME NEW c \in Card, claim[c] = "torn" PROVE FALSE
    <3>1. A("sweep") \in ToSet(proc[p].todo)
      BY <1>2 DEF A
    <3>2. <<"moveclaim", c>> \in ToSet(proc[p].todo)
      BY <2>1, <3>1 DEF SweepInv, Counts
    <3>3. <<"moveclaim", c>> \in ToSet(Rest(p))
      BY <1>2, <3>2
    <3>4. <<"moveclaim", c>> \in ToSet(Rest(p)) => "sweep" = "moveclaim"
      BY <1>1, RestFits
    <3> QED BY <3>3, <3>4
  <2> QED BY <2>1 DEF Unreadable
<1>4. PICK todo : /\ Section(p, todo)
                  /\ ToSet(todo) = ({"reap"} \X {c \in Card : Stale(c)}) \cup ToSet(Rest(p))
  BY <1>3, SweepSection
<1>5. ToSet(proc'[p].todo) = ToSet(Rest(p)) \cup ({"reap"} \X {c \in Card : Stale(c)})
  BY <1>4 DEF Section
<1>6. A("sweep") \notin {"reap"} \X {c \in Card : Stale(c)}
  BY DEF A
<1>7. "sweep" \in Watched \ {"door"}
  BY DEF Watched
<1>8. \A x \in {"reap"} \X {c \in Card : Stale(c)} : x[1] \notin Refusable
  BY DEF Refusable
<1> HIDE DEF Stale
<1> QED BY <1>1, <1>5, <1>6, <1>7, <1>8, CountsWatched

LEMMA CountsNew ==
    ASSUME TypeOK, SectionInv, NEW p \in Process, NEW snap,
           Decide(p) \/ Scan(p) \/ LookAgain(p)
    PROVE  Counts(proc'[p], snap)
<1>1. CASE Decide(p)
  <2>1. PICK todo : Section(p, todo) /\ Decided(todo)
    BY <1>1, DecideSection
  <2>2. A("sweep") \notin ToSet(todo) /\ \A x \in ToSet(todo) : x[1] \notin Refusable
    BY <2>1 DEF Decided, Refusable, A
  <2>3. todo \in Seq(Step) /\ Shape(todo) /\ Len(todo) \in Nat
    BY <2>1, LenProperties DEF Decided
  <2>4. PICK i \in 2..Len(todo) : todo[i] = A("check")
    BY <2>1 DEF Decided
  <2>5. i - 1 \in 1..Len(todo) /\ i \in 1..Len(todo) /\ i = (i - 1) + 1
    BY <2>3
  <2>6. todo[i - 1][1] = "door"
    <3>1. \A k, l \in 1..Len(todo) : l = k + 1 => Follows(todo[k], todo[l])
      BY <2>3 DEF Shape, InOrder
    <3>2. Follows(todo[i - 1], todo[i])
      BY <2>5, <3>1
    <3> QED BY <2>4, <3>2 DEF Follows, A
  <2>7. todo[i - 1] \in ToSet(todo)
    BY <2>3, <2>5, ToSetFacts
  <2> QED BY <2>1, <2>2, <2>6, <2>7 DEF Counts, Section
<1>2. CASE Scan(p)
  <2>1. proc'[p].todo = ToRepair /\ junk \in BOOLEAN
    BY <1>2, ScanSection DEF Section, TypeOK
  <2>2. A("scan") \in ToSet(ToRepair)
    BY <2>1, RepairsFacts
  <2>3. A("scan")[1] = "scan"
    BY DEF A
  <2>4. \A x \in ToSet(ToRepair) : x[1] \notin Refusable
    <3>1. \A v \in Verb : A(v)[1] = v
      BY DEF A
    <3>2. \A x \in ToSet(ToRepair) :
              x[1] \in {"moveclaim", "movelease", "lock", "sweep", "unlock", "mend", "orphan", "tmp", "break",
                        "snap", "door", "scan"}
      BY <2>1, <3>1, RepairsFacts DEF Verb
    <3> QED BY <3>2 DEF Refusable
  <2> QED BY <2>1, <2>2, <2>3, <2>4 DEF Counts
<1>3. CASE LookAgain(p)
  <2>1. Takes(p, "check", None)
    BY <1>3 DEF LookAgain
  <2>2. ToSet(proc'[p].todo) = {A("snap"), A("door"), A("check")} \cup ToSet(Rest(p))
    <3>1. /\ proc'[p].todo = Render \o Rest(p)
          /\ ToSet(Render \o Rest(p)) = {A("snap"), A("door"), A("check")} \cup ToSet(Rest(p))
      BY <1>3, LookAgainSection DEF Section
    <3> HIDE DEF Render
    <3> QED BY <3>1
  <2>3. A("sweep") \notin ToSet(Rest(p))
    BY <2>1, NoSweepRest
  <2>4. A("sweep") \notin {A("snap"), A("door"), A("check")} /\ A("door")[1] = "door"
    BY DEF A
  <2>5. \A x \in {A("snap"), A("door"), A("check")} \cup ToSet(Rest(p)) : x[1] \notin Refusable
    BY <2>1, NoRefusals DEF A, Refusable
  <2> QED BY <2>2, <2>3, <2>4, <2>5 DEF Counts
<1> QED BY <1>1, <1>2, <1>3

\* The door is as it should be: one that looked at it need not do so again.
LEMMA CountsRendered ==
    ASSUME TypeOK, SectionInv, NEW p \in Process, Rendered(p), Counts(proc[p], Snapshot)
    PROVE  Counts(proc'[p], Snapshot)
<1>1. Takes(p, "check", None) /\ Forgets(p) /\ mutex' = mutex /\ proc[p].seen = Snapshot
  BY DEF Rendered, Converged
<1>2. proc'[p].todo = Rest(p)
  BY <1>1, ForgetsSection DEF Section
<1>3. ToSet(proc[p].todo) = ToSet(Rest(p)) \cup {<<"check", None>>}
  BY <1>1, TakesSet
<1>4. \E x \in ToSet(Rest(p)) : x[1] \in {"decide", "scan", "door"}
  BY <1>1, <1>3 DEF Counts
<1>5. A("sweep") \notin ToSet(Rest(p))
  BY <1>1, NoSweepRest
<1>6. \A x \in ToSet(Rest(p)) : x[1] \notin Refusable
  BY <1>1, NoRefusals
<1> QED BY <1>2, <1>4, <1>5, <1>6 DEF Counts

LEMMA DoorStep ==
    ASSUME TypeOK, SectionInv, CardInv, SweepInv, DoorUp, NEW p \in Process, Tended(p), Excuse(FALSE)
    PROVE  DoorUp'
<1>0. Others(p)
  BY StepOthers
<1>1. ASSUME Counts(proc'[p], Snapshot') PROVE DoorUp'
  BY <1>0, <1>1, DoorGoes
<1>2. ASSUME UNCHANGED files, Counts(proc[p], Snapshot) => Counts(proc'[p], Snapshot) PROVE DoorUp'
  BY <1>0, <1>2, FilesSame, DoorGoes
<1>3. ASSUME UNCHANGED files, NEW verb, NEW c, Takes(p, verb, c), Done(p),
             verb \notin {"decide", "scan", "door", "check"}
      PROVE  DoorUp'
  <2>1. Counts(proc[p], Snapshot) => Counts(proc'[p], Snapshot)
    BY <1>3, CountsDone
  <2> QED BY <1>2, <1>3, <2>1
<1>4. ASSUME NEW verb \in Watched \ {"door"}, NEW c, Takes(p, verb, c), Done(p) PROVE DoorUp'
  <2>1. \A snap : Counts(proc'[p], snap)
    BY <1>4, WatchedDone
  <2> QED BY <1>1, <2>1
<1>5. CASE Command(p) \/ Doctor(p)
  <2>1. UNCHANGED files /\ proc[p].todo = <<>>
    BY <1>5, CommandSection, DoctorSection
  <2>2. ToSet(<<>>) = {}
    BY DEF ToSet
  <2>3. ~Counts(proc[p], Snapshot)
    BY <2>1, <2>2 DEF Counts
  <2> QED BY <1>2, <2>1, <2>3
<1>6. CASE Lock(p) \/ Unlock(p) \/ Report(p) \/ BreakMutex(p)
  <2>1. \E verb \in {"lock", "unlock", "report", "break"} : Takes(p, verb, None)
    BY <1>6 DEF Lock, Unlock, Report, BreakMutex
  <2>2. UNCHANGED files /\ Done(p)
    BY <1>6 DEF Lock, Unlock, Report, BreakMutex
  <2> QED BY <1>3, <2>1, <2>2
<1>7. CASE Sweep(p)
  <2>1. UNCHANGED files
    BY <1>7 DEF Sweep
  <2>2. Counts(proc[p], Snapshot) => Counts(proc'[p], Snapshot)
    BY <1>7, CountsSweep
  <2> QED BY <1>2, <2>1, <2>2
<1>8. CASE Decide(p) \/ Scan(p) \/ LookAgain(p)
  <2>1. \A snap : Counts(proc'[p], snap)
    BY <1>8, CountsNew
  <2> QED BY <1>1, <2>1
<1>9. CASE Pin(p)
  BY <1>4, <1>9 DEF Pin, Watched
<1>10. CASE TakeSnapshot(p)
  <2>1. Takes(p, "snap", None) /\ proc'[p].todo = Rest(p) /\ "snap" \in Watched \ {"door"}
    BY <1>10, TakeSnapshotSection, SnapshotType DEF TakeSnapshot, Section, Watched
  <2>2. \A snap : Counts(proc'[p], snap)
    BY <2>1, WatchedLeft
  <2> QED BY <1>1, <2>2
<1>11. CASE WriteDoor(p)
  <2>1. door' = Snapshot' \/ Counts(proc'[p], Snapshot')
    BY <1>11, CountsDoor
  <2> QED BY <1>1, <2>1 DEF DoorUp
<1>12. CASE Rendered(p)
  <2>1. UNCHANGED files
    BY <1>12 DEF Rendered
  <2> QED BY <1>2, <1>12, <2>1, CountsRendered
<1>13. CASE ClearTmp(p)
  <2>1. Takes(p, "tmp", None) /\ UNCHANGED <<claim, lease, queue, notes, door>>
    BY <1>13 DEF ClearTmp
  <2>2. UNCHANGED <<door, Snapshot>>
    BY <2>1 DEF Snapshot, Stale, Up
  <2>3. proc'[p].todo = Rest(p) /\ proc'[p].seen = proc[p].seen
    BY <1>13, ClearTmpSection DEF Section
  <2>4. Counts(proc[p], Snapshot) => Counts(proc'[p], Snapshot)
    BY <2>1, <2>3, CountsRest
  <2> QED BY <1>0, <2>2, <2>4, DoorGoes
<1>14. ASSUME NEW c \in Card, Reap(p, c) PROVE DoorUp'
  <2>1. Takes(p, "reap", c) /\ "reap" \in Watched \ {"door"}
    BY <1>14 DEF Reap, Watched
  <2>2. ToSet(proc'[p].todo) = ToSet(Rest(p)) \cup {<<"down", c>>, <<"drop", c>>, <<"clear", c>>, A("pin")}
    <3>1. /\ proc'[p].todo = Archive(c) \o Rest(p)
          /\ ToSet(Archive(c) \o Rest(p)) =
               {<<"down", c>>, <<"drop", c>>, <<"clear", c>>, A("pin")} \cup ToSet(Rest(p))
      BY <1>14, ReapSection DEF Section
    <3> HIDE DEF Archive
    <3> QED BY <3>1
  <2>3. \A x \in {<<"down", c>>, <<"drop", c>>, <<"clear", c>>, A("pin")} :
            x # A("sweep") /\ x[1] \notin Refusable
    BY DEF A, Refusable
  <2>4. \A snap : Counts(proc'[p], snap)
    BY <2>1, <2>2, <2>3, CountsWatched
  <2> QED BY <1>1, <2>4
<1>15. ASSUME NEW c \in Card, Mend(p, c) PROVE DoorUp'
  <2>1. Takes(p, "mend", c) /\ "mend" \in Watched \ {"door"}
    BY <1>15 DEF Mend, Watched
  <2>2. ToSet(proc'[p].todo) = ToSet(Rest(p)) \cup (IF Up(c) THEN {<<"lease", c>>} ELSE {})
    BY <1>15, MendSection DEF Section
  <2>3. \A x \in (IF Up(c) THEN {<<"lease", c>>} ELSE {}) : x # A("sweep") /\ x[1] \notin Refusable
    BY DEF A, Refusable
  <2>4. \A snap : Counts(proc'[p], snap)
    BY <2>1, <2>2, <2>3, CountsWatched
  <2> QED BY <1>1, <2>4
<1>16. ASSUME NEW c \in Card, ReadOwn(p, c) PROVE DoorUp'
  BY <1>3, <1>16 DEF ReadOwn
<1>17. CASE Refuse(p)
  <2>1. UNCHANGED files
    BY <1>17 DEF Refuse
  <2>2. PICK c \in Card :
          \/ \E verb \in Refusable : Takes(p, verb, c)
          \/ Takes(p, "mend", c) /\ claim[c] = "torn"
    BY <1>17 DEF Refuse, Refusable
  <2>3. ~(Takes(p, "mend", c) /\ claim[c] = "torn")
    <3> SUFFICES ASSUME Takes(p, "mend", c) PROVE claim[c] # "torn"
      OBVIOUS
    <3>1. <<"mend", c>> \in ToSet(proc[p].todo)
      BY TakesSet
    <3>2. Keeps(ToSet(proc[p].todo), c, claim[c], c \in kept)
      BY DEF CardInv
    <3> QED BY <3>1, <3>2 DEF Keeps
  <2>4. PICK verb \in Refusable : Takes(p, verb, c)
    BY <2>2, <2>3
  <2>5. <<verb, c>> \in ToSet(proc[p].todo)
    BY <2>4, TakesSet
  <2>6. ~Counts(proc[p], Snapshot)
    BY <2>5 DEF Counts
  <2> QED BY <1>2, <2>1, <2>6
<1>18. ASSUME NEW c \in Card, NEW e \in Entry, JoinQueue(p, c, e) /\ ~ByWait(p) PROVE DoorUp'
  <2>1. Takes(p, "join", c) /\ proc'[p].todo = Rest(p)
    BY <1>18, JoinQueueSection DEF JoinQueue, Section
  <2>2. \A snap : Counts(proc'[p], snap)
    BY <1>18, <2>1, WatchedLeft
  <2> QED BY <1>1, <2>2
<1>19. ASSUME NEW c \in Card,
              \/ SaveClaim(p, c) \/ LeaseCard(p, c) \/ Renew(p, c) \/ TakeDown(p, c) \/ DropLease(p, c)
              \/ ClearQueueFor(p, c) \/ MoveClaim(p, c) \/ MoveLease(p, c) \/ DropOrphan(p, c)
       PROVE  DoorUp'
  <2>1. Done(p)
    BY <1>19 DEF SaveClaim, LeaseCard, Renew, TakeDown, DropLease, ClearQueueFor, MoveClaim, MoveLease, DropOrphan
  <2>2. \E verb \in {"save", "lease", "renew", "down", "drop", "clear", "moveclaim", "movelease", "orphan"} :
            Takes(p, verb, c)
    BY <1>19 DEF SaveClaim, LeaseCard, Renew, TakeDown, DropLease, ClearQueueFor, MoveClaim, MoveLease, DropOrphan
  <2>3. {"save", "lease", "renew", "down", "drop", "clear", "moveclaim", "movelease", "orphan"}
            \subseteq Watched \ {"door"}
    BY DEF Watched
  <2> QED BY <1>4, <2>1, <2>2, <2>3
<1>20. CASE \E c \in Card :
              \/ Reap(p, c) \/ SaveClaim(p, c) \/ LeaseCard(p, c) \/ Renew(p, c) \/ ReadOwn(p, c)
              \/ TakeDown(p, c) \/ DropLease(p, c) \/ ClearQueueFor(p, c)
              \/ MoveClaim(p, c) \/ MoveLease(p, c) \/ Mend(p, c) \/ DropOrphan(p, c)
  BY <1>14, <1>15, <1>16, <1>19, <1>20
<1>21. CASE Command(p) \/ Doctor(p) \/ Lock(p) \/ Unlock(p) \/ Sweep(p) \/ Decide(p) \/ Pin(p)
  BY <1>5, <1>6, <1>7, <1>8, <1>9, <1>21
<1>22. CASE \/ TakeSnapshot(p) \/ WriteDoor(p) \/ LookAgain(p) \/ Rendered(p)
            \/ Scan(p) \/ Report(p) \/ ClearTmp(p) \/ BreakMutex(p) \/ Refuse(p)
  BY <1>6, <1>8, <1>10, <1>11, <1>12, <1>13, <1>22, <1>17
<1> QED BY <1>20, <1>21, <1>22, <1>18 DEF Tended

LEMMA DoorNext ==
    ASSUME TypeOK, SectionInv, CardInv, SweepInv, DoorUp, [Next]_vars
    PROVE  DoorUp'
<1>1. ASSUME Excuse(TRUE) PROVE DoorUp'
  BY <1>1 DEF Excuse, DoorUp
<1>2. ASSUME NEW p \in Process, Tended(p), Excuse(FALSE) PROVE DoorUp'
  BY <1>2, DoorStep
<1>3. CASE UNCHANGED vars
  <2>1. UNCHANGED <<door, behind, proc, Snapshot>>
    BY <1>3 DEF vars, Snapshot, Stale, Up
  <2> QED BY <2>1 DEF DoorUp
<1>4. CASE AgeMutex /\ Excuse(FALSE)
  <2>1. UNCHANGED <<door, proc, Snapshot>>
    BY <1>4 DEF AgeMutex, files, Snapshot, Stale, Up
  <2> QED BY <1>4, <2>1 DEF Excuse, DoorUp
<1> QED BY <1>1, <1>2, <1>3, <1>4 DEF Next

\* A door to write is looked at again, or scanned for.
LEMMA CountsRender ==
    ASSUME TypeOK, SectionInv, NEW p \in Process, NEW snap, Counts(proc[p], snap)
    PROVE  ToRender(p)
<1> DEFINE s == proc[p].todo
<1>1. proc[p] \in Memory
  BY DEF TypeOK
<1>2. s \in Seq(Step) /\ Shape(s)
  BY <1>1, MemoryFacts DEF SectionInv
<1>3. PICK x \in ToSet(s) : x[1] \in {"decide", "scan", "door", "check"}
  BY DEF Counts
<1>4. PICK i \in 1..Len(s) : s[i] = x
  BY <1>2, <1>3, ToSetFacts
<1>5. ASSUME x[1] = "door" PROVE \E j \in 1..Len(s) : s[j][1] \in Lookers
  <2>1. Comes(s, i, Lookers, {})
    BY <1>2, <1>4, <1>5 DEF Shape, Leads, Watched
  <2>2. PICK j \in i..Len(s) : s[j][1] \in Lookers
    BY <2>1 DEF Comes
  <2>3. j \in 1..Len(s)
    BY <1>4
  <2> QED BY <2>2, <2>3
<1>6. \E j \in 1..Len(s) : s[j][1] \in Lookers
  BY <1>3, <1>4, <1>5 DEF Lookers
<1> QED BY <1>6 DEF ToRender, Lookers

\* Whatever renderers, sweeps, doctors and commands do to each other: when the door is not
\* that of the present state, somebody is about to look at it, or it is excused.
THEOREM DoorIsKeptUp == Spec => []DoorKeepsUp
<1>1. Init => SweepInv /\ DoorUp
  <2> SUFFICES ASSUME Init PROVE SweepInv /\ DoorUp
    OBVIOUS
  <2>1. \A p \in Process : proc[p].todo = <<>>
    BY MemoryFacts DEF Init
  <2>2. ToSet(<<>>) = {}
    BY DEF ToSet
  <2> QED BY <2>1, <2>2 DEF Init, SweepInv, DoorUp
<1>2. UpkeepInv /\ SweepInv /\ DoorUp /\ [Next]_vars => (SweepInv /\ DoorUp)'
  BY SweepNext, DoorNext DEF UpkeepInv
<1>3. UpkeepInv /\ DoorUp => DoorKeepsUp
  BY CountsRender DEF UpkeepInv, DoorUp, DoorKeepsUp
<1> QED BY <1>1, <1>2, <1>3, UpkeepInvariant, PTL DEF Spec

-----------------------------------------------------------------------------
(* A doctor that has the workspace to itself. *)

\* What a doctor knows of a card with these files, that has these steps left: it is to
\* repair whatever it could find.
Cured(steps, c, file, paper) ==
    /\ file = "torn" => <<"moveclaim", c>> \in steps
    /\ paper = "torn" => <<"movelease", c>> \in steps
    /\ <<"movelease", c>> \in steps => paper \notin Readable
    /\ file \in Readable /\ (IF paper \in Readable THEN paper ELSE file) = "old" =>
          A("sweep") \in steps \/ <<"reap", c>> \in steps \/ <<"down", c>> \in steps
    /\ file \in Readable /\ paper \notin Readable => <<"mend", c>> \in steps \/ <<"lease", c>> \in steps

Found(steps, claims, leases, junky, holder) ==
    /\ \A c \in Card : Cured(steps, c, claims[c], leases[c])
    /\ junky = TRUE => A("tmp") \in steps
    /\ holder = "dead" => A("break") \in steps
    /\ holder = "recent" /\ A("lock") \in steps => A("break") \in steps

\* In the end there are only leases without a card to unlink, the mutex to break if it can be
\* broken, and the door to write.
OnlyOrphans(steps, seen, claims, leases, rendered, snap) ==
    /\ \A x \in steps : x[1] \in {"orphan", "break", "snap", "door", "scan"}
    /\ \A c \in Card : leases[c] \in Readable /\ claims[c] \notin Readable \cup {"torn"} =>
          <<"orphan", c>> \in steps
    /\ rendered = snap \/ \E x \in steps : x[1] = "door"
    /\ (\E x \in steps : x[1] = "door") /\ (\A x \in steps : x[1] # "snap") => seen = snap

\* There is nothing to repair, but for a mutex that is not old enough.
Healed == Repairs = <<>> \/ (mutex = "recent" /\ Repairs = << A("break") >>)

Healing(p) ==
    LET steps == ToSet(proc[p].todo)
    IN  /\ A("scan") \in steps =>
              /\ proc[p].rounds \in 1..5
              /\ proc[p].rounds = 5 => proc[p].todo = << A("scan") >>
              /\ proc[p].rounds \in 1..4 => Found(steps, claim, lease, junk, mutex)
              /\ proc[p].rounds \in 1..3 => OnlyOrphans(steps, proc[p].seen, claim, lease, door, Snapshot)
        /\ A("report") \in steps => Healed

HealInv == \A p \in Process : alone = p => Healing(p)

LEMMA CuredLess ==
    ASSUME NEW rest, NEW x, NEW c, NEW file, NEW paper, Cured(rest \cup {x}, c, file, paper),
           x \notin { <<"moveclaim", c>>, <<"movelease", c>>, A("sweep"), <<"reap", c>>, <<"down", c>>,
                      <<"mend", c>>, <<"lease", c>> }
    PROVE  Cured(rest, c, file, paper)
BY DEF Cured

LEMMA CuredMore ==
    ASSUME NEW rest, NEW more, NEW c, NEW file, NEW paper, Cured(rest, c, file, paper),
           <<"movelease", c>> \notin more
    PROVE  Cured(rest \cup more, c, file, paper)
BY DEF Cured

\* A step of p only matters to p: the others are not alone any more.
LEMMA HealGoes ==
    ASSUME HealInv, NEW p \in Process, Alone(p),
           alone = p \/ Doctor(p) => Healing(p)'
    PROVE  HealInv'
<1>1. alone' \in {p, None} /\ (alone' = p => alone = p \/ Doctor(p))
  BY NoneAssumption DEF Alone
<1>2. \A q \in Process : alone' = q => q = p
  BY <1>1, NoneAssumption
<1> QED BY <1>1, <1>2 DEF HealInv

\* The doctor has no step left that it would have to say something about.
LEMMA HealNothing ==
    ASSUME HealInv, NEW p \in Process, Alone(p), A("scan") \notin ToSet(proc'[p].todo),
           A("report") \notin ToSet(proc'[p].todo)
    PROVE  HealInv'
<1>1. Healing(p)'
  BY DEF Healing
<1> QED BY <1>1, HealGoes

\* The doctor in between of two scans.
LEMMA Between ==
    ASSUME TypeOK, SectionInv, HealInv, NEW p \in Process, alone = p,
           NEW verb, NEW c, Takes(p, verb, c), A("scan") \in ToSet(Rest(p))
    PROVE  /\ ToSet(proc[p].todo) = ToSet(Rest(p)) \cup {<<verb, c>>}
           /\ Rest(p) # <<>> /\ proc[p].rounds \in 1..4
           /\ Found(ToSet(Rest(p)) \cup {<<verb, c>>}, claim, lease, junk, mutex)
           /\ proc[p].rounds \in 1..3 =>
                /\ OnlyOrphans(ToSet(Rest(p)) \cup {<<verb, c>>}, proc[p].seen, claim, lease, door, Snapshot)
                /\ verb \in {"orphan", "break", "snap", "door"}
           /\ verb \notin {"check", "save", "read", "renew", "beat", "join", "leave", "decide", "scan", "report"}
           /\ <<"movelease", c>> \in ToSet(Rest(p)) => verb \in {"moveclaim", "movelease"}
           /\ A("report") \notin ToSet(Rest(p))
<1>1. ToSet(proc[p].todo) = ToSet(Rest(p)) \cup {<<verb, c>>}
  BY TakesSet
<1>2. \A y \in ToSet(Rest(p)) : Fits(<<verb, c>>, y)
  BY RestShape
<1>3. verb \notin {"check", "save", "read", "renew", "beat", "join", "leave", "decide", "scan", "report"}
  <2>1. Fits(<<verb, c>>, A("scan"))
    BY <1>2
  <2> QED BY <2>1 DEF Fits, A
<1>4. <<"movelease", c>> \in ToSet(Rest(p)) => verb \in {"moveclaim", "movelease"}
  BY <1>2 DEF Fits
<1>5. A("report") \notin ToSet(Rest(p))
  BY <1>2 DEF Fits, A
<1>6. Rest(p) # <<>>
  <2>1. ToSet(<<>>) = {}
    BY DEF ToSet
  <2> QED BY <2>1
<1>7. Healing(p) /\ A("scan") \in ToSet(proc[p].todo)
  BY <1>1 DEF HealInv
<1>8. proc[p].rounds # 5
  <2>1. ASSUME proc[p].todo = << A("scan") >> PROVE FALSE
    <3>1. ToSet(<< A("scan") >>) = {A("scan")}
      BY DEF ToSet
    <3>2. <<verb, c>> \in ToSet(proc[p].todo)
      BY <1>1
    <3>3. <<verb, c>> = A("scan")
      BY <2>1, <3>1, <3>2
    <3> QED BY <1>3, <3>3 DEF A
  <2> QED BY <1>7, <2>1 DEF Healing
<1>9. /\ proc[p].rounds \in 1..4 /\ Found(ToSet(proc[p].todo), claim, lease, junk, mutex)
      /\ proc[p].rounds \in 1..3 => OnlyOrphans(ToSet(proc[p].todo), proc[p].seen, claim, lease, door, Snapshot)
  <2>1. proc[p].rounds \in 1..5
    BY <1>7 DEF Healing
  <2>2. proc[p].rounds \in 1..4
    BY <1>8, <2>1
  <2> QED BY <1>7, <2>2 DEF Healing
<1>10. proc[p].rounds \in 1..3 => verb \in {"orphan", "break", "snap", "door"}
  <2>1. OnlyOrphans(ToSet(Rest(p)) \cup {<<verb, c>>}, proc[p].seen, claim, lease, door, Snapshot) =>
            verb \in {"orphan", "break", "snap", "door", "scan"}
    BY DEF OnlyOrphans
  <2> QED BY <1>1, <1>3, <1>9, <2>1
<1> QED BY <1>1, <1>3, <1>4, <1>5, <1>6, <1>9, <1>10

\* A step in between keeps what the doctor knows.
LEMMA HealBetween ==
    ASSUME HealInv, NEW p \in Process, Alone(p), ~Doctor(p), proc'[p].rounds \in 1..4,
           alone = p => Found(ToSet(proc'[p].todo), claim', lease', junk', mutex'),
           A("report") \notin ToSet(proc'[p].todo),
           alone = p /\ proc'[p].rounds \in 1..3 =>
              OnlyOrphans(ToSet(proc'[p].todo), proc'[p].seen, claim', lease', door', Snapshot')
    PROVE  HealInv'
<1>1. ASSUME alone = p PROVE Healing(p)'
  BY <1>1 DEF Healing
<1> QED BY <1>1, HealGoes

LEMMA NotDoctor ==
    ASSUME NEW p, NEW verb, NEW c, Takes(p, verb, c)
    PROVE  ~Doctor(p)
BY DEF Takes, Doctor

\* The doctor has done one step, and goes on with the others that it had.
LEMMA HealRest ==
    ASSUME TypeOK, SectionInv, HealInv, NEW p \in Process, Alone(p), NEW verb, NEW c, Takes(p, verb, c),
           proc'[p].todo = Rest(p), Rest(p) # <<>> => proc'[p].rounds = proc[p].rounds,
           alone = p /\ A("scan") \in ToSet(Rest(p)) => Found(ToSet(Rest(p)), claim', lease', junk', mutex'),
           alone = p /\ A("scan") \in ToSet(Rest(p)) /\ proc[p].rounds \in 1..3 =>
              OnlyOrphans(ToSet(Rest(p)), proc'[p].seen, claim', lease', door', Snapshot')
    PROVE  HealInv'
<1>1. ~Doctor(p)
  BY NotDoctor
<1>2. A("report") \notin ToSet(Rest(p))
  <2>1. \A y \in ToSet(Rest(p)) : Fits(<<verb, c>>, y)
    BY RestShape
  <2> QED BY <2>1 DEF Fits, A
<1>3. CASE A("scan") \notin ToSet(Rest(p))
  BY <1>2, <1>3, HealNothing
<1>4. CASE alone # p
  BY <1>1, <1>4, HealGoes
<1>5. CASE alone = p /\ A("scan") \in ToSet(Rest(p))
  <2>1. Rest(p) # <<>> /\ proc[p].rounds \in 1..4
    BY <1>5, Between
  <2> QED BY <1>1, <1>2, <1>5, <2>1, HealBetween
<1> QED BY <1>3, <1>4, <1>5

\* Steps that no doctor takes.
LEMMA HealNot ==
    ASSUME TypeOK, SectionInv, HealInv, NEW p \in Process, Alone(p),
           NEW verb \in {"check", "save", "read", "renew", "beat", "join", "leave", "report"}, NEW c,
           Takes(p, verb, c), proc'[p].todo = Rest(p)
    PROVE  HealInv'
<1>1. \A y \in ToSet(Rest(p)) : Fits(<<verb, c>>, y)
  BY RestShape
<1>2. A("scan") \notin ToSet(Rest(p)) /\ A("report") \notin ToSet(Rest(p))
  BY <1>1 DEF Fits, A
<1> QED BY <1>2, HealNothing

LEMMA FoundLess ==
    ASSUME NEW rest, NEW verb, NEW c, NEW claims, NEW leases, NEW junky, NEW holder,
           Found(rest \cup {<<verb, c>>}, claims, leases, junky, holder),
           verb \notin {"moveclaim", "movelease", "sweep", "reap", "down", "mend", "lease"},
           NEW junky2, NEW holder2,
           junky2 = TRUE => junky = TRUE /\ verb # "tmp", holder2 = "dead" => holder = "dead" /\ verb # "break",
           holder2 = "recent" => holder = "recent" /\ (verb = "break" => A("lock") \notin rest)
    PROVE  Found(rest, claims, leases, junky2, holder2)
<1>1. ASSUME NEW d \in Card PROVE Cured(rest, d, claims[d], leases[d])
  <2>1. <<verb, c>> \notin { <<"moveclaim", d>>, <<"movelease", d>>, A("sweep"), <<"reap", d>>, <<"down", d>>,
                            <<"mend", d>>, <<"lease", d>> }
    BY DEF A
  <2>2. Cured(rest \cup {<<verb, c>>}, d, claims[d], leases[d])
    BY DEF Found
  <2> QED BY <2>1, <2>2, CuredLess
<1>2. junky2 = TRUE => A("tmp") \in rest
  BY DEF Found, A
<1>3. holder2 = "dead" => A("break") \in rest
  BY DEF Found, A
<1>4. ASSUME holder2 = "recent", A("lock") \in rest PROVE A("break") \in rest
  <2>1. A("break") \in rest \cup {<<verb, c>>} /\ verb # "break"
    BY <1>4 DEF Found
  <2> QED BY <2>1 DEF A
<1> QED BY <1>1, <1>2, <1>3, <1>4 DEF Found

\* Steps with the mutex, with tmp/ and with pins.
LEMMA HealCalm ==
    ASSUME TypeOK, SectionInv, HealInv, NEW p \in Process, Alone(p), NEW verb, NEW c, Takes(p, verb, c),
           verb \in {"lock", "unlock", "pin", "clear", "tmp", "break"},
           proc'[p].todo = Rest(p), Rest(p) # <<>> => proc'[p].rounds = proc[p].rounds,
           UNCHANGED <<claim, lease>>, junk' = TRUE => junk = TRUE /\ verb # "tmp",
           mutex' = "dead" => mutex = "dead" /\ verb # "break", mutex' = "recent" => mutex = "recent",
           verb = "break" => UNCHANGED <<door, Snapshot>> /\ (Rest(p) # <<>> => proc'[p].seen = proc[p].seen)
    PROVE  HealInv'
<1>1. ASSUME alone = p, A("scan") \in ToSet(Rest(p))
      PROVE  /\ Found(ToSet(Rest(p)), claim', lease', junk', mutex')
             /\ proc[p].rounds \in 1..3 =>
                  OnlyOrphans(ToSet(Rest(p)), proc'[p].seen, claim', lease', door', Snapshot')
  <2>1. /\ Found(ToSet(Rest(p)) \cup {<<verb, c>>}, claim, lease, junk, mutex)
        /\ proc[p].rounds \in 1..3 =>
             /\ OnlyOrphans(ToSet(Rest(p)) \cup {<<verb, c>>}, proc[p].seen, claim, lease, door, Snapshot)
             /\ verb \in {"orphan", "break", "snap", "door"}
        /\ Rest(p) # <<>>
    BY <1>1, Between
  <2>2. verb \notin {"moveclaim", "movelease", "sweep", "reap", "down", "mend", "lease"}
    OBVIOUS
  <2>3. Found(ToSet(Rest(p)), claim, lease, junk', mutex')
    <3>1. verb = "break" => A("lock") \notin ToSet(Rest(p))
      <4>1. \A y \in ToSet(Rest(p)) : Fits(<<verb, c>>, y)
        BY RestShape
      <4> QED BY <4>1 DEF Fits, A
    <3> QED BY <2>1, <2>2, <3>1, FoundLess
  <2>4. ASSUME proc[p].rounds \in 1..3
        PROVE  OnlyOrphans(ToSet(Rest(p)), proc'[p].seen, claim', lease', door', Snapshot')
    <3>1. verb = "break" /\ OnlyOrphans(ToSet(Rest(p)) \cup {<<verb, c>>}, proc[p].seen, claim, lease, door, Snapshot)
      BY <2>1, <2>4
    <3>2. UNCHANGED <<door, Snapshot>> /\ proc'[p].seen = proc[p].seen
      BY <2>1, <3>1
    <3>3. OnlyOrphans(ToSet(Rest(p)), proc[p].seen, claim, lease, door, Snapshot)
      BY <3>1 DEF OnlyOrphans
    <3> QED BY <3>2, <3>3
  <2> QED BY <2>3, <2>4
<1> QED BY <1>1, HealRest

\* The doctor renders the door: nothing changes meanwhile.
LEMMA HealDoor ==
    ASSUME TypeOK, SectionInv, HealInv, NEW p \in Process, Alone(p), TakeSnapshot(p) \/ WriteDoor(p)
    PROVE  HealInv'
<1>1. UNCHANGED <<claim, lease, junk, mutex, Snapshot>>
  BY DEF TakeSnapshot, WriteDoor, files, Snapshot, Stale, Up
<1>2. CASE TakeSnapshot(p)
  <2>1. /\ Takes(p, "snap", None) /\ proc'[p].todo = Rest(p) /\ proc'[p].rounds = proc[p].rounds
        /\ proc'[p].seen = Snapshot /\ Len(Rest(p)) # 0 /\ Rest(p)[1][1] = "door" /\ door' = door
        /\ Rest(p) \in Seq(Step)
    BY <1>2, TakeSnapshotSection, SnapshotType DEF TakeSnapshot, Section, files
  <2>2. \E x \in ToSet(Rest(p)) : x[1] = "door"
    <3>1. 1 \in 1..Len(Rest(p))
      <4>1. Len(Rest(p)) \in Nat
        BY <2>1, LenProperties
      <4> QED BY <2>1, <4>1
    <3> QED BY <2>1, <3>1, ToSetFacts
  <2>3. ASSUME alone = p, A("scan") \in ToSet(Rest(p))
        PROVE  /\ Found(ToSet(Rest(p)), claim, lease, junk, mutex)
               /\ proc[p].rounds \in 1..3 =>
                    OnlyOrphans(ToSet(Rest(p)), Snapshot, claim, lease, door, Snapshot)
    <3>1. /\ Found(ToSet(Rest(p)) \cup {<<"snap", None>>}, claim, lease, junk, mutex)
          /\ proc[p].rounds \in 1..3 =>
               OnlyOrphans(ToSet(Rest(p)) \cup {<<"snap", None>>}, proc[p].seen, claim, lease, door, Snapshot)
      BY <2>1, <2>3, Between
    <3>2. "snap" \notin {"moveclaim", "movelease", "sweep", "reap", "down", "mend", "lease", "tmp", "break"}
      OBVIOUS
    <3>3. Found(ToSet(Rest(p)), claim, lease, junk, mutex)
      BY <3>1, <3>2, FoundLess
    <3> QED BY <2>2, <3>1, <3>3 DEF OnlyOrphans
  <2> QED BY <1>1, <2>1, <2>3, HealRest
<1>3. CASE WriteDoor(p)
  <2>1. /\ Takes(p, "door", None) /\ Done(p) /\ door' = proc[p].seen
    BY <1>3 DEF WriteDoor
  <2>2. /\ proc'[p].todo = Rest(p)
        /\ Rest(p) # <<>> => proc'[p].rounds = proc[p].rounds /\ proc'[p].seen = proc[p].seen
    BY <2>1, DoneTodo
  <2>3. ASSUME alone = p, A("scan") \in ToSet(Rest(p))
        PROVE  /\ Found(ToSet(Rest(p)), claim, lease, junk, mutex)
               /\ proc[p].rounds \in 1..3 =>
                    OnlyOrphans(ToSet(Rest(p)), proc'[p].seen, claim, lease, door', Snapshot)
    <3>1. /\ Found(ToSet(Rest(p)) \cup {<<"door", None>>}, claim, lease, junk, mutex)
          /\ proc[p].rounds \in 1..3 =>
               OnlyOrphans(ToSet(Rest(p)) \cup {<<"door", None>>}, proc[p].seen, claim, lease, door, Snapshot)
          /\ Rest(p) # <<>>
      BY <2>1, <2>3, Between
    <3>2. "door" \notin {"moveclaim", "movelease", "sweep", "reap", "down", "mend", "lease", "tmp", "break"}
      OBVIOUS
    <3>3. Found(ToSet(Rest(p)), claim, lease, junk, mutex)
      BY <3>1, <3>2, FoundLess
    <3>4. ASSUME proc[p].rounds \in 1..3
          PROVE  \A x \in ToSet(Rest(p)) : x[1] \notin {"snap", "door"}
      <4> DEFINE t == Rest(p)
      <4>1. t \in Seq(Step) /\ Shape(t) /\ Shape(proc[p].todo)
        BY <2>1, RestShape DEF SectionInv
      <4>2. /\ proc[p].todo \in Seq(Step) /\ proc[p].todo # <<>> /\ Head(proc[p].todo) = <<"door", None>>
            /\ t = Tail(proc[p].todo)
        <5>1. proc \in [Process -> Memory]
          BY DEF TypeOK
        <5> QED BY <2>1, <5>1, RestFacts
      <4>3. /\ Len(proc[p].todo) \in Nat /\ 1 \in 1..Len(proc[p].todo) /\ proc[p].todo[1] = <<"door", None>>
            /\ \A i \in 1..Len(t) : i + 1 \in 1..Len(proc[p].todo) /\ t[i] = proc[p].todo[i + 1]
        BY <4>2, TailFacts
      <4> HIDE DEF t
      <4>4. Len(t) \in Nat /\ Len(t) # 0
        BY <3>1, <4>1, LenProperties, EmptySeq DEF t
      <4>5. 1 \in 1..Len(t) /\ t[1] = proc[p].todo[2] /\ 2 \in 1..Len(proc[p].todo)
        <5>1. 1 \in 1..Len(t)
          BY <4>4
        <5>2. 1 + 1 \in 1..Len(proc[p].todo) /\ t[1] = proc[p].todo[1 + 1]
          BY <4>3, <5>1
        <5> QED BY <5>1, <5>2
      <4>6. t[1][1] \in {"check", "scan"}
        <5>1. \A i, j \in 1..Len(proc[p].todo) : j = i + 1 => Follows(proc[p].todo[i], proc[p].todo[j])
          BY <4>1 DEF Shape, InOrder
        <5>2. Follows(proc[p].todo[1], proc[p].todo[2])
          BY <4>3, <4>5, <5>1
        <5>3. proc[p].todo[2] \in {A("check"), A("scan")}
          BY <4>3, <5>2 DEF Follows
        <5> QED BY <4>5, <5>3 DEF A
      <4>7. t[1] \in ToSet(t)
        BY <4>1, <4>5, ToSetFacts
      <4>8. t[1][1] = "scan"
        BY <3>1, <3>4, <4>6, <4>7 DEF OnlyOrphans, t
      <4>9. ASSUME NEW i \in 1..Len(t), i # 1 PROVE FALSE
        <5>1. \A k, l \in 1..Len(t) : k < l => Fits(t[k], t[l])
          BY <4>1 DEF Shape, InOrder
        <5>2. 1 < i
          BY <4>9
        <5>3. Fits(t[1], t[i])
          BY <4>5, <5>1, <5>2
        <5> QED BY <4>8, <5>3 DEF Fits
      <4>10. ASSUME NEW x \in ToSet(t) PROVE x[1] \notin {"snap", "door"}
        <5>1. PICK i \in 1..Len(t) : t[i] = x
          BY <4>1, ToSetFacts
        <5>2. i = 1
          BY <4>9
        <5> QED BY <4>8, <5>1, <5>2
      <4> QED BY <4>10 DEF t
    <3>5. ASSUME proc[p].rounds \in 1..3 PROVE door' = Snapshot
      <4>1. \A x \in ToSet(Rest(p)) \cup {<<"door", None>>} : x[1] # "snap"
        BY <3>4, <3>5
      <4>2. <<"door", None>> \in ToSet(Rest(p)) \cup {<<"door", None>>} /\ <<"door", None>>[1] = "door"
        OBVIOUS
      <4> QED BY <2>1, <3>1, <3>5, <4>1, <4>2 DEF OnlyOrphans
    <3>6. ASSUME proc[p].rounds \in 1..3
          PROVE  OnlyOrphans(ToSet(Rest(p)), proc'[p].seen, claim, lease, door', Snapshot)
      <4>1. \A d \in Card : <<"orphan", d>> # <<"door", None>>
        OBVIOUS
      <4> QED BY <3>1, <3>4, <3>5, <3>6, <4>1 DEF OnlyOrphans
    <3> QED BY <3>3, <3>6
  <2> QED BY <1>1, <2>1, <2>2, <2>3, HealRest
<1> QED BY <1>2, <1>3

\* The steps of a sweep: what was stale is archived, in the end.
LEMMA HealSweep ==
    ASSUME TypeOK, SectionInv, HealInv, NEW p \in Process, Alone(p), Sweep(p)
    PROVE  HealInv'
<1>1. Takes(p, "sweep", None) /\ UNCHANGED <<claim, lease, junk, mutex>>
  BY DEF Sweep, files
<1>2. ~Doctor(p) /\ A("report") \notin ToSet(Rest(p))
  <2>1. \A y \in ToSet(Rest(p)) : Fits(<<"sweep", None>>, y)
    BY <1>1, RestShape
  <2> QED BY <1>1, <2>1, NotDoctor DEF Fits, A
<1>3. CASE \E todo : todo \in {<<>>, << A("unlock") >>} /\ Section(p, todo)
  <2>1. PICK todo : todo \in {<<>>, << A("unlock") >>} /\ proc'[p].todo = todo
    BY <1>3 DEF Section
  <2>2. ToSet(<<>>) = {} /\ ToSet(<< A("unlock") >>) = {A("unlock")}
    BY DEF ToSet
  <2>3. A("scan") \notin ToSet(todo) /\ A("report") \notin ToSet(todo)
    BY <2>1, <2>2 DEF A
  <2> QED BY <2>1, <2>3, HealNothing
<1>4. CASE \E todo : /\ Section(p, todo) /\ todo # <<>> /\ proc'[p].rounds = proc[p].rounds
                     /\ ToSet(todo) = ({"reap"} \X {c \in Card : Stale(c)}) \cup ToSet(Rest(p))
  <2> DEFINE more == {"reap"} \X {c \in Card : Stale(c)}
  <2>1. ToSet(proc'[p].todo) = ToSet(Rest(p)) \cup more /\ proc'[p].rounds = proc[p].rounds
    BY <1>4 DEF Section
  <2>2. A("scan") \notin more /\ A("report") \notin more /\ A("lock") \notin more /\ \A c : <<"movelease", c>> \notin more
    BY DEF A
  <2>3. \A c \in Card : claim[c] \in Readable /\ (IF lease[c] \in Readable THEN lease[c] ELSE claim[c]) = "old" =>
            <<"reap", c>> \in more
    BY DEF Stale, Up
  <2> HIDE DEF more
  <2>4. ASSUME alone = p, A("scan") \in ToSet(Rest(p))
        PROVE  /\ Found(ToSet(Rest(p)) \cup more, claim, lease, junk, mutex)
               /\ proc[p].rounds = 4
    <3>1. /\ Found(ToSet(Rest(p)) \cup {<<"sweep", None>>}, claim, lease, junk, mutex)
          /\ proc[p].rounds \in 1..4 /\ (proc[p].rounds \in 1..3 => "sweep" \in {"orphan", "break", "snap", "door"})
      BY <1>1, <2>4, Between
    <3>2. ASSUME NEW c \in Card PROVE Cured(ToSet(Rest(p)) \cup more, c, claim[c], lease[c])
      <4>1. Cured(ToSet(Rest(p)) \cup {<<"sweep", None>>}, c, claim[c], lease[c])
        BY <3>1 DEF Found
      <4> QED BY <2>2, <2>3, <4>1 DEF Cured
    <3>3. \A v \in {"tmp", "break"} : A(v) # <<"sweep", None>>
      BY DEF A
    <3>4. A("lock") \in ToSet(Rest(p)) \cup more => A("lock") \in ToSet(Rest(p))
      BY <2>2
    <3>5. Found(ToSet(Rest(p)) \cup more, claim, lease, junk, mutex)
      BY <3>1, <3>2, <3>3, <3>4 DEF Found
    <3> QED BY <3>1, <3>5
  <2>5. CASE A("scan") \notin ToSet(Rest(p))
    BY <1>2, <2>1, <2>2, <2>5, HealNothing
  <2>6. CASE alone # p
    BY <1>2, <2>6, HealGoes
  <2>7. CASE alone = p /\ A("scan") \in ToSet(Rest(p))
    <3>1. proc'[p].rounds = 4 /\ Found(ToSet(proc'[p].todo), claim', lease', junk', mutex')
          /\ A("report") \notin ToSet(proc'[p].todo)
      BY <1>1, <1>2, <2>1, <2>2, <2>4, <2>7
    <3> QED BY <1>2, <3>1, HealBetween
  <2> QED BY <2>5, <2>6, <2>7
<1> QED BY <1>3, <1>4, SweepSection

\* Steps that put more in the place of the one that was done.
LEMMA HealMore ==
    ASSUME TypeOK, SectionInv, HealInv, NEW p \in Process, Alone(p), NEW verb \in {"reap", "mend"}, NEW c \in Card,
           Takes(p, verb, c), UNCHANGED <<claim, lease, junk, mutex>>,
           NEW more, ToSet(proc'[p].todo) = ToSet(Rest(p)) \cup more, proc'[p].rounds = proc[p].rounds,
           \A x \in more : x[1] \notin {"scan", "report", "movelease", "lock"},
           verb = "reap" => <<"down", c>> \in more,
           verb = "mend" /\ claim[c] \in Readable => <<"lease", c>> \in more
    PROVE  HealInv'
<1>1. ~Doctor(p) /\ A("report") \notin ToSet(Rest(p))
  <2>1. \A y \in ToSet(Rest(p)) : Fits(<<verb, c>>, y)
    BY RestShape
  <2> QED BY <2>1, NotDoctor DEF Fits, A
<1>2. A("scan") \notin more /\ A("report") \notin more /\ A("lock") \notin more /\ \A d : <<"movelease", d>> \notin more
  <2>1. A("scan")[1] = "scan" /\ A("report")[1] = "report" /\ A("lock")[1] = "lock" /\ \A d : <<"movelease", d>>[1] = "movelease"
    BY DEF A
  <2> QED BY <2>1
<1>3. CASE A("scan") \notin ToSet(Rest(p))
  BY <1>1, <1>2, <1>3, HealNothing
<1>4. CASE alone # p
  BY <1>1, <1>4, HealGoes
<1>5. CASE alone = p /\ A("scan") \in ToSet(Rest(p))
  <2>1. /\ Found(ToSet(Rest(p)) \cup {<<verb, c>>}, claim, lease, junk, mutex)
        /\ proc[p].rounds \in 1..4 /\ (proc[p].rounds \in 1..3 => verb \in {"orphan", "break", "snap", "door"})
    BY <1>5, Between
  <2>2. ASSUME NEW d \in Card PROVE Cured(ToSet(Rest(p)) \cup more, d, claim[d], lease[d])
    <3>1. Cured(ToSet(Rest(p)) \cup {<<verb, c>>}, d, claim[d], lease[d])
      BY <2>1 DEF Found
    <3>2. <<verb, c>> \notin {<<"moveclaim", d>>, <<"movelease", d>>, A("sweep"), <<"down", d>>, <<"lease", d>>}
      BY DEF A
    <3>3. CASE d # c
      <4>1. <<verb, c>> \notin {<<"reap", d>>, <<"mend", d>>}
        BY <3>3
      <4> QED BY <1>2, <3>1, <3>2, <4>1 DEF Cured
    <3>4. CASE d = c /\ verb = "reap"
      <4>1. <<verb, c>> # <<"mend", d>>
        BY <3>4
      <4> QED BY <1>2, <3>1, <3>2, <3>4, <4>1 DEF Cured
    <3>5. CASE d = c /\ verb = "mend"
      <4>1. <<verb, c>> # <<"reap", d>>
        BY <3>5
      <4> QED BY <1>2, <3>1, <3>2, <3>5, <4>1 DEF Cured
    <3> QED BY <3>3, <3>4, <3>5
  <2>3. \A v \in {"tmp", "break"} : A(v) # <<verb, c>>
    BY DEF A
  <2>4. Found(ToSet(Rest(p)) \cup more, claim, lease, junk, mutex)
    <3>1. A("lock") \in ToSet(Rest(p)) \cup more => A("lock") \in ToSet(Rest(p))
      BY <1>2
    <3> QED BY <2>1, <2>2, <2>3, <3>1 DEF Found
  <2>5. proc'[p].rounds \in 1..4 /\ proc'[p].rounds \notin 1..3
    BY <2>1
  <2>6. A("report") \notin ToSet(proc'[p].todo)
    BY <1>1, <1>2
  <2> QED BY <1>1, <2>4, <2>5, <2>6, HealBetween
<1> QED BY <1>3, <1>4, <1>5

LEMMA HealReapMend ==
    ASSUME TypeOK, SectionInv, HealInv, NEW p \in Process, Alone(p), NEW c \in Card, Reap(p, c) \/ Mend(p, c)
    PROVE  HealInv'
<1>1. UNCHANGED <<claim, lease, junk, mutex>>
  BY DEF Reap, Mend, files
<1>2. CASE Reap(p, c)
  <2> DEFINE more == {<<"down", c>>, <<"drop", c>>, <<"clear", c>>, A("pin")}
  <2>1. Takes(p, "reap", c) /\ proc'[p].rounds = proc[p].rounds
    BY <1>2, ReapSection DEF Reap
  <2>2. ToSet(proc'[p].todo) = ToSet(Rest(p)) \cup more
    <3>1. proc'[p].todo = Archive(c) \o Rest(p) /\ ToSet(Archive(c) \o Rest(p)) = more \cup ToSet(Rest(p))
      BY <1>2, ReapSection DEF Section
    <3> HIDE DEF Archive, more
    <3> QED BY <3>1
  <2>3. \A x \in more : x[1] \notin {"scan", "report", "movelease", "lock"}
    BY DEF A
  <2>4. <<"down", c>> \in more
    OBVIOUS
  <2> HIDE DEF more
  <2> QED BY <1>1, <2>1, <2>2, <2>3, <2>4, HealMore
<1>3. CASE Mend(p, c)
  <2> DEFINE more == IF Up(c) THEN {<<"lease", c>>} ELSE {}
  <2>1. Takes(p, "mend", c) /\ proc'[p].rounds = proc[p].rounds
    BY <1>3, MendSection DEF Mend
  <2>2. ToSet(proc'[p].todo) = ToSet(Rest(p)) \cup more
    BY <1>3, MendSection DEF Section
  <2>3. \A x \in more : x[1] \notin {"scan", "report", "movelease", "lock"}
    OBVIOUS
  <2>4. claim[c] \in Readable => <<"lease", c>> \in more
    BY DEF Up
  <2> HIDE DEF more
  <2> QED BY <1>1, <2>1, <2>2, <2>3, <2>4, HealMore
<1> QED BY <1>2, <1>3

\* Steps on the files of one card, after which its repair is done or goes on.
LEMMA HealCard ==
    ASSUME TypeOK, SectionInv, HealInv, NEW p \in Process, Alone(p), NEW verb, NEW c \in Card, Takes(p, verb, c),
           verb \notin {"sweep", "orphan", "break", "snap", "door", "scan"}, Done(p), UNCHANGED <<junk, mutex>>,
           \A d \in Card : d # c => claim'[d] = claim[d] /\ lease'[d] = lease[d],
           alone = p /\ Cured(ToSet(Rest(p)) \cup {<<verb, c>>}, c, claim[c], lease[c]) =>
              Cured(ToSet(Rest(p)), c, claim'[c], lease'[c])
    PROVE  HealInv'
<1>1. ASSUME alone = p, A("scan") \in ToSet(Rest(p))
      PROVE  Found(ToSet(Rest(p)), claim', lease', junk', mutex') /\ proc[p].rounds \notin 1..3
  <2>1. /\ Found(ToSet(Rest(p)) \cup {<<verb, c>>}, claim, lease, junk, mutex)
        /\ proc[p].rounds \in 1..3 => verb \in {"orphan", "break", "snap", "door"}
    BY <1>1, Between
  <2>2. ASSUME NEW d \in Card PROVE Cured(ToSet(Rest(p)), d, claim'[d], lease'[d])
    <3>1. Cured(ToSet(Rest(p)) \cup {<<verb, c>>}, d, claim[d], lease[d])
      BY <2>1 DEF Found
    <3>2. CASE d = c
      BY <1>1, <3>1, <3>2
    <3>3. CASE d # c
      <4>1. <<verb, c>> \notin { <<"moveclaim", d>>, <<"movelease", d>>, A("sweep"), <<"reap", d>>,
                                <<"down", d>>, <<"mend", d>>, <<"lease", d>> }
        BY <3>3 DEF A
      <4>2. Cured(ToSet(Rest(p)), d, claim[d], lease[d])
        BY <3>1, <4>1, CuredLess
      <4>3. claim'[d] = claim[d] /\ lease'[d] = lease[d]
        BY <3>3
      <4> QED BY <4>2, <4>3
    <3> QED BY <3>2, <3>3
  <2>3. \A v \in {"tmp", "break"} : A(v) # <<verb, c>>
    BY NoneAssumption DEF A
  <2> QED BY <2>1, <2>2, <2>3 DEF Found
<1>2. proc'[p].todo = Rest(p) /\ (Rest(p) # <<>> => proc'[p].rounds = proc[p].rounds)
  BY DoneTodo
<1> QED BY <1>1, <1>2, HealRest

LEMMA HealDown ==
    ASSUME TypeOK, SectionInv, HealInv, NEW p \in Process, Alone(p), NEW c \in Card,
           TakeDown(p, c) \/ MoveClaim(p, c)
    PROVE  HealInv'
<1>1. PICK verb \in {"down", "moveclaim"} : Takes(p, verb, c)
  BY DEF TakeDown, MoveClaim
<1>2. /\ Done(p) /\ UNCHANGED <<lease, junk, mutex>>
      /\ \E to \in {"down", "moved"} : claim' = [claim EXCEPT ![c] = IF There(c) THEN to ELSE @]
  BY DEF TakeDown, MoveClaim
<1>3. /\ \A d \in Card : d # c => claim'[d] = claim[d]
      /\ claim'[c] \notin Readable \cup {"torn"}
  <2>1. claim \in [Card -> ClaimFile]
    BY DEF TypeOK
  <2> QED BY <1>2, <2>1 DEF There, Readable
<1>4. ASSUME Cured(ToSet(Rest(p)) \cup {<<verb, c>>}, c, claim[c], lease[c])
      PROVE  Cured(ToSet(Rest(p)), c, claim'[c], lease'[c])
  <2>1. <<verb, c>> # <<"movelease", c>>
    OBVIOUS
  <2> QED BY <1>2, <1>3, <1>4, <2>1 DEF Cured
<1>5. verb \notin {"sweep", "orphan", "break", "snap", "door", "scan"} /\ \A d \in Card : lease'[d] = lease[d]
  BY <1>2
<1> QED BY <1>1, <1>2, <1>3, <1>4, <1>5, HealCard

LEMMA HealLease ==
    ASSUME TypeOK, SectionInv, CardInv, HealInv, NEW p \in Process, Alone(p), NEW c \in Card,
           DropLease(p, c) \/ MoveLease(p, c) \/ LeaseCard(p, c)
    PROVE  HealInv'
<1>1. PICK verb \in {"drop", "movelease", "lease"} :
         Takes(p, verb, c) /\ lease' = [lease EXCEPT ![c] = IF verb = "lease" THEN "fresh" ELSE "none"]
  BY DEF DropLease, MoveLease, LeaseCard, WriteLease
<1>2. Done(p) /\ UNCHANGED <<claim, junk, mutex>>
  BY DEF DropLease, MoveLease, LeaseCard, WriteLease
<1>3. /\ \A d \in Card : d # c => lease'[d] = lease[d]
      /\ lease'[c] = IF verb = "lease" THEN "fresh" ELSE "none"
  <2>1. lease \in [Card -> LeaseFile]
    BY DEF TypeOK
  <2> QED BY <1>1, <2>1
<1>4. verb = "drop" => claim[c] \in {"down", "moved"}
  <2>1. ToSet(proc[p].todo) = ToSet(Rest(p)) \cup {<<verb, c>>}
    BY <1>1, TakesSet
  <2>2. <<"down", c>> \in ToSet(Rest(p)) => <<verb, c>> = <<"read", c>>
    BY <1>1, RestFits
  <2>3. Keeps(ToSet(proc[p].todo), c, claim[c], c \in kept)
    BY DEF CardInv
  <2>4. ASSUME verb = "drop" PROVE <<"drop", c>> \in ToSet(proc[p].todo) /\ <<"down", c>> \notin ToSet(proc[p].todo)
    BY <2>1, <2>2, <2>4
  <2> QED BY <2>3, <2>4 DEF Keeps
<1>5. verb = "lease" => <<"movelease", c>> \notin ToSet(Rest(p))
  <2>1. \A y \in ToSet(Rest(p)) : Fits(<<verb, c>>, y)
    BY <1>1, RestShape
  <2> QED BY <2>1 DEF Fits
<1>6. ASSUME Cured(ToSet(Rest(p)) \cup {<<verb, c>>}, c, claim[c], lease[c])
      PROVE  Cured(ToSet(Rest(p)), c, claim[c], lease'[c])
  <2>1. CASE verb = "drop"
    <3>1. claim[c] \notin Readable \cup {"torn"} /\ lease'[c] \notin Readable \cup {"torn"}
      BY <1>3, <1>4, <2>1 DEF Readable
    <3> QED BY <3>1 DEF Cured
  <2>2. CASE verb = "movelease"
    <3>1. lease[c] \notin Readable /\ lease'[c] \notin Readable \cup {"torn"}
      BY <1>3, <1>6, <2>2 DEF Cured, Readable
    <3>2. \A v \in {"moveclaim", "reap", "down", "mend", "lease"} : <<v, c>> # <<verb, c>>
      BY <2>2
    <3>3. A("sweep") # <<verb, c>>
      BY <2>2 DEF A
    <3> QED BY <1>6, <3>1, <3>2, <3>3 DEF Cured
  <2>3. CASE verb = "lease"
    <3>1. lease'[c] \in Readable /\ lease'[c] # "old" /\ lease'[c] # "torn"
      BY <1>3, <2>3 DEF Readable
    <3>2. <<"moveclaim", c>> # <<verb, c>>
      BY <2>3
    <3> QED BY <1>5, <1>6, <2>3, <3>1, <3>2 DEF Cured
  <2> QED BY <2>1, <2>2, <2>3
<1>7. verb \notin {"sweep", "orphan", "break", "snap", "door", "scan"}
  OBVIOUS
<1> QED BY <1>1, <1>2, <1>3, <1>6, <1>7, HealCard

LEMMA HealOrphan ==
    ASSUME TypeOK, SectionInv, CardInv, HealInv, NEW p \in Process, Alone(p), NEW c \in Card, DropOrphan(p, c)
    PROVE  HealInv'
<1>1. /\ Takes(p, "orphan", c) /\ Done(p) /\ lease' = [lease EXCEPT ![c] = "none"]
      /\ UNCHANGED <<claim, queue, notes, door, junk, mutex>>
  BY DEF DropOrphan
<1>2. lease'[c] = "none" /\ \A d \in Card : d # c => lease'[d] = lease[d]
  BY <1>1 DEF TypeOK
<1>3. claim[c] \notin Readable \cup {"torn"}
  <2>1. ToSet(proc[p].todo) = ToSet(Rest(p)) \cup {<<"orphan", c>>}
    BY <1>1, TakesSet
  <2>2. Keeps(ToSet(proc[p].todo), c, claim[c], c \in kept)
    BY DEF CardInv
  <2> QED BY <2>1, <2>2 DEF Keeps, Readable
<1>4. Snapshot' = Snapshot
  <2>1. \A d \in Card : (Up(d) <=> Up(d)') /\ (Stale(d) <=> Stale(d)')
    BY <1>1, <1>2, <1>3 DEF Up, Stale
  <2>2. {d \in Card : Up(d)' /\ ~Stale(d)'} = {d \in Card : Up(d) /\ ~Stale(d)}
    BY <2>1
  <2> QED BY <1>1, <2>2 DEF Snapshot
<1>5. proc'[p].todo = Rest(p) /\ (Rest(p) # <<>> => proc'[p].rounds = proc[p].rounds /\ proc'[p].seen = proc[p].seen)
  BY <1>1, DoneTodo
<1>6. ASSUME alone = p, A("scan") \in ToSet(Rest(p))
      PROVE  /\ Found(ToSet(Rest(p)), claim', lease', junk', mutex')
             /\ proc[p].rounds \in 1..3 =>
                  OnlyOrphans(ToSet(Rest(p)), proc'[p].seen, claim', lease', door', Snapshot')
  <2>1. /\ Found(ToSet(Rest(p)) \cup {<<"orphan", c>>}, claim, lease, junk, mutex) /\ Rest(p) # <<>>
        /\ proc[p].rounds \in 1..3 =>
             OnlyOrphans(ToSet(Rest(p)) \cup {<<"orphan", c>>}, proc[p].seen, claim, lease, door, Snapshot)
    BY <1>1, <1>6, Between
  <2>2. Found(ToSet(Rest(p)), claim, lease, junk', mutex')
    <3>1. "orphan" \notin {"moveclaim", "movelease", "sweep", "reap", "down", "mend", "lease", "tmp", "break"}
      OBVIOUS
    <3> QED BY <1>1, <2>1, <3>1, FoundLess
  <2>3. ASSUME NEW d \in Card PROVE Cured(ToSet(Rest(p)), d, claim[d], lease'[d])
    <3>1. Cured(ToSet(Rest(p)), d, claim[d], lease[d])
      BY <2>2 DEF Found
    <3>2. CASE d = c
      <4>1. lease'[c] \notin Readable \cup {"torn"}
        BY <1>2 DEF Readable
      <4> QED BY <1>3, <3>2, <4>1 DEF Cured
    <3> QED BY <1>2, <3>1, <3>2
  <2>4. Found(ToSet(Rest(p)), claim', lease', junk', mutex')
    BY <1>1, <2>2, <2>3 DEF Found
  <2>5. ASSUME proc[p].rounds \in 1..3
        PROVE  OnlyOrphans(ToSet(Rest(p)), proc'[p].seen, claim', lease', door', Snapshot')
    <3>1. OnlyOrphans(ToSet(Rest(p)) \cup {<<"orphan", c>>}, proc[p].seen, claim, lease, door, Snapshot)
      BY <2>1, <2>5
    <3>2. \A d \in Card : lease'[d] \in Readable =>
             d # c /\ lease'[d] = lease[d] /\ <<"orphan", d>> # <<"orphan", c>>
      BY <1>2 DEF Readable
    <3>3. <<"orphan", c>>[1] = "orphan"
      OBVIOUS
    <3>4. proc'[p].seen = proc[p].seen /\ UNCHANGED <<claim, door, Snapshot>>
      BY <1>1, <1>4, <1>5, <2>1
    <3>5. OnlyOrphans(ToSet(Rest(p)), proc[p].seen, claim, lease', door, Snapshot)
      BY <3>1, <3>2, <3>3 DEF OnlyOrphans
    <3> QED BY <3>4, <3>5
  <2> QED BY <2>4, <2>5
<1> QED BY <1>1, <1>5, <1>6, HealRest

\* When nothing is wrong with the records and the door, there is only the mutex left.
LEMMA RepairsLeft ==
    ASSUME Torn = {}, TornLeases = {}, ~(\E c \in Card : Stale(c)), Unleased = {}, Orphans = {}, junk = FALSE,
           door = Snapshot, mutex # "dead"
    PROVE  Healed
<1>1. /\ ForEach("moveclaim", Torn) = <<>> /\ ForEach("movelease", TornLeases) = <<>>
      /\ ForEach("mend", Unleased) = <<>> /\ ForEach("orphan", Orphans) = <<>>
  <2>1. "moveclaim" \in Verb /\ "movelease" \in Verb /\ "mend" \in Verb /\ "orphan" \in Verb
    BY DEF Verb
  <2>2. {} \in SUBSET Card
    OBVIOUS
  <2> QED BY <2>1, <2>2, ForEachFacts
<1>2. /\ When(\E c \in Card : Stale(c), SweepSteps) = <<>> /\ When(junk, << A("tmp") >>) = <<>>
      /\ When(door # Snapshot, << A("snap"), A("door") >>) = <<>>
  BY DEF When
<1>3. Repairs = When(mutex \in {"recent", "dead"}, << A("break") >>)
  <2> DEFINE b == When(mutex \in {"recent", "dead"}, << A("break") >>)
  <2>1. b \in Seq(Step)
    BY StepFacts DEF When, Verb
  <2>2. Repairs = <<>> \o <<>> \o <<>> \o <<>> \o <<>> \o <<>> \o b \o <<>>
    BY <1>1, <1>2 DEF Repairs, Torn, TornLeases, Unleased, Orphans
  <2> HIDE DEF b
  <2>3. <<>> \o <<>> = <<>> /\ <<>> \o b = b /\ b \o <<>> = b
    BY <2>1
  <2> QED BY <2>2, <2>3 DEF b
<1> QED BY <1>3 DEF When, Healed

\* What a scan finds, it has on its list ...
LEMMA ScanFinds ==
    ASSUME TypeOK
    PROVE  Found(ToSet(ToRepair), claim, lease, junk, mutex)
<1>1. junk \in BOOLEAN
  BY DEF TypeOK
<1>2. ToSet(ToRepair) =
         ({"moveclaim"} \X Torn) \cup ({"movelease"} \X TornLeases)
         \cup (IF \E c \in Card : Stale(c) THEN {A("lock"), A("sweep"), A("unlock")} ELSE {})
         \cup ({"mend"} \X Unleased) \cup ({"orphan"} \X Orphans)
         \cup (IF junk THEN {A("tmp")} ELSE {}) \cup (IF mutex \in {"recent", "dead"} THEN {A("break")} ELSE {})
         \cup (IF door # Snapshot THEN {A("snap"), A("door"), A("scan")} ELSE {A("scan")})
  BY <1>1, RepairsFacts
<1>3. ASSUME NEW c \in Card PROVE Cured(ToSet(ToRepair), c, claim[c], lease[c])
  <2>1. claim[c] = "torn" => <<"moveclaim", c>> \in ToSet(ToRepair)
    BY <1>2 DEF Torn
  <2>2. lease[c] = "torn" => <<"movelease", c>> \in ToSet(ToRepair)
    BY <1>2 DEF TornLeases
  <2>3. <<"movelease", c>> \in ToSet(ToRepair) => lease[c] \notin Readable
    BY <1>2 DEF TornLeases, Readable, A
  <2>4. Stale(c) => A("sweep") \in ToSet(ToRepair)
    BY <1>2
  <2>5. Up(c) /\ lease[c] \notin Readable => <<"mend", c>> \in ToSet(ToRepair)
    BY <1>2 DEF Unleased
  <2> QED BY <2>1, <2>2, <2>3, <2>4, <2>5 DEF Cured, Stale, Up
<1>4. (junk = TRUE => A("tmp") \in ToSet(ToRepair)) /\ (mutex = "dead" => A("break") \in ToSet(ToRepair))
  BY <1>2
<1>5. mutex = "recent" => A("break") \in ToSet(ToRepair)
  BY <1>2
<1> QED BY <1>3, <1>4, <1>5 DEF Found

\* ... and there is nothing else on it.
LEMMA ScanOnly ==
    ASSUME TypeOK, Found({A("scan")}, claim, lease, junk, mutex)
    PROVE  /\ Torn = {} /\ TornLeases = {} /\ Unleased = {} /\ ~(\E c \in Card : Stale(c))
           /\ junk = FALSE /\ mutex # "dead"
           /\ ToSet(ToRepair) = ({"orphan"} \X Orphans)
                  \cup (IF mutex = "recent" THEN {A("break")} ELSE {})
                  \cup (IF door # Snapshot THEN {A("snap"), A("door"), A("scan")} ELSE {A("scan")})
           /\ \A seen : OnlyOrphans(ToSet(ToRepair), seen, claim, lease, door, Snapshot)
<1>1. junk \in BOOLEAN
  BY DEF TypeOK
<1>2. ToSet(ToRepair) =
         ({"moveclaim"} \X Torn) \cup ({"movelease"} \X TornLeases)
         \cup (IF \E c \in Card : Stale(c) THEN {A("lock"), A("sweep"), A("unlock")} ELSE {})
         \cup ({"mend"} \X Unleased) \cup ({"orphan"} \X Orphans)
         \cup (IF junk THEN {A("tmp")} ELSE {}) \cup (IF mutex \in {"recent", "dead"} THEN {A("break")} ELSE {})
         \cup (IF door # Snapshot THEN {A("snap"), A("door"), A("scan")} ELSE {A("scan")})
  BY <1>1, RepairsFacts
<1>3. ASSUME NEW c \in Card PROVE claim[c] # "torn" /\ lease[c] # "torn" /\ ~Stale(c) /\ ~(Up(c) /\ lease[c] \notin Readable)
  <2>1. Cured({A("scan")}, c, claim[c], lease[c])
    BY DEF Found
  <2>2. \A v \in {"moveclaim", "movelease", "reap", "down", "mend", "lease"} : <<v, c>> \notin {A("scan")}
    BY DEF A
  <2>3. A("sweep") \notin {A("scan")}
    BY DEF A
  <2> QED BY <2>1, <2>2, <2>3 DEF Cured, Stale, Up
<1>4. junk # TRUE /\ mutex # "dead"
  BY DEF Found, A
<1>5. Torn = {} /\ TornLeases = {} /\ Unleased = {}
  BY <1>3 DEF Torn, TornLeases, Unleased
<1>6. ToSet(ToRepair) = ({"orphan"} \X Orphans)
                  \cup (IF mutex = "recent" THEN {A("break")} ELSE {})
                  \cup (IF door # Snapshot THEN {A("snap"), A("door"), A("scan")} ELSE {A("scan")})
  <2>1. ~(\E c \in Card : Stale(c))
    BY <1>3
  <2> QED BY <1>1, <1>2, <1>4, <1>5, <2>1
<1>7. ASSUME NEW seen PROVE OnlyOrphans(ToSet(ToRepair), seen, claim, lease, door, Snapshot)
  <2>1. \A x \in ToSet(ToRepair) : x[1] \in {"orphan", "break", "snap", "door", "scan"}
    BY <1>6 DEF A
  <2>2. \A c \in Card : lease[c] \in Readable /\ claim[c] \notin Readable \cup {"torn"} =>
            <<"orphan", c>> \in ToSet(ToRepair)
    BY <1>6 DEF Orphans, There
  <2>3. A("break")[1] = "break" /\ A("door")[1] = "door" /\ A("snap")[1] = "snap" /\ A("scan")[1] = "scan"
    BY DEF A
  <2>4. door = Snapshot \/ \E x \in ToSet(ToRepair) : x[1] = "door"
    BY <1>6, <2>3
  <2>5. door = Snapshot => \A x \in ToSet(ToRepair) : x[1] # "door"
    BY <1>6, <2>3
  <2>6. door # Snapshot => \E x \in ToSet(ToRepair) : x[1] = "snap"
    BY <1>6, <2>3
  <2> QED BY <2>1, <2>2, <2>4, <2>5, <2>6 DEF OnlyOrphans
<1>8. ~(\E c \in Card : Stale(c)) /\ junk = FALSE
  BY <1>1, <1>3, <1>4
<1> QED BY <1>4, <1>5, <1>6, <1>7, <1>8

\* A doctor that is about to scan.
LEMMA AtScan ==
    ASSUME TypeOK, SectionInv, HealInv, NEW p \in Process, alone = p, Takes(p, "scan", None)
    PROVE  /\ proc[p].rounds \in 1..5
           /\ proc[p].rounds \in 1..4 => Found({A("scan")}, claim, lease, junk, mutex)
           /\ proc[p].rounds \in 1..3 => Healed
<1>1. ToSet(proc[p].todo) = {A("scan")}
  <2>1. ToSet(proc[p].todo) = ToSet(Rest(p)) \cup {<<"scan", None>>} /\ Rest(p) = <<>>
    BY TakesSet, RestShape
  <2>2. ToSet(<<>>) = {}
    BY DEF ToSet
  <2> QED BY <2>1, <2>2 DEF A
<1>2. /\ proc[p].rounds \in 1..5
      /\ proc[p].rounds \in 1..4 => Found({A("scan")}, claim, lease, junk, mutex)
      /\ proc[p].rounds \in 1..3 => OnlyOrphans({A("scan")}, proc[p].seen, claim, lease, door, Snapshot)
  <2>1. A("scan") \in ToSet(proc[p].todo) /\ Healing(p)
    BY <1>1 DEF HealInv
  <2> QED BY <1>1, <2>1 DEF Healing
<1>3. ASSUME proc[p].rounds \in 1..3 PROVE Healed
  <2>1. /\ Found({A("scan")}, claim, lease, junk, mutex)
        /\ OnlyOrphans({A("scan")}, proc[p].seen, claim, lease, door, Snapshot)
    BY <1>2, <1>3
  <2>2. /\ Torn = {} /\ TornLeases = {} /\ Unleased = {} /\ ~(\E c \in Card : Stale(c))
        /\ junk = FALSE /\ mutex # "dead"
    BY <2>1, ScanOnly
  <2>3. \A x \in {A("scan")} : x[1] # "orphan" /\ x[1] # "door"
    BY DEF A
  <2>4. door = Snapshot
    BY <2>1, <2>3 DEF OnlyOrphans
  <2>5. Orphans = {}
    <3>1. ASSUME NEW c \in Orphans PROVE FALSE
      <4>1. <<"orphan", c>> \in {A("scan")}
        BY <2>1 DEF OnlyOrphans, Orphans, There
      <4> QED BY <2>3, <4>1
    <3> QED BY <3>1
  <2> QED BY <2>2, <2>4, <2>5, RepairsLeft
<1> QED BY <1>2, <1>3

LEMMA HealScan ==
    ASSUME TypeOK, SectionInv, HealInv, NEW p \in Process, Alone(p), Scan(p)
    PROVE  HealInv'
<1>1. Takes(p, "scan", None) /\ proc[p].rounds > 1 /\ UNCHANGED <<files, mutex>>
  BY DEF Scan
<1>2. UNCHANGED <<claim, lease, junk, mutex, door, Snapshot>>
  BY <1>1 DEF files, Snapshot, Stale, Up
<1>3. proc'[p].todo = ToRepair /\ proc'[p].rounds = proc[p].rounds - 1
  BY <1>1, ScanSection DEF Section
<1>4. ~Doctor(p)
  BY <1>1, NotDoctor
<1>5. CASE alone # p
  BY <1>4, <1>5, HealGoes
<1>6. CASE alone = p
  <2>1. /\ proc[p].rounds \in 2..5
        /\ proc[p].rounds \in 1..4 => Found({A("scan")}, claim, lease, junk, mutex)
    BY <1>1, <1>6, AtScan
  <2>2. proc'[p].rounds \in 1..4 /\ (proc'[p].rounds \in 1..3 => proc[p].rounds \in 1..4)
    BY <1>3, <2>1
  <2>3. Found(ToSet(ToRepair), claim, lease, junk, mutex)
    BY ScanFinds
  <2>4. proc'[p].rounds \in 1..3 => OnlyOrphans(ToSet(ToRepair), proc'[p].seen, claim, lease, door, Snapshot)
    BY <2>1, <2>2, ScanOnly
  <2>5. A("report") \notin ToSet(ToRepair)
    <3>1. junk \in BOOLEAN
      BY DEF TypeOK
    <3>2. ASSUME A("report") \in ToSet(ToRepair) PROVE FALSE
      BY <3>1, <3>2, RepairsFacts DEF A
    <3> QED BY <3>2
  <2> QED BY <1>2, <1>3, <1>4, <2>2, <2>3, <2>4, <2>5, HealBetween
<1> QED BY <1>5, <1>6

LEMMA HealLast ==
    ASSUME TypeOK, SectionInv, HealInv, NEW p \in Process, Alone(p), LastScan(p)
    PROVE  HealInv'
<1>1. Takes(p, "scan", None) /\ (Repairs = <<>> \/ proc[p].rounds = 1) /\ UNCHANGED <<files, mutex>>
  BY DEF LastScan
<1>2. Healed' = Healed
  BY <1>1 DEF files, Healed, Repairs, Snapshot, Stale, Up, There
<1>3. A("scan") \notin ToSet(proc'[p].todo)
  <2>1. proc'[p].todo = << A("report") >>
    BY LastScanSection DEF Section
  <2>2. ToSet(<< A("report") >>) = {A("report")} /\ A("scan") # A("report")
    BY DEF ToSet, A
  <2> QED BY <2>1, <2>2
<1>4. ~Doctor(p)
  BY <1>1, NotDoctor
<1>5. alone = p => Healed
  <2>1. alone = p /\ proc[p].rounds = 1 => Healed
    BY <1>1, AtScan
  <2> QED BY <1>1, <2>1 DEF Healed
<1>6. alone = p => Healing(p)'
  BY <1>2, <1>3, <1>5 DEF Healing
<1> QED BY <1>4, <1>6, HealGoes

LEMMA HealOther ==
    ASSUME TypeOK, SectionInv, HealInv, NEW p \in Process, Alone(p),
           Command(p) \/ Doctor(p) \/ Decide(p) \/ LookAgain(p) \/ Refuse(p) \/ ClaimFails(p) \/ DoorFails(p)
    PROVE  HealInv'
<1>0. A("scan")[1] = "scan" /\ A("report")[1] = "report"
  BY DEF A
<1>1. CASE Command(p)
  <2>1. PICK todo : Section(p, todo) /\ Fresh(todo)
    BY <1>1, CommandSection
  <2>2. proc'[p].todo = todo /\ A("scan") \notin ToSet(todo) /\ A("report") \notin ToSet(todo)
    BY <1>0, <2>1 DEF Section, Fresh
  <2> QED BY <2>2, HealNothing
<1>2. CASE Doctor(p)
  <2>1. proc'[p].todo = << A("scan") >> /\ proc'[p].rounds = 5
    BY <1>2, DoctorSection DEF Section, DoctorPasses
  <2>2. A("report") \notin ToSet(<< A("scan") >>)
    BY DEF ToSet, A
  <2>3. Healing(p)'
    BY <2>1, <2>2 DEF Healing
  <2> QED BY <2>3, HealGoes
<1>3. CASE Decide(p)
  <2>1. PICK todo : Section(p, todo) /\ Decided(todo)
    BY <1>3, DecideSection
  <2>2. proc'[p].todo = todo /\ A("scan") \notin ToSet(todo) /\ A("report") \notin ToSet(todo)
    BY <1>0, <2>1 DEF Section, Decided
  <2> QED BY <2>2, HealNothing
<1>4. CASE LookAgain(p)
  <2>1. Takes(p, "check", None)
    BY <1>4 DEF LookAgain
  <2>2. /\ ToSet(proc'[p].todo) = {A("snap"), A("door"), A("check")} \cup ToSet(Rest(p))
        /\ A("scan") \notin ToSet(Rest(p))
    <3>1. /\ proc'[p].todo = Render \o Rest(p) /\ A("scan") \notin ToSet(Rest(p))
          /\ ToSet(Render \o Rest(p)) = {A("snap"), A("door"), A("check")} \cup ToSet(Rest(p))
      BY <1>4, LookAgainSection DEF Section
    <3> HIDE DEF Render
    <3> QED BY <3>1
  <2>3. A("report") \notin ToSet(Rest(p))
    <3>1. \A y \in ToSet(Rest(p)) : Fits(<<"check", None>>, y)
      BY <2>1, RestShape
    <3> QED BY <1>0, <3>1 DEF Fits
  <2>4. A("scan") \notin {A("snap"), A("door"), A("check")} /\ A("report") \notin {A("snap"), A("door"), A("check")}
    BY DEF A
  <2> QED BY <2>2, <2>3, <2>4, HealNothing
<1>5. CASE Refuse(p) \/ ClaimFails(p)
  <2>1. Fails(p) /\ mutex' = mutex
    BY <1>5 DEF Refuse, ClaimFails
  <2>2. PICK todo : todo \in {<<>>, << A("unlock") >>} /\ Section(p, todo)
    BY <2>1, FailsSection
  <2>3. ToSet(<<>>) = {} /\ ToSet(<< A("unlock") >>) = {A("unlock")}
    BY DEF ToSet
  <2>4. A("unlock") # A("scan") /\ A("unlock") # A("report")
    BY DEF A
  <2>5. proc'[p].todo = todo /\ A("scan") \notin ToSet(todo) /\ A("report") \notin ToSet(todo)
    BY <2>2, <2>3, <2>4 DEF Section
  <2> QED BY <2>5, HealNothing
<1>6. CASE DoorFails(p)
  <2>1. PICK todo : /\ Section(p, todo) /\ A("scan") \notin ToSet(todo)
                    /\ ToSet(todo) \subseteq ToSet(Rest(p)) \cup {A("unlock")}
    BY <1>6, DoorFailsSection
  <2>2. A("report") \notin ToSet(Rest(p))
    <3>1. \A y \in ToSet(Rest(p)) : Fits(<<"door", None>>, y)
      BY <1>6, RestShape DEF DoorFails
    <3> QED BY <1>0, <3>1 DEF Fits
  <2>3. A("report") # A("unlock")
    BY DEF A
  <2>4. proc'[p].todo = todo /\ A("report") \notin ToSet(todo)
    BY <2>1, <2>2, <2>3 DEF Section
  <2> QED BY <2>1, <2>4, HealNothing
<1> QED BY <1>1, <1>2, <1>3, <1>4, <1>5, <1>6

LEMMA HealStep ==
    ASSUME TypeOK, SectionInv, CardInv, HealInv, NEW p \in Process, Tended(p) \/ Untended(p), Alone(p)
    PROVE  HealInv'
<1>1. ASSUME NEW verb \in {"check", "save", "read", "renew", "beat", "join", "leave", "report"}, NEW c,
             Takes(p, verb, c), Done(p)
      PROVE  HealInv'
  <2>1. proc'[p].todo = Rest(p)
    BY <1>1, DoneTodo
  <2> QED BY <1>1, <2>1, HealNot
<1>2. ASSUME NEW verb \in {"lock", "unlock", "pin", "clear", "break"}, NEW c, Takes(p, verb, c), Done(p),
             UNCHANGED <<claim, lease, junk>>, mutex' = "dead" => mutex = "dead" /\ verb # "break",
             mutex' = "recent" => mutex = "recent", verb = "break" => UNCHANGED <<door, Snapshot>>
      PROVE  HealInv'
  <2>1. /\ proc'[p].todo = Rest(p)
        /\ Rest(p) # <<>> => proc'[p].rounds = proc[p].rounds /\ proc'[p].seen = proc[p].seen
    BY <1>2, DoneTodo
  <2>2. verb \in {"lock", "unlock", "pin", "clear", "tmp", "break"} /\ verb # "tmp"
    OBVIOUS
  <2> QED BY <1>2, <2>1, <2>2, HealCalm
<1>3. CASE Command(p) \/ Doctor(p) \/ Decide(p) \/ LookAgain(p) \/ Refuse(p) \/ ClaimFails(p) \/ DoorFails(p)
  BY <1>3, HealOther
<1>4. CASE Lock(p) \/ Unlock(p)
  <2>1. mutex' # "dead" /\ mutex' # "recent"
    BY <1>4, ProcessAssumption, NoneAssumption DEF Lock, Unlock
  <2>2. PICK verb \in {"lock", "unlock"} : Takes(p, verb, None)
    BY <1>4 DEF Lock, Unlock
  <2>3. Done(p) /\ UNCHANGED <<claim, lease, junk>>
    BY <1>4 DEF Lock, Unlock, files
  <2> QED BY <1>2, <2>1, <2>2, <2>3
<1>5. CASE Pin(p)
  <2>1. Takes(p, "pin", None) /\ Done(p) /\ UNCHANGED <<claim, lease, junk, mutex>>
    BY <1>5 DEF Pin
  <2> QED BY <1>2, <2>1
<1>6. CASE BreakMutex(p)
  <2>1. Takes(p, "break", None) /\ Done(p) /\ UNCHANGED files
        /\ mutex' # "dead" /\ (mutex' = "recent" => mutex = "recent")
    BY <1>6, NoneAssumption DEF BreakMutex
  <2>2. UNCHANGED <<claim, lease, junk, door, Snapshot>>
    BY <2>1, FilesSame DEF files
  <2> QED BY <1>2, <2>1, <2>2
<1>7. CASE ClearTmp(p)
  <2>1. Takes(p, "tmp", None) /\ junk' = FALSE /\ UNCHANGED <<claim, lease, mutex>>
    BY <1>7 DEF ClearTmp
  <2>2. proc'[p].todo = Rest(p) /\ proc'[p].rounds = proc[p].rounds
    BY <1>7, ClearTmpSection DEF Section
  <2>3. mutex' = "dead" => mutex = "dead" /\ "tmp" # "break"
    BY <2>1
  <2>5. "tmp" # "break" /\ (mutex' = "recent" => mutex = "recent")
    BY <2>1
  <2>4. junk' # TRUE
    BY <2>1
  <2> QED BY <2>1, <2>2, <2>3, <2>4, <2>5, HealCalm
<1>8. CASE Sweep(p) \/ Scan(p) \/ LastScan(p) \/ TakeSnapshot(p) \/ WriteDoor(p)
  BY <1>8, HealSweep, HealScan, HealLast, HealDoor
<1>9. CASE Rendered(p) \/ GivesUp(p)
  <2>1. Takes(p, "check", None) /\ Forgets(p) /\ mutex' = mutex
    BY <1>9 DEF Rendered, GivesUp
  <2>2. proc'[p].todo = Rest(p)
    BY <2>1, ForgetsSection DEF Section
  <2> QED BY <2>1, <2>2, HealNot
<1>10. CASE Report(p) \/ LeaveQueue(p)
  <2>1. \E verb \in {"report", "leave"} : Takes(p, verb, None) /\ Done(p)
    BY <1>10 DEF Report, LeaveQueue
  <2> QED BY <1>1, <2>1
<1>11. ASSUME NEW c \in Card, SaveClaim(p, c) \/ Renew(p, c) \/ ReadOwn(p, c) \/ RunBeat(p, c) PROVE HealInv'
  <2>1. \E verb \in {"save", "renew", "read", "beat"} : Takes(p, verb, c) /\ Done(p)
    BY <1>11 DEF SaveClaim, Renew, ReadOwn, RunBeat
  <2> QED BY <1>1, <2>1
<1>12. ASSUME NEW c \in Card, NEW e \in Entry, JoinQueue(p, c, e) PROVE HealInv'
  <2>1. Takes(p, "join", c) /\ proc'[p].todo = Rest(p)
    BY <1>12, JoinQueueSection DEF JoinQueue, Section
  <2> QED BY <2>1, HealNot
<1>13. ASSUME NEW c \in Card, ClearQueueFor(p, c) PROVE HealInv'
  <2>1. Takes(p, "clear", c) /\ Done(p) /\ UNCHANGED <<claim, lease, junk, mutex>>
    BY <1>13 DEF ClearQueueFor
  <2> QED BY <1>2, <2>1
<1>14. ASSUME NEW c \in Card,
              \/ Reap(p, c) \/ Mend(p, c) \/ TakeDown(p, c) \/ MoveClaim(p, c)
              \/ DropLease(p, c) \/ MoveLease(p, c) \/ LeaseCard(p, c) \/ DropOrphan(p, c)
       PROVE  HealInv'
  BY <1>14, HealReapMend, HealDown, HealLease, HealOrphan
<1>15. CASE \E c \in Card :
              \/ Reap(p, c) \/ SaveClaim(p, c) \/ LeaseCard(p, c) \/ Renew(p, c) \/ ReadOwn(p, c)
              \/ TakeDown(p, c) \/ DropLease(p, c) \/ ClearQueueFor(p, c)
              \/ MoveClaim(p, c) \/ MoveLease(p, c) \/ Mend(p, c) \/ DropOrphan(p, c)
              \/ \E e \in Entry : JoinQueue(p, c, e) /\ ~ByWait(p)
  BY <1>11, <1>12, <1>13, <1>14, <1>15
<1>16. CASE \E c \in Card : RunBeat(p, c) \/ \E e \in Entry : JoinQueue(p, c, e) /\ ByWait(p)
  BY <1>11, <1>12, <1>16
<1>17. CASE Tended(p)
  BY <1>3, <1>4, <1>5, <1>6, <1>7, <1>8, <1>9, <1>10, <1>15, <1>17 DEF Tended
<1>18. CASE Untended(p)
  BY <1>3, <1>8, <1>9, <1>10, <1>16, <1>18 DEF Untended
<1> QED BY <1>17, <1>18

LEMMA HealNext ==
    ASSUME TypeOK, SectionInv, CardInv, HealInv, [Next]_vars
    PROVE  HealInv'
<1>1. ASSUME NEW p \in Process, Tended(p) \/ Untended(p), Alone(p) PROVE HealInv'
  BY <1>1, HealStep
<1>2. ASSUME alone' = None PROVE HealInv'
  BY <1>2, NoneAssumption DEF HealInv
<1>3. CASE UNCHANGED vars
  <2>1. /\ UNCHANGED <<claim, lease, junk, mutex, door, proc, alone>> /\ Snapshot' = Snapshot
        /\ Healed' = Healed
    BY <1>3 DEF vars, Healed, Repairs, Snapshot, Stale, Up, There
  <2>2. ASSUME NEW p \in Process, Healing(p) PROVE Healing(p)'
    BY <2>1, <2>2 DEF Healing
  <2> QED BY <2>1, <2>2 DEF HealInv
<1>4. CASE AgeMutex /\ \E p \in Process : alone = p /\ Takes(p, "lock", None)
  <2>1. /\ UNCHANGED <<claim, lease, junk, door, proc, alone>> /\ Snapshot' = Snapshot
        /\ mutex = "recent" /\ mutex' = "dead"
    BY <1>4, FilesSame DEF AgeMutex, files
  <2>2. PICK p \in Process : alone = p /\ Takes(p, "lock", None)
    BY <1>4
  <2> DEFINE steps == ToSet(proc[p].todo)
  <2>3. steps = ToSet(Rest(p)) \cup {A("lock")}
    BY <2>2, TakesSet DEF A
  <2>4. A("report") \notin steps
    <3>1. \A y \in ToSet(Rest(p)) : Fits(<<"lock", None>>, y)
      BY <2>2, RestShape
    <3>2. A("report") \notin ToSet(Rest(p))
      BY <3>1 DEF Fits, A
    <3>3. A("report") # A("lock")
      BY DEF A
    <3> QED BY <2>3, <3>2, <3>3
  <2>5. Found(steps, claim, lease, junk, mutex) => Found(steps, claim, lease, junk, mutex')
    BY <2>1, <2>3 DEF Found
  <2>6. Healing(p)
    BY <2>2 DEF HealInv
  <2>7. Healing(p)'
    <3> HIDE DEF steps
    <3>1. ToSet(proc[p].todo) = steps /\ ToSet(proc'[p].todo) = steps
      BY <2>1 DEF steps
    <3> QED BY <2>1, <2>4, <2>5, <2>6, <3>1 DEF Healing
  <2> QED BY <2>1, <2>2, <2>7 DEF HealInv
<1> QED BY <1>1, <1>2, <1>3, <1>4 DEF Next, AgeMutex

\* Four rounds of repairs are enough for any number of cards and whatever is wrong with
\* them: the last scan of a doctor that was alone found nothing that it could repair.
THEOREM DoctorsHeal == Spec => []DoctorHeals
<1>1. Init => HealInv
  BY NoneAssumption DEF Init, HealInv
<1>2. UpkeepInv /\ HealInv /\ [Next]_vars => HealInv'
  BY HealNext DEF UpkeepInv
<1>3. UpkeepInv /\ HealInv => DoctorHeals
  <2> SUFFICES ASSUME UpkeepInv, HealInv, NEW p \in Process, Busy(p), Head(proc[p].todo) = A("report"), alone = p
               PROVE  Healed
    BY DEF DoctorHeals, Healed
  <2>1. ToSet(proc[p].todo) = ToSet(Rest(p)) \cup {<<"report", None>>}
    BY TakesSet DEF UpkeepInv, Takes, A
  <2>2. A("report") \in ToSet(proc[p].todo) /\ Healing(p)
    BY <2>1 DEF HealInv, A
  <2> QED BY <2>2 DEF Healing
<1> QED BY <1>1, <1>2, <1>3, UpkeepInvariant, PTL DEF Spec

-----------------------------------------------------------------------------
(* The mutex. *)

\* Whoever is about to decide about a claim, to write or archive a card, to drop its lease or
\* to clear its waiters, holds the registry mutex, after errors and doctors as well (With).
THEOREM GuardedByTheMutex ==
    Spec => [](\A p \in Process, verb \in Guarded, c \in Card \cup {None} : Takes(p, verb, c) => mutex = p)
<1>1. UpkeepInv => \A p \in Process, verb \in Guarded, c \in Card \cup {None} : Takes(p, verb, c) => mutex = p
  BY TakesGuarded DEF UpkeepInv
<1> QED BY <1>1, UpkeepInvariant, PTL
=============================================================================
