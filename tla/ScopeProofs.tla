------------------------------ MODULE ScopeProofs ------------------------------
(* What holds of the path patterns for every alphabet, pattern and file. The      *)
(* algorithms are recursive functions, loops over sequences among them; that such  *)
(* a function satisfies its equation is what the lemmas of the first part give.    *)
EXTENDS ScopeQueries, SequenceTheorems, WellFoundedInduction, TLAPS

(* Recursion and induction over numbers. *)

LEMMA LeastNumber ==
    ASSUME NEW T \in SUBSET Nat, T # {}
    PROVE  \E n \in T : \A m \in T : n <= m
<1>1. IsWellFoundedOn(OpToRel(<, Nat), Nat)
  BY NatLessThanWellFounded
<1>2. PICK n \in T : \A m \in T : ~ (<<m, n>> \in OpToRel(<, Nat))
  BY <1>1, WFMin
<1>3. \A m \in T : ~ (m < n)
  BY <1>2 DEF OpToRel
<1> QED BY <1>3

LEMMA GreatestNumber ==
    ASSUME NEW n \in Nat, NEW T \in SUBSET (0..n), T # {}
    PROVE  \E m \in T : \A k \in T : k <= m
<1> DEFINE U == {u \in 0..n : n - u \in T}
<1>1. PICK t \in T : TRUE
  OBVIOUS
<1>2. n - t \in U
  <2>1. t \in 0..n /\ n - (n - t) = t
    OBVIOUS
  <2> QED BY <2>1
<1>3. PICK u \in U : \A w \in U : u <= w
  <2> HIDE DEF U
  <2>1. U \in SUBSET Nat BY DEF U
  <2> QED BY <1>2, <2>1, LeastNumber
<1>4. ASSUME NEW k \in T PROVE k <= n - u
  <2>1. k \in 0..n /\ n - (n - k) = k
    OBVIOUS
  <2>2. n - k \in U
    BY <2>1
  <2>3. u \in 0..n /\ u <= n - k
    BY <2>2, <1>3
  <2> QED BY <2>1, <2>3
<1> QED BY <1>3, <1>4

LEMMA Induction ==
    ASSUME NEW S \in SUBSET Nat,
           \A n \in Nat : (\A m \in Nat : m < n => m \in S) => n \in S
    PROVE  S = Nat
<1> SUFFICES ASSUME Nat \ S # {} PROVE FALSE
  OBVIOUS
<1>1. PICK n \in Nat \ S : \A m \in Nat \ S : n <= m
  BY LeastNumber
<1>2. \A m \in Nat : m < n => m \in S
  BY <1>1
<1> QED BY <1>1, <1>2

\* A step of a recursion, Step, makes of a table the table in which each place is
\* computed from those before it. There is a table that it leaves as it is.
Ranked(D, V, rank, Step) ==
    /\ rank \in [D -> Nat] /\ Step \in [[D -> V] -> [D -> V]]
    /\ \A g, h \in [D -> V] : \A x \in D :
          (\A y \in D : rank[y] < rank[x] => g[y] = h[y]) => Step[g][x] = Step[h][x]

LEMMA Recursion ==
    ASSUME NEW D, NEW V, NEW v \in V, NEW rank, NEW Step, Ranked(D, V, rank, Step)
    PROVE  \E f \in [D -> V] : f = Step[f]
<1>0. /\ rank \in [D -> Nat] /\ Step \in [[D -> V] -> [D -> V]]
      /\ \A g, h \in [D -> V] : \A x \in D :
            (\A y \in D : rank[y] < rank[x] => g[y] = h[y]) => Step[g][x] = Step[h][x]
  BY DEF Ranked
<1> USE <1>0
<1> DEFINE Good(n, f) == \A x \in D : rank[x] < n => f[x] = Step[f][x]
           S == {n \in Nat : \E f \in [D -> V] : Good(n, f)}
<1>1. 0 \in S
  <2>1. [x \in D |-> v] \in [D -> V] /\ Good(0, [x \in D |-> v])
    OBVIOUS
  <2> QED BY <2>1
<1>2. ASSUME NEW n \in S PROVE n + 1 \in S
  <2>1. PICK f \in [D -> V] : Good(n, f)
    OBVIOUS
  <2>2. Step[f] \in [D -> V]
    OBVIOUS
  <2>3. Good(n + 1, Step[f])
    <3> SUFFICES ASSUME NEW x \in D, rank[x] < n + 1 PROVE Step[f][x] = Step[Step[f]][x]
      OBVIOUS
    <3>1. \A y \in D : rank[y] < rank[x] => f[y] = Step[f][y]
      BY <2>1
    <3> QED BY <2>2, <3>1
  <2> QED BY <2>2, <2>3
<1>3. S = Nat
  <2> HIDE <1>0 DEF S
  <2>1. S \in SUBSET Nat BY DEF S
  <2>2. ASSUME NEW n \in Nat, \A m \in Nat : m < n => m \in S PROVE n \in S
    <3>1. CASE n = 0 BY <3>1, <1>1
    <3>2. CASE n # 0
      <4>1. n - 1 \in Nat /\ n - 1 < n BY <3>2
      <4>2. n - 1 \in S BY <4>1, <2>2
      <4> QED BY <4>1, <4>2, <1>2
    <3> QED BY <3>1, <3>2
  <2> QED BY <2>1, <2>2, Induction
<1>4. ASSUME NEW n \in Nat, NEW f \in [D -> V], NEW g \in [D -> V], Good(n, f), Good(n, g)
      PROVE  \A x \in D : rank[x] < n => f[x] = g[x]
  <2> DEFINE T == {m \in Nat : \A x \in D : rank[x] = m /\ rank[x] < n => f[x] = g[x]}
  <2>1. ASSUME NEW m \in Nat, \A k \in Nat : k < m => k \in T PROVE m \in T
    <3> SUFFICES ASSUME NEW x \in D, rank[x] = m, rank[x] < n PROVE f[x] = g[x]
      OBVIOUS
    <3>1. \A y \in D : rank[y] < rank[x] => f[y] = g[y]
      BY <2>1
    <3>2. Step[f][x] = Step[g][x]
      BY <3>1
    <3> QED BY <3>2, <1>4
  <2>2. T = Nat
    <3> HIDE DEF T
    <3>1. T \in SUBSET Nat BY DEF T
    <3> QED BY <2>1, <3>1, Induction
  <2> QED BY <2>2
<1> DEFINE F(n) == CHOOSE f \in [D -> V] : Good(n, f)
           ff == [x \in D |-> F(rank[x] + 1)[x]]
<1>5. \A n \in Nat : F(n) \in [D -> V] /\ Good(n, F(n))
  <2> SUFFICES ASSUME NEW n \in Nat PROVE F(n) \in [D -> V] /\ Good(n, F(n))
    OBVIOUS
  <2>1. \E f \in [D -> V] : Good(n, f) BY <1>3
  <2> HIDE DEF Good
  <2> QED BY <2>1
<1> HIDE DEF F
<1>6. ff \in [D -> V]
  BY <1>5
<1>7. ASSUME NEW x \in D PROVE ff[x] = Step[ff][x]
  <2> DEFINE f == F(rank[x] + 1)
  <2>1. f \in [D -> V] /\ Good(rank[x] + 1, f)
    BY <1>5
  <2>2. ASSUME NEW y \in D, rank[y] < rank[x] PROVE ff[y] = f[y]
    <3>1. Good(rank[y] + 1, f) BY <2>1, <2>2
    <3>2. F(rank[y] + 1) \in [D -> V] /\ Good(rank[y] + 1, F(rank[y] + 1)) BY <1>5
    <3>3. F(rank[y] + 1)[y] = f[y]
      <4> HIDE DEF Good, f
      <4> QED BY <3>1, <3>2, <2>1, <1>4
    <3> QED BY <3>3
  <2>3. Step[ff][x] = Step[f][x]
    <3> HIDE DEF ff, f
    <3> QED BY <2>1, <2>2, <1>6
  <2>4. f[x] = Step[f][x]
    BY <2>1
  <2> QED BY <2>3, <2>4
<1>8. ff = Step[ff]
  <2>1. Step[ff] \in [D -> V] BY <1>6
  <2> HIDE DEF ff
  <2> QED BY <1>6, <1>7, <2>1
<1> QED BY <1>6, <1>8

LEMMA BooleanRecursion ==
    ASSUME NEW D, NEW rank, NEW Step, Ranked(D, BOOLEAN, rank, Step)
    PROVE  \E f \in [D -> BOOLEAN] : f = Step[f]
<1> DEFINE V == BOOLEAN
<1>1. PICK v \in V : TRUE
  OBVIOUS
<1>2. Ranked(D, V, rank, Step)
  OBVIOUS
<1> HIDE DEF V
<1>3. \E f \in [D -> V] : f = Step[f]
  BY <1>1, <1>2, Recursion
<1> QED BY <1>3 DEF V

-----------------------------------------------------------------------------
(* Folds: what FoldLeft computes, place by place. *)

LEMMA MaxOf ==
    ASSUME NEW n \in Nat, NEW T \in SUBSET (1..n), T # {}
    PROVE  Max(T) \in T /\ \A k \in T : k <= Max(T)
<1>0. T \in SUBSET (0..n)
  OBVIOUS
<1>1. PICK m \in T : \A k \in T : k <= m
  BY <1>0, GreatestNumber
<1>2. \A k \in T : m >= k
  BY <1>1
<1>3. Max(T) \in T /\ \A k \in T : Max(T) >= k
  BY <1>2, Zenon DEF Max
<1> QED BY <1>3

LEMMA MaxInterval ==
    ASSUME NEW n \in Nat, NEW k \in 1..n
    PROVE  Max(1..k) = k /\ (1..k) \ {k} = 1..(k - 1)
<1>1. (1..k) \in SUBSET (1..n) /\ (1..k) # {} /\ k \in 1..k
  OBVIOUS
<1>2. Max(1..k) \in 1..k /\ k <= Max(1..k)
  BY <1>1, MaxOf
<1> QED BY <1>2

\* A table over the sets of places, computed from the set without its greatest place.
FoldsTo(n, base, step, f) ==
    f = [T \in SUBSET (1..n) |->
            IF T = {} THEN base ELSE step[<<f[T \ {Max(T)}], Max(T)>>]]

LEMMA FoldTable ==
    ASSUME NEW n \in Nat, NEW V, NEW base \in V, NEW step \in [V \X (1..n) -> V]
    PROVE  \E f \in [SUBSET (1..n) -> V] : FoldsTo(n, base, step, f)
<1> DEFINE D == SUBSET (1..n)
           rank == [T \in D |-> IF T = {} THEN 0 ELSE Max(T)]
           Step == [f \in [D -> V] |->
                      [T \in D |-> IF T = {} THEN base ELSE step[<<f[T \ {Max(T)}], Max(T)>>]]]
<1>1. \A T \in D : T # {} => Max(T) \in 1..n /\ T \ {Max(T)} \in D
  BY MaxOf
<1>2. rank \in [D -> Nat]
  BY <1>1
<1>3. Step \in [[D -> V] -> [D -> V]]
  <2> SUFFICES ASSUME NEW f \in [D -> V], NEW T \in D, T # {}
               PROVE  step[<<f[T \ {Max(T)}], Max(T)>>] \in V
    OBVIOUS
  <2>1. f[T \ {Max(T)}] \in V /\ Max(T) \in 1..n
    BY <1>1
  <2> QED BY <2>1
<1>4. ASSUME NEW g \in [D -> V], NEW h \in [D -> V], NEW T \in D,
             \A U \in D : rank[U] < rank[T] => g[U] = h[U]
      PROVE  Step[g][T] = Step[h][T]
  <2>1. CASE T = {} BY <2>1
  <2>2. CASE T # {}
    <3> DEFINE U == T \ {Max(T)}
    <3>1. U \in D /\ rank[T] = Max(T) /\ Max(T) \in 1..n /\ Max(T) \in T
      BY <2>2, <1>1, MaxOf
    <3>2. rank[U] < Max(T)
      <4>1. CASE U = {} BY <4>1, <3>1
      <4>2. CASE U # {}
        <5>1. Max(U) \in U BY <4>2, <3>1, MaxOf
        <5>2. \A k \in T : k <= Max(T) BY <2>2, MaxOf
        <5>3. Max(U) \in 1..n /\ Max(U) # Max(T) /\ Max(U) <= Max(T) BY <5>1, <5>2, <3>1
        <5> QED BY <5>3, <4>2, <3>1
      <4> QED BY <4>1, <4>2
    <3>3. g[U] = h[U] BY <3>1, <3>2, <1>4
    <3> QED BY <3>3, <2>2
  <2> QED BY <2>1, <2>2
<1>5. \E f \in [D -> V] : f = Step[f]
  <2>1. \A g, h \in [D -> V] : \A T \in D :
           (\A U \in D : rank[U] < rank[T] => g[U] = h[U]) => Step[g][T] = Step[h][T]
    <3> HIDE DEF D, rank, Step
    <3> QED BY <1>4
  <2> HIDE DEF D, rank, Step
  <2>2. Ranked(D, V, rank, Step)
    BY <1>2, <1>3, <2>1 DEF Ranked
  <2> QED BY <2>2, Recursion
<1> QED BY <1>5 DEF FoldsTo

\* Along the intervals 1..k such a table gives the results of a loop, round by round.
Rounds(n, V, base, step, iter) ==
    /\ step \in [V \X (1..n) -> V] /\ iter[{}] = base
    /\ \A k \in 1..n :
          iter[1..(k - 1)] \in V => iter[1..k] = step[<<iter[1..(k - 1)], k>>]

LEMMA FoldPlaces ==
    ASSUME NEW n \in Nat, NEW V, NEW base \in V, NEW step, NEW iter,
           Rounds(n, V, base, step, iter)
    PROVE  \E f \in [0..n -> V] :
               /\ f[0] = base /\ f[n] = iter[1..n]
               /\ \A k \in 1..n : f[k] = step[<<f[k - 1], k>>]
<1>0. /\ step \in [V \X (1..n) -> V] /\ iter[{}] = base
      /\ \A k \in 1..n :
            iter[1..(k - 1)] \in V => iter[1..k] = step[<<iter[1..(k - 1)], k>>]
  BY DEF Rounds
<1> DEFINE f == [k \in 0..n |-> iter[1..k]]
<1>1. f[0] = base
  <2>1. 1..0 = {} /\ 0 \in 0..n OBVIOUS
  <2> QED BY <2>1, <1>0
<1>2. ASSUME NEW k \in 1..n, f[k - 1] \in V PROVE f[k] = step[<<f[k - 1], k>>] /\ f[k] \in V
  <2>1. k - 1 \in 0..n /\ k \in 0..n OBVIOUS
  <2>2. f[k] = step[<<f[k - 1], k>>] BY <2>1, <1>0, <1>2
  <2> HIDE DEF f
  <2> QED BY <2>2, <1>0, <1>2
<1>3. ASSUME NEW k \in 0..n PROVE f[k] \in V
  <2> DEFINE S == {i \in Nat : i <= n => f[i] \in V}
  <2>1. ASSUME NEW i \in Nat, \A m \in Nat : m < i => m \in S PROVE i \in S
    <3>1. CASE i = 0 BY <3>1, <1>1
    <3>2. CASE i # 0 /\ i <= n
      <4>1. i \in 1..n /\ i - 1 \in Nat /\ i - 1 < i /\ i - 1 <= n BY <3>2
      <4>2. f[i - 1] \in V BY <4>1, <2>1
      <4>3. f[i] \in V
        <5> HIDE DEF f
        <5> QED BY <4>1, <4>2, <1>2
      <4> QED BY <4>3
    <3> QED BY <3>1, <3>2
  <2>2. S = Nat
    <3> HIDE DEF S
    <3>1. S \in SUBSET Nat BY DEF S
    <3> QED BY <2>1, <3>1, Induction
  <2> HIDE DEF f
  <2>3. k \in S BY <2>2
  <2> QED BY <2>3
<1>4. ASSUME NEW k \in 1..n PROVE f[k] = step[<<f[k - 1], k>>]
  <2>1. k - 1 \in 0..n OBVIOUS
  <2> HIDE DEF f
  <2> QED BY <2>1, <1>2, <1>3
<1>5. f \in [0..n -> V]
  <2> HIDE DEF f
  <2>1. f = [k \in 0..n |-> f[k]] BY DEF f
  <2> QED BY <2>1, <1>3
<1>6. f[n] = iter[1..n]
  OBVIOUS
<1> HIDE DEF f
<1> QED BY <1>1, <1>4, <1>5, <1>6

\* The loop of normalizeRanges.
JoinedRounds(V, s, n, f) ==
    /\ f \in [0..n -> V]
    /\ f[0] = <<>> /\ f[n] = FoldLeft(Joined, <<>>, s)
    /\ \A k \in 1..n : f[k] = Joined(f[k - 1], s[k])

LEMMA JoinedFold ==
    ASSUME NEW V, NEW s, NEW n \in Nat, DOMAIN s = 1..n, <<>> \in V,
           \A out \in V : \A k \in 1..n : Joined(out, s[k]) \in V
    PROVE  \E f : JoinedRounds(V, s, n, f)
<1> DEFINE D == SUBSET (1..n)
           iter == CHOOSE iter : iter = [T \in D |->
                      IF T = {} THEN <<>> ELSE Joined(iter[T \ {Max(T)}], s[Max(T)])]
           step == [a \in V \X (1..n) |-> Joined(a[1], s[a[2]])]
<1>1. FoldLeft(Joined, <<>>, s) = iter[1..n]
  BY DEF FoldLeft, MapThenFoldSet
<1>2. step \in [V \X (1..n) -> V]
  OBVIOUS
<1>3. PICK g \in [D -> V] : g = [T \in D |->
                      IF T = {} THEN <<>> ELSE step[<<g[T \ {Max(T)}], Max(T)>>]]
  <2> HIDE DEF step
  <2>1. \E g \in [D -> V] : FoldsTo(n, <<>>, step, g)
    BY <1>2, FoldTable
  <2> QED BY <2>1 DEF FoldsTo
<1>4. ASSUME NEW T \in D, T # {}
      PROVE  step[<<g[T \ {Max(T)}], Max(T)>>] = Joined(g[T \ {Max(T)}], s[Max(T)])
  <2>1. Max(T) \in 1..n BY <1>4, MaxOf
  <2>2. g[T \ {Max(T)}] \in V BY <1>4
  <2> QED BY <2>1, <2>2
<1>5. g = [T \in D |-> IF T = {} THEN <<>> ELSE Joined(g[T \ {Max(T)}], s[Max(T)])]
  <2> HIDE DEF step
  <2> QED BY <1>3, <1>4
<1>6. iter = [T \in D |-> IF T = {} THEN <<>> ELSE Joined(iter[T \ {Max(T)}], s[Max(T)])]
  BY <1>5, Zenon
<1> HIDE DEF iter
<1>7. iter[{}] = <<>>
  BY <1>6
<1>8. ASSUME NEW k \in 1..n, iter[1..(k - 1)] \in V
      PROVE  iter[1..k] = step[<<iter[1..(k - 1)], k>>]
  <2>1. (1..k) \in D /\ (1..k) # {}
    <3>1. k \in 1..k OBVIOUS
    <3>2. (1..k) \subseteq (1..n) OBVIOUS
    <3> QED BY <3>1, <3>2
  <2>2. Max(1..k) = k /\ (1..k) \ {k} = 1..(k - 1) BY MaxInterval
  <2>3. iter[1..k] = Joined(iter[1..(k - 1)], s[k]) BY <2>1, <2>2, <1>6
  <2>4. step[<<iter[1..(k - 1)], k>>] = Joined(iter[1..(k - 1)], s[k]) BY <1>8
  <2> QED BY <2>3, <2>4
<1>9. PICK f \in [0..n -> V] :
          /\ f[0] = <<>> /\ f[n] = iter[1..n]
          /\ \A k \in 1..n : f[k] = step[<<f[k - 1], k>>]
  <2> HIDE DEF step
  <2>1. Rounds(n, V, <<>>, step, iter)
    BY <1>2, <1>7, <1>8 DEF Rounds
  <2> QED BY <2>1, FoldPlaces
<1>10. ASSUME NEW k \in 1..n PROVE f[k] = Joined(f[k - 1], s[k])
  <2>1. f[k - 1] \in V
    <3>1. k - 1 \in 0..n OBVIOUS
    <3> QED BY <3>1
  <2> QED BY <2>1, <1>9
<1> HIDE DEF step
<1>11. JoinedRounds(V, s, n, f)
  BY <1>1, <1>9, <1>10 DEF JoinedRounds
<1> QED BY <1>11

\* Its sort.
InsertedRounds(V, s, n, f) ==
    /\ f \in [0..n -> V]
    /\ f[0] = <<>> /\ f[n] = FoldLeft(Inserted, <<>>, s)
    /\ \A k \in 1..n : f[k] = Inserted(f[k - 1], s[k])

LEMMA InsertedFold ==
    ASSUME NEW V, NEW s, NEW n \in Nat, DOMAIN s = 1..n, <<>> \in V,
           \A out \in V : \A k \in 1..n : Inserted(out, s[k]) \in V
    PROVE  \E f : InsertedRounds(V, s, n, f)
<1> DEFINE D == SUBSET (1..n)
           iter == CHOOSE iter : iter = [T \in D |->
                      IF T = {} THEN <<>> ELSE Inserted(iter[T \ {Max(T)}], s[Max(T)])]
           step == [a \in V \X (1..n) |-> Inserted(a[1], s[a[2]])]
<1>1. FoldLeft(Inserted, <<>>, s) = iter[1..n]
  BY DEF FoldLeft, MapThenFoldSet
<1>2. step \in [V \X (1..n) -> V]
  OBVIOUS
<1>3. PICK g \in [D -> V] : g = [T \in D |->
                      IF T = {} THEN <<>> ELSE step[<<g[T \ {Max(T)}], Max(T)>>]]
  <2> HIDE DEF step
  <2>1. \E g \in [D -> V] : FoldsTo(n, <<>>, step, g)
    BY <1>2, FoldTable
  <2> QED BY <2>1 DEF FoldsTo
<1>4. ASSUME NEW T \in D, T # {}
      PROVE  step[<<g[T \ {Max(T)}], Max(T)>>] = Inserted(g[T \ {Max(T)}], s[Max(T)])
  <2>1. Max(T) \in 1..n BY <1>4, MaxOf
  <2>2. g[T \ {Max(T)}] \in V BY <1>4
  <2> QED BY <2>1, <2>2
<1>5. g = [T \in D |-> IF T = {} THEN <<>> ELSE Inserted(g[T \ {Max(T)}], s[Max(T)])]
  <2> HIDE DEF step
  <2> QED BY <1>3, <1>4
<1>6. iter = [T \in D |-> IF T = {} THEN <<>> ELSE Inserted(iter[T \ {Max(T)}], s[Max(T)])]
  BY <1>5, Zenon
<1> HIDE DEF iter
<1>7. iter[{}] = <<>>
  BY <1>6
<1>8. ASSUME NEW k \in 1..n, iter[1..(k - 1)] \in V
      PROVE  iter[1..k] = step[<<iter[1..(k - 1)], k>>]
  <2>1. (1..k) \in D /\ (1..k) # {}
    <3>1. k \in 1..k OBVIOUS
    <3>2. (1..k) \subseteq (1..n) OBVIOUS
    <3> QED BY <3>1, <3>2
  <2>2. Max(1..k) = k /\ (1..k) \ {k} = 1..(k - 1) BY MaxInterval
  <2>3. iter[1..k] = Inserted(iter[1..(k - 1)], s[k]) BY <2>1, <2>2, <1>6
  <2>4. step[<<iter[1..(k - 1)], k>>] = Inserted(iter[1..(k - 1)], s[k]) BY <1>8
  <2> QED BY <2>3, <2>4
<1>9. PICK f \in [0..n -> V] :
          /\ f[0] = <<>> /\ f[n] = iter[1..n]
          /\ \A k \in 1..n : f[k] = step[<<f[k - 1], k>>]
  <2> HIDE DEF step
  <2>1. Rounds(n, V, <<>>, step, iter)
    BY <1>2, <1>7, <1>8 DEF Rounds
  <2> QED BY <2>1, FoldPlaces
<1>10. ASSUME NEW k \in 1..n PROVE f[k] = Inserted(f[k - 1], s[k])
  <2>1. f[k - 1] \in V
    <3>1. k - 1 \in 0..n OBVIOUS
    <3> QED BY <3>1
  <2> QED BY <2>1, <1>9
<1> HIDE DEF step
<1>11. InsertedRounds(V, s, n, f)
  BY <1>1, <1>9, <1>10 DEF InsertedRounds
<1> QED BY <1>11

\* strings.Split.
SplitRounds(V, s, n, f) ==
    /\ f \in [0..n -> V]
    /\ f[0] = << <<>> >> /\ f[n] = FoldLeft(Split, << <<>> >>, s)
    /\ \A k \in 1..n : f[k] = Split(f[k - 1], s[k])

LEMMA SplitFold ==
    ASSUME NEW V, NEW s, NEW n \in Nat, DOMAIN s = 1..n, << <<>> >> \in V,
           \A out \in V : \A k \in 1..n : Split(out, s[k]) \in V
    PROVE  \E f : SplitRounds(V, s, n, f)
<1> DEFINE D == SUBSET (1..n)
           iter == CHOOSE iter : iter = [T \in D |->
                      IF T = {} THEN << <<>> >> ELSE Split(iter[T \ {Max(T)}], s[Max(T)])]
           step == [a \in V \X (1..n) |-> Split(a[1], s[a[2]])]
<1>1. FoldLeft(Split, << <<>> >>, s) = iter[1..n]
  BY DEF FoldLeft, MapThenFoldSet
<1>2. step \in [V \X (1..n) -> V]
  OBVIOUS
<1>3. PICK g \in [D -> V] : g = [T \in D |->
                      IF T = {} THEN << <<>> >> ELSE step[<<g[T \ {Max(T)}], Max(T)>>]]
  <2> HIDE DEF step
  <2>1. \E g \in [D -> V] : FoldsTo(n, << <<>> >>, step, g)
    BY <1>2, FoldTable
  <2> QED BY <2>1 DEF FoldsTo
<1>4. ASSUME NEW T \in D, T # {}
      PROVE  step[<<g[T \ {Max(T)}], Max(T)>>] = Split(g[T \ {Max(T)}], s[Max(T)])
  <2>1. Max(T) \in 1..n BY <1>4, MaxOf
  <2>2. g[T \ {Max(T)}] \in V BY <1>4
  <2> QED BY <2>1, <2>2
<1>5. g = [T \in D |-> IF T = {} THEN << <<>> >> ELSE Split(g[T \ {Max(T)}], s[Max(T)])]
  <2> HIDE DEF step
  <2> QED BY <1>3, <1>4
<1>6. iter = [T \in D |-> IF T = {} THEN << <<>> >> ELSE Split(iter[T \ {Max(T)}], s[Max(T)])]
  BY <1>5, Zenon
<1> HIDE DEF iter
<1>7. iter[{}] = << <<>> >>
  BY <1>6
<1>8. ASSUME NEW k \in 1..n, iter[1..(k - 1)] \in V
      PROVE  iter[1..k] = step[<<iter[1..(k - 1)], k>>]
  <2>1. (1..k) \in D /\ (1..k) # {}
    <3>1. k \in 1..k OBVIOUS
    <3>2. (1..k) \subseteq (1..n) OBVIOUS
    <3> QED BY <3>1, <3>2
  <2>2. Max(1..k) = k /\ (1..k) \ {k} = 1..(k - 1) BY MaxInterval
  <2>3. iter[1..k] = Split(iter[1..(k - 1)], s[k]) BY <2>1, <2>2, <1>6
  <2>4. step[<<iter[1..(k - 1)], k>>] = Split(iter[1..(k - 1)], s[k]) BY <1>8
  <2> QED BY <2>3, <2>4
<1>9. PICK f \in [0..n -> V] :
          /\ f[0] = << <<>> >> /\ f[n] = iter[1..n]
          /\ \A k \in 1..n : f[k] = step[<<f[k - 1], k>>]
  <2> HIDE DEF step
  <2>1. Rounds(n, V, << <<>> >>, step, iter)
    BY <1>2, <1>7, <1>8 DEF Rounds
  <2> QED BY <2>1, FoldPlaces
<1>10. ASSUME NEW k \in 1..n PROVE f[k] = Split(f[k - 1], s[k])
  <2>1. f[k - 1] \in V
    <3>1. k - 1 \in 0..n OBVIOUS
    <3> QED BY <3>1
  <2> QED BY <2>1, <1>9
<1> HIDE DEF step
<1>11. SplitRounds(V, s, n, f)
  BY <1>1, <1>9, <1>10 DEF SplitRounds
<1> QED BY <1>11

\* The loop of segTokens.
CollapsedRounds(V, s, n, f) ==
    /\ f \in [0..n -> V]
    /\ f[0] = <<>> /\ f[n] = FoldLeft(Collapsed, <<>>, s)
    /\ \A k \in 1..n : f[k] = Collapsed(f[k - 1], s[k])

LEMMA CollapsedFold ==
    ASSUME NEW V, NEW s, NEW n \in Nat, DOMAIN s = 1..n, <<>> \in V,
           \A out \in V : \A k \in 1..n : Collapsed(out, s[k]) \in V
    PROVE  \E f : CollapsedRounds(V, s, n, f)
<1> DEFINE D == SUBSET (1..n)
           iter == CHOOSE iter : iter = [T \in D |->
                      IF T = {} THEN <<>> ELSE Collapsed(iter[T \ {Max(T)}], s[Max(T)])]
           step == [a \in V \X (1..n) |-> Collapsed(a[1], s[a[2]])]
<1>1. FoldLeft(Collapsed, <<>>, s) = iter[1..n]
  BY DEF FoldLeft, MapThenFoldSet
<1>2. step \in [V \X (1..n) -> V]
  OBVIOUS
<1>3. PICK g \in [D -> V] : g = [T \in D |->
                      IF T = {} THEN <<>> ELSE step[<<g[T \ {Max(T)}], Max(T)>>]]
  <2> HIDE DEF step
  <2>1. \E g \in [D -> V] : FoldsTo(n, <<>>, step, g)
    BY <1>2, FoldTable
  <2> QED BY <2>1 DEF FoldsTo
<1>4. ASSUME NEW T \in D, T # {}
      PROVE  step[<<g[T \ {Max(T)}], Max(T)>>] = Collapsed(g[T \ {Max(T)}], s[Max(T)])
  <2>1. Max(T) \in 1..n BY <1>4, MaxOf
  <2>2. g[T \ {Max(T)}] \in V BY <1>4
  <2> QED BY <2>1, <2>2
<1>5. g = [T \in D |-> IF T = {} THEN <<>> ELSE Collapsed(g[T \ {Max(T)}], s[Max(T)])]
  <2> HIDE DEF step
  <2> QED BY <1>3, <1>4
<1>6. iter = [T \in D |-> IF T = {} THEN <<>> ELSE Collapsed(iter[T \ {Max(T)}], s[Max(T)])]
  BY <1>5, Zenon
<1> HIDE DEF iter
<1>7. iter[{}] = <<>>
  BY <1>6
<1>8. ASSUME NEW k \in 1..n, iter[1..(k - 1)] \in V
      PROVE  iter[1..k] = step[<<iter[1..(k - 1)], k>>]
  <2>1. (1..k) \in D /\ (1..k) # {}
    <3>1. k \in 1..k OBVIOUS
    <3>2. (1..k) \subseteq (1..n) OBVIOUS
    <3> QED BY <3>1, <3>2
  <2>2. Max(1..k) = k /\ (1..k) \ {k} = 1..(k - 1) BY MaxInterval
  <2>3. iter[1..k] = Collapsed(iter[1..(k - 1)], s[k]) BY <2>1, <2>2, <1>6
  <2>4. step[<<iter[1..(k - 1)], k>>] = Collapsed(iter[1..(k - 1)], s[k]) BY <1>8
  <2> QED BY <2>3, <2>4
<1>9. PICK f \in [0..n -> V] :
          /\ f[0] = <<>> /\ f[n] = iter[1..n]
          /\ \A k \in 1..n : f[k] = step[<<f[k - 1], k>>]
  <2> HIDE DEF step
  <2>1. Rounds(n, V, <<>>, step, iter)
    BY <1>2, <1>7, <1>8 DEF Rounds
  <2> QED BY <2>1, FoldPlaces
<1>10. ASSUME NEW k \in 1..n PROVE f[k] = Collapsed(f[k - 1], s[k])
  <2>1. f[k - 1] \in V
    <3>1. k - 1 \in 0..n OBVIOUS
    <3> QED BY <3>1
  <2> QED BY <2>1, <1>9
<1> HIDE DEF step
<1>11. CollapsedRounds(V, s, n, f)
  BY <1>1, <1>9, <1>10 DEF CollapsedRounds
<1> QED BY <1>11

\* The recursion of FlattenSeq: what it has put together after each part.
Flattening(X, seqs, n, f) ==
    /\ f \in [1..n -> Seq(X)]
    /\ f[1] = seqs[1] /\ FlattenSeq(seqs) = f[n]
    /\ \A k \in 2..n : f[k] = f[k - 1] \o seqs[k]

LEMMA FlattenTable ==
    ASSUME NEW X, NEW seqs \in Seq(Seq(X)), NEW n \in Nat, n = Len(seqs), n > 0
    PROVE  \E f : Flattening(X, seqs, n, f)
<1> DEFINE D == 1..n
           V == Seq(X)
           flatten == CHOOSE flatten : flatten = [i \in 1..Len(seqs) |->
                          IF i = 1 THEN seqs[i] ELSE flatten[i - 1] \o seqs[i]]
           rank == [i \in D |-> i]
           Step == [g \in [D -> V] |-> [i \in D |-> IF i = 1 THEN seqs[i] ELSE g[i - 1] \o seqs[i]]]
<1>1. FlattenSeq(seqs) = flatten[n]
  BY DEF FlattenSeq
<1>2. \A i \in D : seqs[i] \in Seq(X)
  OBVIOUS
<1>3. Step \in [[D -> V] -> [D -> V]]
  <2> SUFFICES ASSUME NEW g \in [D -> V], NEW i \in D, i # 1 PROVE g[i - 1] \o seqs[i] \in V
    BY <1>2
  <2>1. i - 1 \in D OBVIOUS
  <2>2. g[i - 1] \in Seq(X) BY <2>1
  <2> QED BY <2>2, <1>2, ConcatProperties
<1>4. Ranked(D, V, rank, Step)
  <2>1. rank \in [D -> Nat] OBVIOUS
  <2>2. ASSUME NEW g \in [D -> V], NEW h \in [D -> V], NEW i \in D,
               \A j \in D : rank[j] < rank[i] => g[j] = h[j]
        PROVE  Step[g][i] = Step[h][i]
    <3>1. CASE i = 1 BY <3>1
    <3>2. CASE i # 1
      <4>1. i - 1 \in D /\ rank[i - 1] < rank[i] BY <3>2
      <4>2. g[i - 1] = h[i - 1] BY <4>1, <2>2
      <4> QED BY <4>2, <3>2
    <3> QED BY <3>1, <3>2
  <2> HIDE DEF D, V, rank, Step
  <2> QED BY <1>3, <2>1, <2>2 DEF Ranked
<1>5. PICK g \in [D -> V] : g = Step[g]
  <2>1. <<>> \in V OBVIOUS
  <2> HIDE DEF D, V, rank, Step
  <2> QED BY <2>1, <1>4, Recursion
<1>6. g = [i \in 1..Len(seqs) |-> IF i = 1 THEN seqs[i] ELSE g[i - 1] \o seqs[i]]
  BY <1>5
<1>7. flatten = [i \in 1..Len(seqs) |-> IF i = 1 THEN seqs[i] ELSE flatten[i - 1] \o seqs[i]]
  BY <1>6, Zenon
<1> HIDE DEF flatten
<1>8. flatten[1] = seqs[1] /\ \A k \in 2..n : flatten[k] = flatten[k - 1] \o seqs[k]
  <2>1. 1 \in 1..Len(seqs) OBVIOUS
  <2>2. \A k \in 2..n : k \in 1..Len(seqs) /\ k # 1 OBVIOUS
  <2> QED BY <2>1, <2>2, <1>7
<1> DEFINE S == {i \in Nat : i \in 1..n => flatten[i] \in Seq(X)}
<1>9. ASSUME NEW i \in Nat, \A m \in Nat : m < i => m \in S PROVE i \in S
  <2>1. CASE i = 1 BY <2>1, <1>8, <1>2
  <2>2. CASE i \in 2..n
    <3>1. i - 1 \in 1..n /\ i - 1 \in Nat /\ i - 1 < i /\ i \in 1..n BY <2>2
    <3>2. flatten[i - 1] \in Seq(X) BY <3>1, <1>9
    <3>3. flatten[i - 1] \o seqs[i] \in Seq(X) BY <3>1, <3>2, <1>2, ConcatProperties
    <3> QED BY <3>3, <2>2, <1>8
  <2> QED BY <2>1, <2>2
<1>10. S = Nat
  <2> HIDE DEF S
  <2>1. S \in SUBSET Nat BY DEF S
  <2> QED BY <1>9, <2>1, Induction
<1>11. \A k \in 1..n : flatten[k] \in Seq(X)
  <2> SUFFICES ASSUME NEW k \in 1..n PROVE flatten[k] \in Seq(X)
    OBVIOUS
  <2>1. k \in Nat OBVIOUS
  <2>2. k \in S
    <3> HIDE DEF S
    <3> QED BY <2>1, <1>10
  <2> QED BY <2>2
<1>12. flatten \in [1..n -> Seq(X)]
  <2>1. flatten = [k \in 1..n |-> flatten[k]] BY <1>7
  <2> QED BY <2>1, <1>11
<1>13. Flattening(X, seqs, n, flatten)
  BY <1>1, <1>8, <1>12 DEF Flattening
<1> QED BY <1>13

\* A part that is appended keeps what was there and follows it.
Joins(X, s, t, u) ==
    /\ u \in Seq(X) /\ Len(u) = Len(s) + Len(t)
    /\ \A i \in 1..Len(s) : i \in 1..Len(u) /\ u[i] = s[i]
    /\ \A i \in 1..Len(t) : Len(s) + i \in 1..Len(u) /\ u[Len(s) + i] = t[i]
    /\ \A i \in 1..Len(u) : i <= Len(s) \/ (i - Len(s) \in 1..Len(t) /\ u[i] = t[i - Len(s)])

LEMMA ConcatParts ==
    ASSUME NEW X, NEW s \in Seq(X), NEW t \in Seq(X)
    PROVE  Joins(X, s, t, s \o t)
<1>1. /\ s \o t \in Seq(X) /\ Len(s \o t) = Len(s) + Len(t)
      /\ \A i \in 1..(Len(s) + Len(t)) : (s \o t)[i] = IF i <= Len(s) THEN s[i] ELSE t[i - Len(s)]
  BY ConcatProperties
<1>2. Len(s) \in Nat /\ Len(t) \in Nat
  OBVIOUS
<1> DEFINE u == s \o t
           m == Len(s)
           n == Len(t)
<1> HIDE DEF u, m, n
<1>3. /\ u \in Seq(X) /\ Len(u) = m + n /\ m \in Nat /\ n \in Nat
      /\ \A i \in 1..(m + n) : u[i] = IF i <= m THEN s[i] ELSE t[i - m]
  BY <1>1, <1>2 DEF u, m, n
<1>4. \A i \in 1..m : i \in 1..Len(u) /\ u[i] = s[i]
  BY <1>3
<1>5. ASSUME NEW i \in 1..n PROVE m + i \in 1..Len(u) /\ u[m + i] = t[i]
  <2>1. m + i \in 1..(m + n) /\ ~(m + i <= m) /\ (m + i) - m = i BY <1>3
  <2> QED BY <2>1, <1>3
<1>6. \A i \in 1..Len(u) : i <= m \/ (i - m \in 1..n /\ u[i] = t[i - m])
  BY <1>3
<1> QED BY <1>3, <1>4, <1>5, <1>6 DEF u, m, n, Joins

\* Where the parts lie in a sequence that is put together of them.
PartsLie(seqs, n, flat, off) ==
    /\ off \in [1..(n + 1) -> Nat]
    /\ off[1] = 0 /\ off[n + 1] = Len(flat)
    /\ \A k \in 1..n : off[k + 1] = off[k] + Len(seqs[k])
    /\ \A k \in 1..n : \A i \in 1..Len(seqs[k]) :
          off[k] + i \in 1..Len(flat) /\ flat[off[k] + i] = seqs[k][i]

LEMMA EmptyParts ==
    ASSUME NEW X, NEW seqs \in Seq(Seq(X)), Len(seqs) = 0
    PROVE  FlattenSeq(seqs) = <<>> /\ \E off : PartsLie(seqs, 0, FlattenSeq(seqs), off)
<1>1. seqs = <<>>
  OBVIOUS
<1>2. FlattenSeq(seqs) = seqs
  <2>1. ~ (seqs # <<>>) BY <1>1
  <2> QED BY <1>1, <2>1 DEF FlattenSeq
<1> DEFINE off == [k \in 1..1 |-> 0]
<1>3. PartsLie(seqs, 0, <<>>, off)
  BY DEF PartsLie
<1> QED BY <1>1, <1>2, <1>3

LEMMA FlattenParts ==
    ASSUME NEW X, NEW seqs \in Seq(Seq(X)), NEW n \in Nat, n = Len(seqs)
    PROVE  /\ FlattenSeq(seqs) \in Seq(X)
           /\ \E off : PartsLie(seqs, n, FlattenSeq(seqs), off)
<1>1. CASE n = 0
  <2>1. <<>> \in Seq(X) OBVIOUS
  <2> QED BY <1>1, <2>1, EmptyParts
<1>2. CASE n > 0
  <2> DEFINE flat == FlattenSeq(seqs)
  <2>0. PICK f : Flattening(X, seqs, n, f)
    BY <1>2, FlattenTable
  <2>1. /\ f \in [1..n -> Seq(X)] /\ f[1] = seqs[1] /\ flat = f[n]
        /\ \A k \in 2..n : f[k] = f[k - 1] \o seqs[k]
    BY <2>0 DEF Flattening
  <2> HIDE DEF flat
  <2> DEFINE L == [k \in 1..n |-> Len(f[k])]
  <2>2. \A k \in 1..n : f[k] \in Seq(X) /\ L[k] \in Nat /\ L[k] = Len(f[k])
                        /\ seqs[k] \in Seq(X) /\ Len(seqs[k]) \in Nat
    <3> SUFFICES ASSUME NEW k \in 1..n
                 PROVE  /\ f[k] \in Seq(X) /\ L[k] \in Nat /\ L[k] = Len(f[k])
                        /\ seqs[k] \in Seq(X) /\ Len(seqs[k]) \in Nat
      OBVIOUS
    <3>1. seqs[k] \in Seq(X) OBVIOUS
    <3>2. f[k] \in Seq(X) BY <2>1
    <3>3. Len(seqs[k]) \in Nat BY <3>1
    <3>4. Len(f[k]) \in Nat BY <3>2
    <3>5. L[k] = Len(f[k]) OBVIOUS
    <3> QED BY <3>1, <3>2, <3>3, <3>4, <3>5
  <2> HIDE DEF L
  <2> DEFINE off == [k \in 1..(n + 1) |-> IF k = 1 THEN 0 ELSE L[k - 1]]
  <2>3. off \in [1..(n + 1) -> Nat]
    <3> SUFFICES ASSUME NEW k \in 1..(n + 1), k # 1 PROVE L[k - 1] \in Nat
      OBVIOUS
    <3>1. k - 1 \in 1..n OBVIOUS
    <3> QED BY <3>1, <2>2
  <2>4. off[1] = 0 /\ off[n + 1] = L[n] /\ \A k \in 1..n : off[k + 1] = L[k]
    <3>1. off[1] = 0 OBVIOUS
    <3>2. ASSUME NEW k \in 1..n PROVE off[k + 1] = L[k]
      <4>1. k + 1 \in 1..(n + 1) /\ k + 1 # 1 /\ (k + 1) - 1 = k OBVIOUS
      <4> QED BY <4>1
    <3>3. n \in 1..n BY <1>2
    <3> QED BY <3>1, <3>2, <3>3
  <2>5. \A k \in 2..n : off[k] = L[k - 1] /\ k \in 1..n /\ k - 1 \in 1..n
    OBVIOUS
  <2> HIDE DEF off
  \* One part more: it follows what was there, which stays.
  <2>6. ASSUME NEW k \in 1..n
        PROVE  /\ L[k] = off[k] + Len(seqs[k])
               /\ \A i \in 1..Len(seqs[k]) : off[k] + i \in 1..L[k] /\ f[k][off[k] + i] = seqs[k][i]
               /\ k > 1 => \A i \in 1..L[k - 1] : i \in 1..L[k] /\ f[k][i] = f[k - 1][i]
    <3>1. CASE k = 1
      <4>1. off[k] = 0 /\ f[k] = seqs[k] BY <3>1, <2>1, <2>4
      <4> QED BY <4>1, <2>2, <3>1
    <3>2. CASE k > 1
      <4>1. k \in 2..n BY <3>2
      <4>2. off[k] = L[k - 1] /\ k - 1 \in 1..n BY <4>1, <2>5
      <4>3. f[k] = f[k - 1] \o seqs[k] BY <4>1, <2>1
      <4>4. f[k - 1] \in Seq(X) /\ seqs[k] \in Seq(X) /\ L[k - 1] = Len(f[k - 1]) BY <4>2, <2>2
      <4>7. Joins(X, f[k - 1], seqs[k], f[k])
        BY <4>3, <4>4, ConcatParts
      <4>5. /\ Len(f[k]) = L[k - 1] + Len(seqs[k])
            /\ \A i \in 1..L[k - 1] : i \in 1..Len(f[k]) /\ f[k][i] = f[k - 1][i]
            /\ \A i \in 1..Len(seqs[k]) :
                  L[k - 1] + i \in 1..Len(f[k]) /\ f[k][L[k - 1] + i] = seqs[k][i]
        BY <4>4, <4>7, Zenon DEF Joins
      <4>6. L[k] = Len(f[k]) BY <2>2
      <4> QED BY <4>2, <4>5, <4>6
    <3> QED BY <3>1, <3>2
  \* What f[k] begins with, all that follows begin with.
  <2>7. ASSUME NEW k \in 1..n
        PROVE  \A m \in k..n : \A i \in 1..L[k] : i \in 1..L[m] /\ f[m][i] = f[k][i]
    <3> DEFINE S == {m \in Nat : m \in k..n => \A i \in 1..L[k] : i \in 1..L[m] /\ f[m][i] = f[k][i]}
    <3>1. ASSUME NEW m \in Nat, \A j \in Nat : j < m => j \in S PROVE m \in S
      <4>1. CASE m = k BY <4>1, <2>2
      <4>2. CASE m \in (k + 1)..n
        <5>1. m - 1 \in Nat /\ m - 1 < m /\ m - 1 \in k..n /\ m \in 1..n /\ m > 1 BY <4>2
        <5>2. \A i \in 1..L[k] : i \in 1..L[m - 1] /\ f[m - 1][i] = f[k][i]
          BY <5>1, <3>1
        <5>3. \A i \in 1..L[m - 1] : i \in 1..L[m] /\ f[m][i] = f[m - 1][i] BY <5>1, <2>6
        <5>4. \A i \in 1..L[k] : i \in 1..L[m] /\ f[m][i] = f[k][i] BY <5>2, <5>3, Zenon
        <5> QED BY <5>4
      <4> QED BY <4>1, <4>2
    <3>2. S = Nat
      <4> HIDE DEF S
      <4>1. S \in SUBSET Nat BY DEF S
      <4> QED BY <3>1, <4>1, Induction
    <3> SUFFICES ASSUME NEW m \in k..n
                 PROVE  \A i \in 1..L[k] : i \in 1..L[m] /\ f[m][i] = f[k][i]
      OBVIOUS
    <3>3. m \in Nat OBVIOUS
    <3>4. m \in S
      <4> HIDE DEF S
      <4> QED BY <3>2, <3>3
    <3> QED BY <3>4
  <2>8. flat \in Seq(X) /\ L[n] = Len(flat) /\ n \in 1..n
    BY <1>2, <2>1, <2>2
  <2>9. ASSUME NEW k \in 1..n, NEW i \in 1..Len(seqs[k])
        PROVE  off[k] + i \in 1..Len(flat) /\ flat[off[k] + i] = seqs[k][i]
    <3>1. off[k] + i \in 1..L[k] /\ f[k][off[k] + i] = seqs[k][i] BY <2>6
    <3>2. n \in k..n OBVIOUS
    <3>3. \A j \in 1..L[k] : j \in 1..L[n] /\ f[n][j] = f[k][j] BY <3>2, <2>7, Zenon
    <3> QED BY <3>1, <3>3, <2>1, <2>8
  <2>10. \A k \in 1..n : off[k + 1] = off[k] + Len(seqs[k])
    BY <2>4, <2>6
  <2>11. PartsLie(seqs, n, flat, off)
    BY <2>3, <2>4, <2>8, <2>9, <2>10 DEF PartsLie
  <2> QED BY <2>8, <2>11 DEF flat
<1> QED BY <1>1, <1>2

\* ... and every position of it lies in one of them.
InPart(seqs, n, flat, off, i) ==
    \E k \in 1..n : \E j \in 1..Len(seqs[k]) : i = off[k] + j /\ flat[i] = seqs[k][j]

LEMMA PartOf ==
    ASSUME NEW X, NEW seqs \in Seq(Seq(X)), NEW n \in Nat, n = Len(seqs), NEW flat, NEW off,
           PartsLie(seqs, n, flat, off), NEW i \in 1..Len(flat)
    PROVE  InPart(seqs, n, flat, off, i)
<1>1. /\ off \in [1..(n + 1) -> Nat] /\ off[1] = 0 /\ off[n + 1] = Len(flat)
      /\ \A k \in 1..n : off[k + 1] = off[k] + Len(seqs[k])
      /\ \A k \in 1..n : \A j \in 1..Len(seqs[k]) : flat[off[k] + j] = seqs[k][j]
  BY DEF PartsLie
<1>2. n + 1 \in 1..(n + 1)
  OBVIOUS
<1>3. Len(flat) \in Nat /\ i \in Nat /\ i > 0 /\ i <= Len(flat)
  BY <1>1, <1>2
<1> DEFINE T == {k \in 1..n : i <= off[k + 1]}
<1>4. n \in T
  <2>1. CASE n = 0 BY <2>1, <1>1, <1>3
  <2>2. CASE n > 0 BY <2>2, <1>1, <1>3
  <2> QED BY <2>1, <2>2
<1>5. PICK k \in T : \A m \in T : k <= m
  <2>1. T \in SUBSET Nat OBVIOUS
  <2> HIDE DEF T
  <2> QED BY <1>4, <2>1, LeastNumber
<1>6. off[k] \in Nat /\ Len(seqs[k]) \in Nat /\ off[k + 1] = off[k] + Len(seqs[k]) /\ i <= off[k + 1]
  <2>1. k \in 1..(n + 1) OBVIOUS
  <2>2. seqs[k] \in Seq(X) OBVIOUS
  <2>3. off[k] \in Nat BY <2>1, <1>1
  <2>4. off[k + 1] = off[k] + Len(seqs[k]) BY <1>1
  <2>5. Len(seqs[k]) \in Nat BY <2>2
  <2> QED BY <2>3, <2>4, <2>5
<1>7. off[k] < i
  <2>1. CASE k = 1 BY <2>1, <1>1, <1>3
  <2>2. CASE k # 1
    <3>1. k - 1 \in 1..n /\ (k - 1) + 1 = k /\ ~(k <= k - 1) BY <2>2
    <3>2. k - 1 \notin T
      <4> HIDE DEF T
      <4> QED BY <3>1, <1>5
    <3>3. ~(i <= off[k]) BY <3>1, <3>2
    <3> QED BY <3>3, <1>3, <1>6
  <2> QED BY <2>1, <2>2
<1>8. i - off[k] \in 1..Len(seqs[k]) /\ off[k] + (i - off[k]) = i
  BY <1>3, <1>6, <1>7
<1>9. flat[i] = seqs[k][i - off[k]]
  BY <1>8, <1>1
<1> QED BY <1>8, <1>9 DEF InPart

-----------------------------------------------------------------------------
(* Ranges: sorting and joining them changes no character. *)

LEMMA MinOf ==
    ASSUME NEW T \in SUBSET Nat, T # {}
    PROVE  Min(T) \in T /\ \A k \in T : Min(T) <= k
<1>1. PICK m \in T : \A k \in T : m <= k
  BY LeastNumber
<1>2. Min(T) \in T /\ \A k \in T : Min(T) <= k
  BY <1>1, Zenon DEF Min
<1> QED BY <1>2

\* What a sequence is once an element is put in place p of it.
PutAt(X, s, p, e, u) ==
    /\ u \in Seq(X) /\ Len(u) = Len(s) + 1
    /\ \A i \in 1..(p - 1) : u[i] = s[i]
    /\ u[p] = e
    /\ \A i \in (p + 1)..(Len(s) + 1) : u[i] = s[i - 1]

LEMMA InsertParts ==
    ASSUME NEW X, NEW s \in Seq(X), NEW p \in 1..(Len(s) + 1), NEW e \in X
    PROVE  PutAt(X, s, p, e, InsertAt(s, p, e))
<1> DEFINE l == SubSeq(s, 1, p - 1)
           r == SubSeq(s, p, Len(s))
           le == l \o <<e>>
           u == le \o r
           n == Len(s)
<1>0. n \in Nat /\ p \in Nat /\ 1 <= p /\ p <= n + 1
  OBVIOUS
<1>1. l \in Seq(X) /\ Len(l) = p - 1 /\ \A i \in 1..(p - 1) : l[i] = s[i]
  <2>1. \A i \in 1..(p - 1) : s[i] \in X OBVIOUS
  <2>2. l = [i \in 1..(p - 1) |-> s[i]]
    <3>1. (p - 1) - 1 + 1 = p - 1 BY <1>0
    <3> QED BY <1>0
  <2> QED BY <2>1, <2>2
<1>2. r \in Seq(X) /\ Len(r) = n + 1 - p /\ \A i \in 1..(n + 1 - p) : r[i] = s[i + p - 1]
  <2>1. \A i \in p..n : s[i] \in X BY <1>0
  <2> QED BY <2>1, <1>0, SubSeqProperties
<1> HIDE DEF l, r, n
<1>3. <<e>> \in Seq(X) /\ Len(<<e>>) = 1 /\ <<e>>[1] = e
  OBVIOUS
<1>4. Joins(X, l, <<e>>, le)
  BY <1>1, <1>3, ConcatParts
<1>5. /\ le \in Seq(X) /\ Len(le) = p
      /\ \A i \in 1..(p - 1) : le[i] = s[i]
      /\ le[p] = e
  <2> HIDE DEF le
  <2>1. le \in Seq(X) /\ Len(le) = (p - 1) + 1 BY <1>1, <1>3, <1>4 DEF Joins
  <2>2. \A i \in 1..(p - 1) : le[i] = s[i] BY <1>1, <1>4 DEF Joins
  <2>3. le[(p - 1) + 1] = e BY <1>1, <1>3, <1>4 DEF Joins
  <2> QED BY <2>1, <2>2, <2>3, <1>0
<1> HIDE DEF le
<1>6. Joins(X, le, r, u)
  BY <1>2, <1>5, ConcatParts
<1> HIDE DEF u
<1>7. /\ u \in Seq(X) /\ Len(u) = p + (n + 1 - p)
      /\ \A i \in 1..p : u[i] = le[i]
      /\ \A i \in 1..(n + 1 - p) : u[p + i] = r[i]
  BY <1>2, <1>5, <1>6 DEF Joins
<1>8. \A i \in 1..(p - 1) : u[i] = s[i]
  BY <1>0, <1>5, <1>7
<1>9. u[p] = e
  BY <1>0, <1>5, <1>7
<1>10. ASSUME NEW i \in (p + 1)..(n + 1) PROVE u[i] = s[i - 1]
  <2>1. i - p \in 1..(n + 1 - p) /\ p + (i - p) = i /\ (i - p) + p - 1 = i - 1 BY <1>0
  <2> QED BY <2>1, <1>2, <1>7
<1>11. Len(u) = n + 1
  BY <1>0, <1>7
<1>12. PutAt(X, s, p, e, u)
  BY <1>7, <1>8, <1>9, <1>10, <1>11 DEF PutAt, n
<1>13. InsertAt(s, p, e) = u
  BY DEF InsertAt, u, le, l, r
<1> QED BY <1>12, <1>13

\* Ranges of code points, the folded ones included.
Span == {r \in [lo : Nat, hi : Nat] : r.lo <= r.hi}

\* Some of the first k ranges of s has the character.
Among(s, k, c) == \E i \in 1..k : s[i].lo <= c /\ c <= s[i].hi

LEMMA RangeHasAmong ==
    ASSUME NEW s \in Seq(Span), NEW c \in Int
    PROVE  RangeHas(s, c) <=> Among(s, Len(s), c)
<1>1. DOMAIN s = 1..Len(s) /\ \A i \in 1..Len(s) : s[i] \in Span
  OBVIOUS
<1>2. \A i \in 1..Len(s) : c \in s[i].lo..s[i].hi <=> (s[i].lo <= c /\ c <= s[i].hi)
  BY <1>1 DEF Span
<1> QED BY <1>1, <1>2, Zenon DEF RangeHas, Among, ToSet

Ordered(out) == \A i, j \in 1..Len(out) : i < j => out[i].lo <= out[j].lo

\* Inserting keeps the order and adds one range.
LEMMA InsertOrdered ==
    ASSUME NEW out \in Seq(Span), Ordered(out), NEW r \in Span
    PROVE  /\ Inserted(out, r) \in Seq(Span) /\ Ordered(Inserted(out, r))
           /\ Len(Inserted(out, r)) = Len(out) + 1
           /\ \A i \in 1..Len(Inserted(out, r)) :
                 Inserted(out, r)[i] = r \/ \E j \in 1..Len(out) : Inserted(out, r)[i] = out[j]
           /\ \E i \in 1..Len(Inserted(out, r)) : Inserted(out, r)[i] = r
           /\ \A j \in 1..Len(out) : \E i \in 1..Len(Inserted(out, r)) : Inserted(out, r)[i] = out[j]
<1> DEFINE n == Len(out)
           T == {k \in 1..(n + 1) : k > n \/ Before(r, out[k])}
           p == Place(out, r)
           u == Inserted(out, r)
<1>0. n \in Nat /\ \A i \in 1..n : out[i].lo \in Nat /\ out[i].hi \in Nat /\ out[i] \in Span
  BY DEF Span
<1>1. p = Min(T)
  BY DEF Place
<1> HIDE DEF p
<1>2. p \in T /\ \A k \in T : p <= k
  <2>1. n + 1 \in T BY <1>0
  <2>2. T \in SUBSET Nat OBVIOUS
  <2> HIDE DEF T
  <2> QED BY <2>1, <2>2, <1>1, MinOf
<1>3. p \in 1..(n + 1)
  BY <1>2
<1>4. PutAt(Span, out, p, r, u)
  <2>1. u = InsertAt(out, p, r) BY DEF Inserted, p
  <2> QED BY <2>1, <1>3, InsertParts
<1> HIDE DEF u
<1>5. /\ u \in Seq(Span) /\ Len(u) = n + 1 /\ u[p] = r
      /\ \A i \in 1..(p - 1) : u[i] = out[i]
      /\ \A i \in (p + 1)..(n + 1) : u[i] = out[i - 1]
  BY <1>4 DEF PutAt
<1>6. \A i \in 1..(p - 1) : out[i].lo <= r.lo
  <2> SUFFICES ASSUME NEW i \in 1..(p - 1) PROVE out[i].lo <= r.lo
    OBVIOUS
  <2>1. i \in 1..n /\ i \in 1..(n + 1) /\ ~(p <= i) BY <1>0, <1>3
  <2>2. i \notin T
    <3> HIDE DEF T
    <3> QED BY <2>1, <1>2
  <2>3. ~Before(r, out[i]) BY <2>1, <2>2
  <2>4. out[i].lo \in Nat /\ r.lo \in Nat BY <2>1, <1>0 DEF Span
  <2> QED BY <2>3, <2>4 DEF Before
<1>7. \A i \in p..n : r.lo <= out[i].lo
  <2> SUFFICES ASSUME NEW i \in p..n PROVE r.lo <= out[i].lo
    OBVIOUS
  <2>1. i \in 1..n /\ p \in 1..n BY <1>0, <1>3
  <2>2. Before(r, out[p]) BY <2>1, <1>2
  <2>3. out[p].lo <= out[i].lo BY <2>1, <1>0 DEF Ordered
  <2>4. out[i].lo \in Nat /\ r.lo \in Nat /\ out[p].lo \in Nat BY <2>1, <1>0 DEF Span
  <2> QED BY <2>2, <2>3, <2>4 DEF Before
<1>8. Ordered(u)
  <2> SUFFICES ASSUME NEW i \in 1..(n + 1), NEW j \in 1..(n + 1), i < j
               PROVE  u[i].lo <= u[j].lo
    BY <1>5 DEF Ordered
  <2>1. CASE j < p
    <3>1. i \in 1..(p - 1) /\ j \in 1..(p - 1) /\ i \in 1..n /\ j \in 1..n BY <2>1, <1>0, <1>3
    <3> QED BY <3>1, <1>5 DEF Ordered
  <2>2. CASE j = p
    <3>1. i \in 1..(p - 1) BY <2>2, <1>3
    <3> QED BY <2>2, <3>1, <1>5, <1>6
  <2>3. CASE j > p
    <3>1. j \in (p + 1)..(n + 1) /\ j - 1 \in p..n /\ j - 1 \in 1..n BY <2>3, <1>0, <1>3
    <3>2. u[j] = out[j - 1] BY <3>1, <1>5
    <3>3. CASE i < p
      <4>1. i \in 1..(p - 1) /\ i \in 1..n /\ i < j - 1 BY <3>3, <2>3, <1>0, <1>3
      <4> QED BY <4>1, <3>1, <3>2, <1>5 DEF Ordered
    <3>4. CASE i = p
      BY <3>1, <3>2, <3>4, <1>5, <1>7
    <3>5. CASE i > p
      <4>1. i \in (p + 1)..(n + 1) /\ i - 1 \in 1..n /\ i - 1 < j - 1 BY <3>5, <1>0, <1>3
      <4> QED BY <4>1, <3>1, <3>2, <1>5 DEF Ordered
    <3> QED BY <3>3, <3>4, <3>5, <1>3
  <2> QED BY <2>1, <2>2, <2>3, <1>3
<1>9. ASSUME NEW i \in 1..(n + 1) PROVE u[i] = r \/ \E j \in 1..n : u[i] = out[j]
  <2>1. CASE i < p
    <3>1. i \in 1..(p - 1) /\ i \in 1..n BY <2>1, <1>0, <1>3
    <3> QED BY <3>1, <1>5
  <2>2. CASE i > p
    <3>1. i \in (p + 1)..(n + 1) /\ i - 1 \in 1..n BY <2>2, <1>0, <1>3
    <3> QED BY <3>1, <1>5
  <2> QED BY <2>1, <2>2, <1>3, <1>5
<1>10. ASSUME NEW j \in 1..n PROVE \E i \in 1..(n + 1) : u[i] = out[j]
  <2>1. CASE j < p
    <3>1. j \in 1..(p - 1) /\ j \in 1..(n + 1) BY <2>1, <1>0, <1>3
    <3> QED BY <3>1, <1>5
  <2>2. CASE j >= p
    <3>1. j + 1 \in (p + 1)..(n + 1) /\ j + 1 \in 1..(n + 1) /\ (j + 1) - 1 = j BY <2>2, <1>0, <1>3
    <3>2. u[j + 1] = out[j] BY <3>1, <1>5
    <3> QED BY <3>1, <3>2
  <2> QED BY <2>1, <2>2, <1>3
<1> QED BY <1>3, <1>5, <1>8, <1>9, <1>10 DEF u

\* Sorted has the ranges it is given, in order.
LEMMA SortedRanges ==
    ASSUME NEW s \in Seq(Span)
    PROVE  /\ Sorted(s) \in Seq(Span) /\ Ordered(Sorted(s))
           /\ \A c \in Int : Among(Sorted(s), Len(Sorted(s)), c) <=> Among(s, Len(s), c)
<1> DEFINE n == Len(s)
           V == {out \in Seq(Span) : Ordered(out)}
<1>0. n \in Nat /\ DOMAIN s = 1..n /\ \A k \in 1..n : s[k] \in Span
  OBVIOUS
<1> HIDE DEF n
<1>1. <<>> \in V
  BY DEF Ordered
<1>2. \A out \in V : \A k \in 1..n : Inserted(out, s[k]) \in V
  BY <1>0, InsertOrdered
<1>30. PICK f : InsertedRounds(V, s, n, f)
  <2> HIDE DEF V
  <2> QED BY <1>0, <1>1, <1>2, InsertedFold
<1>3. /\ f \in [0..n -> V] /\ f[0] = <<>> /\ f[n] = Sorted(s)
      /\ \A k \in 1..n : f[k] = Inserted(f[k - 1], s[k])
  BY <1>30 DEF InsertedRounds, Sorted
<1>4. \A k \in 0..n : f[k] \in Seq(Span) /\ Ordered(f[k]) /\ Len(f[k]) \in Nat
  <2> SUFFICES ASSUME NEW k \in 0..n PROVE f[k] \in Seq(Span) /\ Ordered(f[k]) /\ Len(f[k]) \in Nat
    OBVIOUS
  <2>1. f[k] \in V BY <1>3
  <2>2. f[k] \in Seq(Span) /\ Ordered(f[k]) BY <2>1
  <2> QED BY <2>2
<1> HIDE DEF V
<1> SUFFICES ASSUME NEW c \in Int PROVE Among(f[n], Len(f[n]), c) <=> Among(s, n, c)
  <2>1. n \in 0..n BY <1>0
  <2> QED BY <2>1, <1>3, <1>4 DEF n
<1> DEFINE S == {k \in Nat : k <= n => (Among(f[k], Len(f[k]), c) <=> Among(s, k, c))}
<1>5. ASSUME NEW k \in Nat, \A m \in Nat : m < k => m \in S PROVE k \in S
  <2>1. CASE k = 0
    <3>1. Len(f[0]) = 0 BY <1>3
    <3>2. ~Among(f[0], Len(f[0]), c) /\ ~Among(s, 0, c) BY <3>1 DEF Among
    <3> QED BY <2>1, <3>2
  <2>2. CASE k # 0 /\ k <= n
    <3> DEFINE g == f[k - 1]
               h == f[k]
    <3>1. k - 1 \in Nat /\ k - 1 < k /\ k \in 1..n /\ k - 1 \in 0..n /\ k \in 0..n
      <4> HIDE DEF S
      <4> QED BY <2>2, <1>0
    <3>2. Among(g, Len(g), c) <=> Among(s, k - 1, c) BY <3>1, <1>5
    <3>3. g \in Seq(Span) /\ Ordered(g) /\ h = Inserted(g, s[k]) /\ s[k] \in Span
      BY <3>1, <1>0, <1>3, <1>4
    <3>4. /\ \A i \in 1..Len(h) : h[i] = s[k] \/ \E j \in 1..Len(g) : h[i] = g[j]
          /\ \E i \in 1..Len(h) : h[i] = s[k]
          /\ \A j \in 1..Len(g) : \E i \in 1..Len(h) : h[i] = g[j]
      <4> HIDE DEF g, h
      <4> QED BY <3>3, InsertOrdered, ZenonT(40)
    <3>5. Among(h, Len(h), c) <=> Among(g, Len(g), c) \/ (s[k].lo <= c /\ c <= s[k].hi)
      <4> HIDE DEF g, h
      <4> QED BY <3>4, Zenon DEF Among
    <3>6. Among(s, k, c) <=> Among(s, k - 1, c) \/ (s[k].lo <= c /\ c <= s[k].hi)
      <4>1. \A i \in 1..k : i \in 1..(k - 1) \/ i = k BY <3>1
      <4>2. \A i \in 1..(k - 1) : i \in 1..k BY <3>1
      <4>3. k \in 1..k BY <3>1
      <4> QED BY <4>1, <4>2, <4>3, Zenon DEF Among
    <3> HIDE DEF g
    <3> QED BY <3>2, <3>5, <3>6
  <2> QED BY <2>1, <2>2
<1>6. S = Nat
  <2> HIDE DEF S
  <2>1. S \in SUBSET Nat BY DEF S
  <2> QED BY <1>5, <2>1, Induction
<1>7. n \in S
  <2> HIDE DEF S
  <2> QED BY <1>0, <1>6
<1> QED BY <1>7, <1>0

\* No two ranges touch.
Apart(out) == \A i, j \in 1..Len(out) : i < j => out[i].hi + 1 < out[j].lo

\* Joining a range keeps the others apart and changes the last one at most.
LEMMA JoinApart ==
    ASSUME NEW out \in Seq(Span), Apart(out), NEW r \in Span
    PROVE  /\ Joined(out, r) \in Seq(Span) /\ Apart(Joined(out, r)) /\ Joined(out, r) # <<>>
           /\ out # <<>> /\ Last(out).lo <= r.lo =>
                 /\ Last(Joined(out, r)).lo <= r.lo
                 /\ \A c \in Int : Among(Joined(out, r), Len(Joined(out, r)), c)
                       <=> Among(out, Len(out), c) \/ (r.lo <= c /\ c <= r.hi)
           /\ out = <<>> => Joined(out, r) = <<r>>
<1> DEFINE n == Len(out)
           u == Joined(out, r)
<1>0. /\ n \in Nat /\ r.lo \in Nat /\ r.hi \in Nat /\ r.lo <= r.hi
      /\ \A i \in 1..n : out[i].lo \in Nat /\ out[i].hi \in Nat /\ out[i].lo <= out[i].hi /\ out[i] \in Span
  BY DEF Span
<1>1. CASE out = <<>>
  <2>1. u = <<r>>
    BY <1>1 DEF Joined
  <2>2. <<r>> \in Seq(Span) /\ Apart(<<r>>) /\ <<r>> # <<>>
    BY DEF Apart
  <2> QED BY <1>1, <2>1, <2>2
<1>2. CASE out # <<>> /\ r.lo > out[n].hi + 1
  <2>0. n \in 1..n
    BY <1>0, <1>2
  <2>1. u = Append(out, r)
    BY <1>2 DEF Joined, Last
  <2>2. /\ u \in Seq(Span) /\ u # <<>> /\ Len(u) = n + 1
        /\ \A i \in 1..n : u[i] = out[i]
        /\ u[n + 1] = r
    BY <2>1, AppendProperties
  <2> HIDE DEF u
  <2>3. Apart(u)
    <3> SUFFICES ASSUME NEW i \in 1..(n + 1), NEW j \in 1..(n + 1), i < j
                 PROVE  u[i].hi + 1 < u[j].lo
      BY <2>2 DEF Apart
    <3>1. CASE j <= n
      <4>1. i \in 1..n /\ j \in 1..n BY <3>1, <1>0
      <4> QED BY <4>1, <2>2 DEF Apart
    <3>2. CASE j = n + 1 /\ i = n
      BY <3>2, <2>0, <2>2, <1>2
    <3>3. CASE j = n + 1 /\ i < n
      <4>1. i \in 1..n BY <3>3, <1>0
      <4>2. out[i].hi + 1 < out[n].lo BY <4>1, <3>3, <2>0 DEF Apart
      <4>3. out[i].hi + 1 < r.lo
        <5> DEFINE a == out[i].hi
                   b == out[n].lo
                   d == out[n].hi
                   e == r.lo
        <5>1. a \in Nat /\ b \in Nat /\ d \in Nat /\ e \in Nat /\ b <= d BY <4>1, <2>0, <1>0
        <5>2. a + 1 < b /\ e > d + 1 BY <4>2, <1>2
        <5> HIDE DEF a, b, d, e
        <5>3. a + 1 < e BY <5>1, <5>2
        <5> QED BY <5>3 DEF a, e
      <4> QED BY <4>1, <4>3, <3>3, <2>2
    <3> QED BY <3>1, <3>2, <3>3, <1>0
  <2>4. Last(u).lo <= r.lo
    BY <2>2, <1>0 DEF Last
  <2>5. ASSUME NEW c \in Int
        PROVE  Among(u, n + 1, c) <=> Among(out, n, c) \/ (r.lo <= c /\ c <= r.hi)
    <3>1. \A i \in 1..(n + 1) : i \in 1..n \/ i = n + 1 BY <1>0
    <3>2. \A i \in 1..n : i \in 1..(n + 1) BY <1>0
    <3>3. n + 1 \in 1..(n + 1) BY <1>0
    <3> QED BY <3>1, <3>2, <3>3, <2>2, Zenon DEF Among
  <2> QED BY <1>2, <2>2, <2>3, <2>4, <2>5 DEF u
<1>3. CASE out # <<>> /\ ~(r.lo > out[n].hi + 1) /\ r.hi > out[n].hi
  <2>0. n \in 1..n
    BY <1>0, <1>3
  <2> DEFINE last == [lo |-> out[n].lo, hi |-> r.hi]
  <2>1. u = [out EXCEPT ![n].hi = r.hi]
    BY <1>3 DEF Joined, Last
  <2>2. last \in Span
    BY <2>0, <1>0, <1>3 DEF Span
  <2>3. [out[n] EXCEPT !.hi = r.hi] = last
    BY <2>0, <1>0 DEF Span
  <2>4. u = [out EXCEPT ![n] = last]
    BY <2>1, <2>3
  <2>5. /\ u \in Seq(Span) /\ Len(u) = n
        /\ \A i \in 1..n : u[i] = IF i = n THEN last ELSE out[i]
    <3> HIDE DEF last, u
    <3> QED BY <2>0, <2>2, <2>4, ExceptSeq
  <2> HIDE DEF u
  <2>6. u[n] = last /\ \A i \in 1..(n - 1) : u[i] = out[i] /\ i \in 1..n
    BY <1>0, <2>0, <2>5
  <2>7. Apart(u)
    <3> SUFFICES ASSUME NEW i \in 1..n, NEW j \in 1..n, i < j
                 PROVE  u[i].hi + 1 < u[j].lo
      BY <2>5 DEF Apart
    <3>1. u[i] = out[i] /\ out[i].hi + 1 < out[j].lo /\ u[j].lo = out[j].lo
      BY <2>5, <1>0 DEF Apart
    <3> QED BY <3>1
  <2>8. Last(u) = last /\ u # <<>>
    BY <2>0, <2>5, <2>6 DEF Last
  <2>9. ASSUME out[n].lo <= r.lo, NEW c \in Int
        PROVE  Among(u, n, c) <=> Among(out, n, c) \/ (r.lo <= c /\ c <= r.hi)
    <3>1. (last.lo <= c /\ c <= last.hi) <=> (out[n].lo <= c /\ c <= out[n].hi) \/ (r.lo <= c /\ c <= r.hi)
      BY <2>0, <2>9, <1>0, <1>3
    <3>2. \A i \in 1..n : i = n \/ i \in 1..(n - 1)
      BY <1>0
    <3> HIDE DEF last
    <3> QED BY <2>0, <2>6, <3>1, <3>2, Zenon DEF Among
  <2> QED BY <1>3, <2>5, <2>7, <2>8, <2>9 DEF u, Last
<1>4. CASE out # <<>> /\ ~(r.lo > out[n].hi + 1) /\ ~(r.hi > out[n].hi)
  <2>0. n \in 1..n
    BY <1>0, <1>4
  <2>1. u = out
    BY <1>4 DEF Joined, Last
  <2>2. ASSUME out[n].lo <= r.lo, NEW c \in Int, r.lo <= c, c <= r.hi
        PROVE  Among(out, n, c)
    BY <2>0, <2>2, <1>0, <1>4 DEF Among
  <2> QED BY <1>4, <2>1, <2>2 DEF Last
<1> QED BY <1>1, <1>2, <1>3, <1>4

\* Ranges that are apart, and hold what the given ones hold.
LEMMA JoinedRanges ==
    ASSUME NEW s \in Seq(Span), Ordered(s)
    PROVE  LET u == FoldLeft(Joined, <<>>, s) IN
           /\ u \in Seq(Span) /\ Apart(u)
           /\ \A c \in Int : Among(u, Len(u), c) <=> Among(s, Len(s), c)
<1> DEFINE n == Len(s)
           V == {out \in Seq(Span) : Apart(out)}
<1>0. n \in Nat /\ DOMAIN s = 1..n /\ \A k \in 1..n : s[k] \in Span
  OBVIOUS
<1>1. \A i, j \in 1..n : i < j => s[i].lo <= s[j].lo
  BY DEF Ordered
<1> HIDE DEF n
<1>2. <<>> \in V
  BY DEF Apart
<1>3. \A out \in V : \A k \in 1..n : Joined(out, s[k]) \in V
  BY <1>0, JoinApart
<1>4. PICK f : JoinedRounds(V, s, n, f)
  <2> HIDE DEF V
  <2> QED BY <1>0, <1>2, <1>3, JoinedFold
<1>5. /\ f \in [0..n -> V] /\ f[0] = <<>> /\ f[n] = FoldLeft(Joined, <<>>, s)
      /\ \A k \in 1..n : f[k] = Joined(f[k - 1], s[k])
  BY <1>4 DEF JoinedRounds
<1>6. \A k \in 0..n : f[k] \in Seq(Span) /\ Apart(f[k])
  <2> SUFFICES ASSUME NEW k \in 0..n PROVE f[k] \in Seq(Span) /\ Apart(f[k])
    OBVIOUS
  <2>1. f[k] \in V BY <1>5
  <2> QED BY <2>1
<1> HIDE DEF V
<1> DEFINE Held(k) ==
             /\ f[k] = <<>> => k = 0
             /\ f[k] # <<>> => k > 0 /\ Last(f[k]).lo <= s[k].lo
             /\ \A c \in Int : Among(f[k], Len(f[k]), c) <=> Among(s, k, c)
           S == {k \in Nat : k <= n => Held(k)}
<1>7. ASSUME NEW k \in Nat, \A m \in Nat : m < k => m \in S PROVE k \in S
  <2>1. CASE k = 0
    <3>1. Len(f[0]) = 0 BY <1>5
    <3>2. \A c \in Int : ~Among(f[0], Len(f[0]), c) /\ ~Among(s, 0, c) BY <3>1 DEF Among
    <3> QED BY <2>1, <3>2, <1>5
  <2>2. CASE k # 0 /\ k <= n
    <3> DEFINE g == f[k - 1]
               h == f[k]
               r == s[k]
    <3>1. k - 1 \in Nat /\ k - 1 < k /\ k \in 1..n /\ k - 1 \in 0..n /\ k \in 0..n /\ k - 1 <= n
      <4> HIDE DEF S
      <4> QED BY <2>2, <1>0
    <3>2. Held(k - 1) BY <3>1, <1>7
    <3> HIDE DEF S
    <3>3. g \in Seq(Span) /\ Apart(g) /\ h = Joined(g, r) /\ r \in Span
      BY <3>1, <1>0, <1>5, <1>6
    <3>4. \A c \in Int : Among(s, k, c) <=> Among(s, k - 1, c) \/ (r.lo <= c /\ c <= r.hi)
      <4>1. \A i \in 1..k : i \in 1..(k - 1) \/ i = k BY <3>1
      <4>2. \A i \in 1..(k - 1) : i \in 1..k BY <3>1
      <4>3. k \in 1..k BY <3>1
      <4> QED BY <4>1, <4>2, <4>3, Zenon DEF Among
    <3>5. CASE g = <<>>
      <4>1. h = <<r>> BY <3>3, <3>5, JoinApart
      <4>2. k - 1 = 0 BY <3>2, <3>5
      <4>3. Len(h) = 1 /\ h[1] = r BY <4>1
      <4>4. h # <<>> /\ Last(h).lo <= r.lo BY <4>1, <4>3, <3>3 DEF Last, Span
      <4>5. \A c \in Int : Among(h, Len(h), c) <=> (r.lo <= c /\ c <= r.hi)
        <5> HIDE DEF h, r
        <5> QED BY <4>3 DEF Among
      <4>6. \A c \in Int : ~Among(s, 0, c) BY DEF Among
      <4>7. \A c \in Int : Among(h, Len(h), c) <=> Among(s, k, c)
        BY <4>2, <4>5, <4>6, <3>4
      <4>8. Held(k)
        BY <4>4, <4>7, <2>2
      <4> QED BY <4>8 DEF S
    <3>6. CASE g # <<>>
      <4>1. k - 1 > 0 /\ Last(g).lo <= s[k - 1].lo BY <3>2, <3>6
      <4>2. s[k - 1].lo <= r.lo
        <5>1. k - 1 \in 1..n /\ k - 1 < k BY <4>1, <3>1
        <5> QED BY <5>1, <3>1, <1>1
      <4>3. Last(g).lo \in Nat /\ s[k - 1].lo \in Nat /\ r.lo \in Nat
        <5>1. Len(g) \in 1..Len(g) BY <3>3, <3>6
        <5>2. Last(g) \in Span BY <5>1, <3>3 DEF Last
        <5>3. k - 1 \in 1..n BY <4>1, <3>1
        <5> QED BY <5>2, <5>3, <3>3, <1>0 DEF Span
      <4>4. Last(g).lo <= r.lo BY <4>1, <4>2, <4>3
      <4>5. /\ h # <<>> /\ Last(h).lo <= r.lo
            /\ \A c \in Int : Among(h, Len(h), c) <=> Among(g, Len(g), c) \/ (r.lo <= c /\ c <= r.hi)
        <5> HIDE DEF g, h, r
        <5> QED BY <4>4, <3>3, <3>6, JoinApart
      <4>6. \A c \in Int : Among(g, Len(g), c) <=> Among(s, k - 1, c)
        BY <3>2
      <4>7. \A c \in Int : Among(h, Len(h), c) <=> Among(s, k, c)
        BY <4>5, <4>6, <3>4, Zenon
      <4>8. Held(k)
        BY <4>5, <4>7, <2>2
      <4> QED BY <4>8 DEF S
    <3> QED BY <3>5, <3>6
  <2> QED BY <2>1, <2>2
<1>8. S = Nat
  <2> HIDE DEF S
  <2>1. S \in SUBSET Nat BY DEF S
  <2> QED BY <1>7, <2>1, Induction
<1>9. n \in S
  <2> HIDE DEF S
  <2> QED BY <1>0, <1>8
<1>10. \A c \in Int : Among(f[n], Len(f[n]), c) <=> Among(s, n, c)
  BY <1>9, <1>0
<1>11. n \in 0..n
  BY <1>0
<1> HIDE DEF S
<1> QED BY <1>5, <1>6, <1>10, <1>11 DEF n

LEMMA NormalizedRanges ==
    ASSUME NEW s \in Seq(Span)
    PROVE  /\ NormalizeRanges(s) \in Seq(Span) /\ Apart(NormalizeRanges(s))
           /\ \A c \in Int : RangeHas(NormalizeRanges(s), c) <=> RangeHas(s, c)
<1>1. /\ Sorted(s) \in Seq(Span) /\ Ordered(Sorted(s))
      /\ \A c \in Int : Among(Sorted(s), Len(Sorted(s)), c) <=> Among(s, Len(s), c)
  BY SortedRanges
<1>2. /\ NormalizeRanges(s) \in Seq(Span) /\ Apart(NormalizeRanges(s))
      /\ \A c \in Int : Among(NormalizeRanges(s), Len(NormalizeRanges(s)), c)
                           <=> Among(Sorted(s), Len(Sorted(s)), c)
  BY <1>1, JoinedRanges DEF NormalizeRanges
<1> QED BY <1>1, <1>2, RangeHasAmong

-----------------------------------------------------------------------------
(* Classes: where their comparison says yes. *)

\* rangesIntersect: some character is in both.
LEMMA RangesIntersectExact ==
    ASSUME NEW a \in Seq(Span), NEW b \in Seq(Span)
    PROVE  RangesIntersect(a, b) <=> \E c \in Nat : RangeHas(a, c) /\ RangeHas(b, c)
<1>1. /\ ToSet(a) \subseteq Span /\ ToSet(b) \subseteq Span
  BY DEF ToSet
<1>2. ASSUME RangesIntersect(a, b) PROVE \E c \in Nat : RangeHas(a, c) /\ RangeHas(b, c)
  <2>1. PICK x \in ToSet(a), y \in ToSet(b) : x.lo <= y.hi /\ y.lo <= x.hi
    BY <1>2 DEF RangesIntersect
  <2> DEFINE c == IF x.lo <= y.lo THEN y.lo ELSE x.lo
  <2>2. x \in Span /\ y \in Span BY <1>1
  <2>3. c \in Nat /\ c \in x.lo..x.hi /\ c \in y.lo..y.hi
    BY <2>1, <2>2 DEF Span
  <2> HIDE DEF c
  <2> QED BY <2>3, Zenon DEF RangeHas
<1>3. ASSUME NEW c \in Nat, RangeHas(a, c), RangeHas(b, c) PROVE RangesIntersect(a, b)
  <2>1. PICK x \in ToSet(a), y \in ToSet(b) : c \in x.lo..x.hi /\ c \in y.lo..y.hi
    BY <1>3, Zenon DEF RangeHas
  <2>2. x \in Span /\ y \in Span BY <1>1
  <2>3. x.lo <= y.hi /\ y.lo <= x.hi BY <2>1, <2>2 DEF Span
  <2> QED BY <2>3, Zenon DEF RangesIntersect
<1> QED BY <1>2, <1>3

\* One turn of the cursor in hasOutside, and the table of its answers.
OutsideTurn(excluded, p, f, at) ==
    LET i == at[1]
        cursor == at[2]
        x == excluded[i]
    IN IF i > Len(excluded) THEN cursor <= p.hi
       ELSE IF x.hi < cursor THEN f[<<i + 1, cursor>>]
       ELSE IF x.lo > p.hi THEN cursor <= p.hi
       ELSE x.lo > cursor \/ (x.hi < p.hi /\ f[<<i + 1, x.hi + 1>>])

OutsideTable(excluded, p, f) ==
    f = [at \in (1..(Len(excluded) + 1)) \X Int |-> OutsideTurn(excluded, p, f, at)]

LEMMA OutsideRecursion ==
    ASSUME NEW excluded \in Seq(Span), NEW p \in Span
    PROVE  \E f \in [(1..(Len(excluded) + 1)) \X Int -> BOOLEAN] : OutsideTable(excluded, p, f)
<1> DEFINE n == Len(excluded)
           D == (1..(n + 1)) \X Int
           rank == [at \in D |-> n + 1 - at[1]]
           Step == [f \in [D -> BOOLEAN] |-> [at \in D |-> OutsideTurn(excluded, p, f, at)]]
<1>0. n \in Nat /\ \A i \in 1..n : excluded[i].hi \in Nat /\ excluded[i].lo \in Nat
  BY DEF Span
<1>1. rank \in [D -> Nat]
  BY <1>0
<1>2. ASSUME NEW at \in D, at[1] <= n
      PROVE  \A cursor \in Int : <<at[1] + 1, cursor>> \in D /\ rank[<<at[1] + 1, cursor>>] < rank[at]
  BY <1>0, <1>2
<1>3. ASSUME NEW at \in D, at[1] <= n PROVE excluded[at[1]].hi + 1 \in Int /\ at[2] \in Int
  <2>1. at[1] \in 1..n BY <1>0, <1>3
  <2> QED BY <2>1, <1>0
<1>4. Step \in [[D -> BOOLEAN] -> [D -> BOOLEAN]]
  <2> SUFFICES ASSUME NEW f \in [D -> BOOLEAN], NEW at \in D
               PROVE  OutsideTurn(excluded, p, f, at) \in BOOLEAN
    OBVIOUS
  <2>1. CASE at[1] > n BY <2>1 DEF OutsideTurn
  <2>2. CASE at[1] <= n
    <3>1. f[<<at[1] + 1, at[2]>>] \in BOOLEAN /\ f[<<at[1] + 1, excluded[at[1]].hi + 1>>] \in BOOLEAN
      <4> HIDE DEF D
      <4> QED BY <2>2, <1>2, <1>3
    <3> DEFINE x == excluded[at[1]]
    <3>2. ~(at[1] > Len(excluded)) BY <2>2, <1>0
    <3>3. CASE x.hi < at[2]
      <4>1. OutsideTurn(excluded, p, f, at) = f[<<at[1] + 1, at[2]>>]
        BY <3>2, <3>3, Zenon DEF OutsideTurn
      <4> QED BY <3>1, <4>1
    <3>4. CASE ~(x.hi < at[2]) /\ x.lo > p.hi
      <4>1. OutsideTurn(excluded, p, f, at) = (at[2] <= p.hi)
        BY <3>2, <3>4, Zenon DEF OutsideTurn
      <4>2. (at[2] <= p.hi) \in BOOLEAN OBVIOUS
      <4> QED BY <4>1, <4>2, Zenon
    <3>5. CASE ~(x.hi < at[2]) /\ ~(x.lo > p.hi)
      <4>1. OutsideTurn(excluded, p, f, at) = (x.lo > at[2] \/ (x.hi < p.hi /\ f[<<at[1] + 1, x.hi + 1>>]))
        BY <3>2, <3>5, Zenon DEF OutsideTurn
      <4>2. (x.lo > at[2] \/ (x.hi < p.hi /\ f[<<at[1] + 1, x.hi + 1>>])) \in BOOLEAN OBVIOUS
      <4> QED BY <4>1, <4>2, Zenon
    <3> QED BY <3>3, <3>4, <3>5
  <2> QED BY <2>1, <2>2, <1>0
<1>5. ASSUME NEW g \in [D -> BOOLEAN], NEW h \in [D -> BOOLEAN], NEW at \in D,
             \A u \in D : rank[u] < rank[at] => g[u] = h[u]
      PROVE  Step[g][at] = Step[h][at]
  <2>1. CASE at[1] > n BY <2>1 DEF OutsideTurn
  <2>2. CASE at[1] <= n
    <3>1. \A cursor \in Int : g[<<at[1] + 1, cursor>>] = h[<<at[1] + 1, cursor>>]
      <4> HIDE DEF D, rank
      <4> QED BY <2>2, <1>2, <1>5
    <3>2. g[<<at[1] + 1, at[2]>>] = h[<<at[1] + 1, at[2]>>]
          /\ g[<<at[1] + 1, excluded[at[1]].hi + 1>>] = h[<<at[1] + 1, excluded[at[1]].hi + 1>>]
      BY <2>2, <3>1, <1>3
    <3>3. OutsideTurn(excluded, p, g, at) = OutsideTurn(excluded, p, h, at)
      BY <3>2, <2>2 DEF OutsideTurn
    <3> QED BY <3>3
  <2> QED BY <2>1, <2>2, <1>0
<1>6. \E f \in [D -> BOOLEAN] : f = Step[f]
  <2>1. \A g, h \in [D -> BOOLEAN] : \A at \in D :
           (\A u \in D : rank[u] < rank[at] => g[u] = h[u]) => Step[g][at] = Step[h][at]
    <3> HIDE DEF D, rank, Step
    <3> QED BY <1>5
  <2> HIDE DEF D, rank, Step
  <2>2. Ranked(D, BOOLEAN, rank, Step)
    BY <1>1, <1>4, <2>1 DEF Ranked
  <2> QED BY <2>2, BooleanRecursion
<1>7. PICK f \in [D -> BOOLEAN] : f = Step[f]
  BY <1>6
<1>8. OutsideTable(excluded, p, f)
  BY <1>7 DEF OutsideTable
<1> QED BY <1>8

\* hasOutside: the cursor misses no character and takes none for outside that is not.
LEMMA HasOutsideExact ==
    ASSUME NEW positive \in Seq(Span), NEW excluded \in Seq(Span), Apart(excluded)
    PROVE  HasOutside(positive, excluded)
             <=> \E c \in Nat : RangeHas(positive, c) /\ ~RangeHas(excluded, c)
<1> DEFINE n == Len(excluded)
           Go(p) == CHOOSE f : OutsideTable(excluded, p, f)
           Free(i, c) == \A k \in i..n : ~(excluded[k].lo <= c /\ c <= excluded[k].hi)
           D == (1..(n + 1)) \X Int
<1>1. HasOutside(positive, excluded) <=> \E p \in ToSet(positive) : Go(p)[<<1, p.lo>>]
  BY DEF HasOutside, OutsideTable, OutsideTurn
<1>0. n \in Nat /\ \A i \in 1..n : /\ excluded[i].hi \in Nat /\ excluded[i].lo \in Nat
                                   /\ excluded[i].lo <= excluded[i].hi
  BY DEF Span
<1>2. ASSUME NEW p \in Span
      PROVE  Go(p)[<<1, p.lo>>] <=> \E c \in p.lo..p.hi : Free(1, c)
  <2> DEFINE g == Go(p)
  <2>1. OutsideTable(excluded, p, g)
    <3>1. \E f : OutsideTable(excluded, p, f) BY OutsideRecursion
    <3> QED BY <3>1, Zenon
  <2> HIDE DEF g
  <2>2. \A at \in D : g[at] = OutsideTurn(excluded, p, g, at)
    BY <2>1 DEF OutsideTable
  <2> DEFINE S == {m \in Nat : m <= n => \A cursor \in Int :
                      g[<<n + 1 - m, cursor>>] <=> \E c \in cursor..p.hi : Free(n + 1 - m, c)}
  <2>3. ASSUME NEW m \in Nat, \A k \in Nat : k < m => k \in S PROVE m \in S
    <3> SUFFICES ASSUME m <= n, NEW cursor \in Int
                 PROVE  g[<<n + 1 - m, cursor>>] <=> \E c \in cursor..p.hi : Free(n + 1 - m, c)
      OBVIOUS
    <3> DEFINE i == n + 1 - m
    <3>1. <<i, cursor>> \in D /\ i \in Int BY <1>0
    <3>2. g[<<i, cursor>>] = OutsideTurn(excluded, p, g, <<i, cursor>>) BY <3>1, <2>2
    <3>3. p.lo \in Nat /\ p.hi \in Nat BY DEF Span
    <3>4. CASE m = 0
      <4>1. i = n + 1 /\ i > n BY <3>4, <1>0
      <4>2. g[<<i, cursor>>] <=> cursor <= p.hi BY <3>2, <4>1 DEF OutsideTurn
      <4>3. \A c \in Int : Free(i, c) BY <4>1, <1>0
      <4>4. (\E c \in cursor..p.hi : Free(i, c)) <=> cursor <= p.hi
        <5> HIDE DEF Free
        <5>1. ASSUME cursor <= p.hi PROVE cursor \in cursor..p.hi BY <3>3, <5>1
        <5>2. \A c \in cursor..p.hi : cursor <= p.hi BY <3>3
        <5> QED BY <4>3, <5>1, <5>2
      <4> QED BY <4>2, <4>4
    <3>5. CASE m # 0
      <4> DEFINE x == excluded[i]
      <4>1. i \in 1..n /\ ~(i > n) /\ m - 1 \in Nat /\ m - 1 < m /\ m - 1 <= n /\ n + 1 - (m - 1) = i + 1
        BY <3>5, <1>0
      <4>2. \A cur \in Int : g[<<i + 1, cur>>] <=> \E c \in cur..p.hi : Free(i + 1, c)
        <5>1. m - 1 \in S BY <4>1, <2>3
        <5> QED BY <5>1, <4>1
      <4>3. x.lo \in Nat /\ x.hi \in Nat /\ x.lo <= x.hi BY <4>1, <1>0
      <4>4. \A c \in Int : Free(i, c) <=> Free(i + 1, c) /\ ~(x.lo <= c /\ c <= x.hi)
        <5>1. \A k \in i..n : k = i \/ k \in (i + 1)..n BY <4>1
        <5>2. i \in i..n /\ \A k \in (i + 1)..n : k \in i..n BY <4>1, <1>0
        <5> QED BY <5>1, <5>2
      <4>5. \A k \in (i + 1)..n : x.hi + 1 < excluded[k].lo
        <5> SUFFICES ASSUME NEW k \in (i + 1)..n PROVE x.hi + 1 < excluded[k].lo
          OBVIOUS
        <5>1. k \in 1..n /\ i < k BY <4>1
        <5> QED BY <5>1, <4>1 DEF Apart
      <4>6. \A c \in Int : c <= x.hi => Free(i + 1, c)
        <5> SUFFICES ASSUME NEW c \in Int, c <= x.hi, NEW k \in (i + 1)..n PROVE ~(excluded[k].lo <= c)
          OBVIOUS
        <5>1. x.hi + 1 < excluded[k].lo BY <4>5
        <5>2. k \in 1..n BY <4>1
        <5>3. excluded[k].lo \in Nat BY <5>2, <1>0
        <5> QED BY <5>1, <5>3, <4>3
      <4>7. x.hi + 1 \in Int BY <4>3
      <4> HIDE DEF Free, S
      <4>8. g[<<i, cursor>>] <=> IF x.hi < cursor THEN g[<<i + 1, cursor>>]
                                 ELSE IF x.lo > p.hi THEN cursor <= p.hi
                                 ELSE x.lo > cursor \/ (x.hi < p.hi /\ g[<<i + 1, x.hi + 1>>])
        BY <3>2, <4>1 DEF OutsideTurn
      <4> HIDE DEF x, i
      <4>9. CASE x.hi < cursor
        <5>1. \A c \in cursor..p.hi : Free(i, c) <=> Free(i + 1, c) BY <4>9, <4>3, <4>4, <3>3
        <5> QED BY <5>1, <4>2, <4>8, <4>9 DEF i
      <4>10. CASE ~(x.hi < cursor) /\ x.lo > p.hi
        <5>1. cursor <= p.hi => cursor \in cursor..p.hi /\ Free(i, cursor)
          BY <4>10, <4>3, <4>4, <4>6, <3>3
        <5>2. \A c \in cursor..p.hi : cursor <= p.hi BY <3>3
        <5>3. g[<<i, cursor>>] <=> cursor <= p.hi BY <4>8, <4>10
        <5>4. g[<<i, cursor>>] <=> \E c \in cursor..p.hi : Free(i, c) BY <5>1, <5>2, <5>3
        <5> QED BY <5>4 DEF i
      <4>11. CASE ~(x.hi < cursor) /\ ~(x.lo > p.hi) /\ x.lo > cursor
        <5>1. cursor \in cursor..p.hi /\ Free(i, cursor)
          BY <4>11, <4>3, <4>4, <4>6, <3>3
        <5>2. g[<<i, cursor>>] <=> \E c \in cursor..p.hi : Free(i, c) BY <5>1, <4>8, <4>11
        <5> QED BY <5>2 DEF i
      <4>12. CASE ~(x.hi < cursor) /\ ~(x.lo > p.hi) /\ ~(x.lo > cursor)
        <5>1. \A c \in Int : c \in cursor..p.hi /\ Free(i, c) <=> c \in (x.hi + 1)..p.hi /\ Free(i + 1, c)
          BY <4>12, <4>3, <4>4, <3>3
        <5>2. (\E c \in cursor..p.hi : Free(i, c)) <=> (\E c \in (x.hi + 1)..p.hi : Free(i + 1, c))
          BY <5>1
        <5>3. (\E c \in (x.hi + 1)..p.hi : Free(i + 1, c)) => x.hi < p.hi
          BY <4>3, <3>3
        <5>4. g[<<i + 1, x.hi + 1>>] <=> \E c \in (x.hi + 1)..p.hi : Free(i + 1, c)
          BY <4>2, <4>7
        <5>5. g[<<i, cursor>>] <=> \E c \in cursor..p.hi : Free(i, c)
          BY <5>2, <5>3, <5>4, <4>8, <4>12
        <5> QED BY <5>5 DEF i
      <4> QED BY <4>9, <4>10, <4>11, <4>12
    <3> QED BY <3>4, <3>5
  <2>4. S = Nat
    <3> HIDE DEF S
    <3>1. S \in SUBSET Nat BY DEF S
    <3> QED BY <2>3, <3>1, Induction
  <2>5. n \in S
    <3> HIDE DEF S
    <3> QED BY <1>0, <2>4
  <2>6. n + 1 - n = 1 /\ n <= n /\ p.lo \in Int
    BY <1>0 DEF Span
  <2>7. g[<<1, p.lo>>] <=> \E c \in p.lo..p.hi : Free(1, c)
    BY <2>5, <2>6
  <2> QED BY <2>7 DEF g
<1>3. \A c \in Nat : Free(1, c) <=> ~RangeHas(excluded, c)
  BY RangeHasAmong DEF Among
<1>4. ToSet(positive) \subseteq Span
  BY DEF ToSet
<1> HIDE DEF Go, Free
<1>5. ASSUME HasOutside(positive, excluded)
      PROVE  \E c \in Nat : RangeHas(positive, c) /\ ~RangeHas(excluded, c)
  <2>1. PICK p \in ToSet(positive) : Go(p)[<<1, p.lo>>] BY <1>1, <1>5
  <2>2. p \in Span BY <1>4
  <2>3. PICK c \in p.lo..p.hi : Free(1, c) BY <2>1, <2>2, <1>2
  <2>4. c \in Nat BY <2>2 DEF Span
  <2>5. RangeHas(positive, c) BY <2>3, Zenon DEF RangeHas
  <2> QED BY <2>3, <2>4, <2>5, <1>3
<1>6. ASSUME NEW c \in Nat, RangeHas(positive, c), ~RangeHas(excluded, c)
      PROVE  HasOutside(positive, excluded)
  <2>1. PICK p \in ToSet(positive) : c \in p.lo..p.hi BY <1>6, Zenon DEF RangeHas
  <2>2. p \in Span BY <1>4
  <2>3. Free(1, c) BY <1>3, <1>6
  <2>4. Go(p)[<<1, p.lo>>] BY <2>1, <2>2, <2>3, <1>2
  <2> QED BY <2>4, <1>1
<1> QED BY <1>5, <1>6

LEMMA LayoutFacts ==
    /\ MaxRune \in Nat /\ MaxASCII \in Nat /\ UpperA \in Nat /\ UpperZ \in Nat /\ LowerA \in Nat
    /\ 1 <= UpperA /\ UpperA <= UpperZ /\ UpperZ < LowerA /\ MaxASCII <= MaxRune
    /\ UpperZ <= MaxASCII /\ Shift \in Nat
    /\ Sep \in Point /\ CharRange \subseteq Span
    /\ \A r \in CharRange : \A d \in r.lo..r.hi : d \in Point
    /\ \A c \in Point : Fold[c] \in Point
<1>1. MaxRune \in Nat /\ MaxASCII \in Nat /\ MaxASCII <= MaxRune /\ Sep \in Nat
  BY LayoutAssumption DEF Point
<1>2. /\ UpperA \in Nat /\ 1 <= UpperA /\ UpperA <= UpperZ /\ UpperZ \in Int
  BY LayoutAssumption, <1>1 DEF Point
<1>3. UpperZ \in Nat
  BY <1>2
<1>4. LowerA \in Nat /\ UpperZ < LowerA
  BY LayoutAssumption DEF Point
<1>5. UpperZ <= MaxASCII /\ Shift \in Nat
  BY LayoutAssumption, <1>1, <1>2, <1>3, <1>4 DEF Shift
<1>6. \A r \in CharRange : r \in Span /\ \A d \in r.lo..r.hi : d \in Point
  BY <1>1 DEF CharRange, Span, Point
<1>7. Sep \in Point /\ \A c \in Point : Fold[c] \in Point
  BY LayoutAssumption
<1> QED BY <1>1, <1>2, <1>3, <1>4, <1>5, <1>6, <1>7

LEMMA ConcatHas ==
    ASSUME NEW s \in Seq(Span), NEW t \in Seq(Span), NEW c \in Int
    PROVE  RangeHas(s \o t, c) <=> RangeHas(s, c) \/ RangeHas(t, c)
<1> DEFINE u == s \o t
<1>1. Joins(Span, s, t, u)
  BY ConcatParts
<1> HIDE DEF u
<1>2. /\ u \in Seq(Span)
      /\ \A i \in 1..Len(s) : i \in 1..Len(u) /\ u[i] = s[i]
      /\ \A i \in 1..Len(t) : Len(s) + i \in 1..Len(u) /\ u[Len(s) + i] = t[i]
      /\ \A i \in 1..Len(u) : i <= Len(s) \/ (i - Len(s) \in 1..Len(t) /\ u[i] = t[i - Len(s)])
  BY <1>1 DEF Joins
<1>3. \A i \in 1..Len(u) : i \in 1..Len(s) \/ (i - Len(s) \in 1..Len(t) /\ u[i] = t[i - Len(s)])
  BY <1>2
<1>4. Among(u, Len(u), c) <=> Among(s, Len(s), c) \/ Among(t, Len(t), c)
  BY <1>2, <1>3, Zenon DEF Among
<1> QED BY <1>2, <1>4, RangeHasAmong DEF u

LEMMA PartHas ==
    ASSUME NEW r \in Span, NEW lo \in Nat, NEW hi \in Int, NEW shift \in Nat
    PROVE  /\ Part(r, lo, hi, shift) \in Seq(Span)
           /\ \A e \in Int : RangeHas(Part(r, lo, hi, shift), e)
                 <=> \E d \in r.lo..r.hi : d \in lo..hi /\ d + shift = e
<1> DEFINE from == IF r.lo > lo THEN r.lo ELSE lo
           to   == IF r.hi < hi THEN r.hi ELSE hi
           one  == [lo |-> from + shift, hi |-> to + shift]
<1>1. r.lo \in Nat /\ r.hi \in Nat
  BY DEF Span
<1>2. from \in Nat /\ to \in Int /\ \A d \in Int : d \in from..to <=> d \in r.lo..r.hi /\ d \in lo..hi
  BY <1>1
<1> HIDE DEF from, to
<1>3. CASE from <= to
  <2>1. Part(r, lo, hi, shift) = <<one>> BY <1>3 DEF Part, from, to
  <2>2. one \in Span BY <1>2, <1>3 DEF Span
  <2>3. one.lo = from + shift /\ one.hi = to + shift OBVIOUS
  <2> HIDE DEF one
  <2>4. <<one>> \in Seq(Span) /\ Len(<<one>>) = 1 /\ <<one>>[1] = one BY <2>2
  <2> SUFFICES ASSUME NEW e \in Int
               PROVE  RangeHas(<<one>>, e) <=> \E d \in r.lo..r.hi : d \in lo..hi /\ d + shift = e
    BY <2>1, <2>4
  <2>5. RangeHas(<<one>>, e) <=> (from + shift <= e /\ e <= to + shift)
    <3>1. Among(<<one>>, 1, e) <=> (one.lo <= e /\ e <= one.hi) BY <2>4 DEF Among
    <3>2. RangeHas(<<one>>, e) <=> Among(<<one>>, 1, e) BY <2>4, RangeHasAmong
    <3> QED BY <3>1, <3>2, <2>3
  <2>6. ASSUME from + shift <= e, e <= to + shift
        PROVE  \E d \in r.lo..r.hi : d \in lo..hi /\ d + shift = e
    <3>1. e - shift \in from..to /\ (e - shift) + shift = e BY <2>6, <1>2
    <3>2. e - shift \in Int OBVIOUS
    <3>3. e - shift \in r.lo..r.hi /\ e - shift \in lo..hi BY <3>1, <3>2, <1>2
    <3> QED BY <3>1, <3>3
  <2>7. ASSUME NEW d \in r.lo..r.hi, d \in lo..hi, d + shift = e
        PROVE  from + shift <= e /\ e <= to + shift
    <3>1. d \in Int BY <1>1
    <3>2. d \in from..to BY <3>1, <2>7, <1>2
    <3> QED BY <3>1, <3>2, <2>7, <1>2
  <2> QED BY <2>5, <2>6, <2>7
<1>4. CASE ~(from <= to)
  <2>1. Part(r, lo, hi, shift) = <<>> BY <1>4 DEF Part, from, to
  <2>2. \A e \in Int : ~RangeHas(<<>>, e) BY DEF RangeHas, ToSet
  <2>3. \A d \in r.lo..r.hi : ~(d \in lo..hi)
    <3> SUFFICES ASSUME NEW d \in r.lo..r.hi, d \in lo..hi PROVE FALSE
      OBVIOUS
    <3>1. d \in Int BY <1>1
    <3>2. d \in from..to BY <3>1, <1>2
    <3> QED BY <3>1, <3>2, <1>2, <1>4
  <2>4. <<>> \in Seq(Span) OBVIOUS
  <2> QED BY <2>1, <2>2, <2>3, <2>4
<1> QED BY <1>3, <1>4

\* The lower-case forms of a range's characters, and no other character.
LEMMA FoldedHas ==
    ASSUME NEW r \in CharRange, r.hi <= MaxASCII
    PROVE  /\ Folded(r) \in Seq(Span)
           /\ \A e \in Int : RangeHas(Folded(r), e) <=> \E d \in r.lo..r.hi : Fold[d] = e
<1> DEFINE below == Part(r, 0, UpperA - 1, 0)
           upper == Part(r, UpperA, UpperZ, Shift)
           above == Part(r, UpperZ + 1, MaxASCII, 0)
<1>0. r \in Span /\ r.lo \in Nat /\ r.hi \in Nat
  BY LayoutFacts DEF Span
<1>1. below \in Seq(Span) /\ \A e \in Int : RangeHas(below, e) <=>
         \E d \in r.lo..r.hi : d \in 0..(UpperA - 1) /\ d + 0 = e
  <2>1. 0 \in Nat /\ UpperA - 1 \in Int BY LayoutFacts
  <2> QED BY <1>0, <2>1, PartHas
<1>2. upper \in Seq(Span) /\ \A e \in Int : RangeHas(upper, e) <=>
         \E d \in r.lo..r.hi : d \in UpperA..UpperZ /\ d + Shift = e
  <2>1. UpperA \in Nat /\ UpperZ \in Int /\ Shift \in Nat BY LayoutFacts
  <2> QED BY <1>0, <2>1, PartHas
<1>3. above \in Seq(Span) /\ \A e \in Int : RangeHas(above, e) <=>
         \E d \in r.lo..r.hi : d \in (UpperZ + 1)..MaxASCII /\ d + 0 = e
  <2>1. UpperZ + 1 \in Nat /\ MaxASCII \in Int /\ 0 \in Nat BY LayoutFacts
  <2> QED BY <1>0, <2>1, PartHas
<1> HIDE DEF below, upper, above
<1>4. below \o upper \in Seq(Span) /\ (below \o upper) \o above \in Seq(Span)
  BY <1>1, <1>2, <1>3, ConcatProperties
<1>5. Folded(r) = (below \o upper) \o above
  BY DEF Folded, below, upper, above
<1>6. \A e \in Int : RangeHas(Folded(r), e) <=>
          RangeHas(below, e) \/ RangeHas(upper, e) \/ RangeHas(above, e)
  <2>1. \A e \in Int : RangeHas(below \o upper, e) <=> RangeHas(below, e) \/ RangeHas(upper, e)
    BY <1>1, <1>2, ConcatHas, Zenon
  <2>2. \A e \in Int : RangeHas((below \o upper) \o above, e)
                          <=> RangeHas(below \o upper, e) \/ RangeHas(above, e)
    BY <1>3, <1>4, ConcatHas, Zenon
  <2> QED BY <2>1, <2>2, <1>5, Zenon
<1>7. ASSUME NEW d \in r.lo..r.hi
      PROVE  /\ d \in 0..(UpperA - 1) => Fold[d] = d + 0
             /\ d \in UpperA..UpperZ => Fold[d] = d + Shift
             /\ d \in (UpperZ + 1)..MaxASCII => Fold[d] = d + 0
             /\ d \in 0..(UpperA - 1) \/ d \in UpperA..UpperZ \/ d \in (UpperZ + 1)..MaxASCII
  <2>1. d \in 0..MaxASCII BY <1>0, LayoutFacts
  <2>2. Fold[d] = IF d \in UpperA..UpperZ THEN d + Shift ELSE d
    BY <2>1, LayoutAssumption
  <2> QED BY <2>1, <2>2, LayoutFacts
<1>8. ASSUME NEW e \in Int
      PROVE  RangeHas(Folded(r), e) <=> \E d \in r.lo..r.hi : Fold[d] = e
  <2>1. ASSUME RangeHas(Folded(r), e) PROVE \E d \in r.lo..r.hi : Fold[d] = e
    <3>1. CASE RangeHas(below, e)
      <4>1. PICK d \in r.lo..r.hi : d \in 0..(UpperA - 1) /\ d + 0 = e BY <3>1, <1>1
      <4> QED BY <4>1, <1>7
    <3>2. CASE RangeHas(upper, e)
      <4>1. PICK d \in r.lo..r.hi : d \in UpperA..UpperZ /\ d + Shift = e BY <3>2, <1>2
      <4> QED BY <4>1, <1>7
    <3>3. CASE RangeHas(above, e)
      <4>1. PICK d \in r.lo..r.hi : d \in (UpperZ + 1)..MaxASCII /\ d + 0 = e BY <3>3, <1>3
      <4> QED BY <4>1, <1>7
    <3> QED BY <2>1, <3>1, <3>2, <3>3, <1>6
  <2>2. ASSUME NEW d \in r.lo..r.hi, Fold[d] = e PROVE RangeHas(Folded(r), e)
    <3>1. CASE d \in 0..(UpperA - 1)
      <4>1. RangeHas(below, e) BY <3>1, <2>2, <1>1, <1>7
      <4> QED BY <4>1, <1>6
    <3>2. CASE d \in UpperA..UpperZ
      <4>1. RangeHas(upper, e) BY <3>2, <2>2, <1>2, <1>7
      <4> QED BY <4>1, <1>6
    <3>3. CASE d \in (UpperZ + 1)..MaxASCII
      <4>1. RangeHas(above, e) BY <3>3, <2>2, <1>3, <1>7
      <4> QED BY <4>1, <1>6
    <3> QED BY <3>1, <3>2, <3>3, <1>7
  <2> QED BY <2>1, <2>2
<1> QED BY <1>4, <1>5, <1>8

LEMMA FoldedRangesHas ==
    ASSUME NEW ranges \in Seq(CharRange), NEW fold \in BOOLEAN, FoldKnown(ranges, fold)
    PROVE  /\ FoldedRanges(ranges, fold) \in Seq(Span) /\ Apart(FoldedRanges(ranges, fold))
           /\ \A e \in Nat : RangeHas(FoldedRanges(ranges, fold), e)
                 <=> IF fold THEN \E d \in Point : RangeHas(ranges, d) /\ Fold[d] = e
                     ELSE RangeHas(ranges, e)
<1> DEFINE n == Len(ranges)
<1>0. n \in Nat /\ \A i \in 1..n : ranges[i] \in CharRange
  OBVIOUS
<1>1. ranges \in Seq(Span)
  BY LayoutFacts, SeqMonotonic
<1>2. CASE ~fold
  <2>1. FoldedRanges(ranges, fold) = NormalizeRanges(ranges) BY <1>2 DEF FoldedRanges
  <2>2. /\ NormalizeRanges(ranges) \in Seq(Span) /\ Apart(NormalizeRanges(ranges))
        /\ \A c \in Int : RangeHas(NormalizeRanges(ranges), c) <=> RangeHas(ranges, c)
    BY <1>1, NormalizedRanges
  <2> QED BY <2>1, <2>2, <1>2
<1>3. CASE fold
  <2> DEFINE parts == [i \in 1..n |-> Folded(ranges[i])]
             flat == FlattenSeq(parts)
  <2>1. FoldedRanges(ranges, fold) = NormalizeRanges(flat) BY <1>3 DEF FoldedRanges
  <2>2. \A i \in 1..n : ranges[i].hi <= MaxASCII
    BY <1>3 DEF FoldKnown, ToSet
  <2>3. \A i \in 1..n : /\ Folded(ranges[i]) \in Seq(Span)
                        /\ \A e \in Int : RangeHas(Folded(ranges[i]), e)
                              <=> \E d \in ranges[i].lo..ranges[i].hi : Fold[d] = e
    BY <1>0, <2>2, FoldedHas
  <2>4. parts \in Seq(Seq(Span)) /\ Len(parts) = n /\ \A i \in 1..n : parts[i] = Folded(ranges[i])
    BY <1>0, <2>3
  <2> HIDE DEF n, parts, flat
  <2>5. PICK off : PartsLie(parts, n, flat, off) /\ flat \in Seq(Span)
    BY <1>0, <2>4, FlattenParts DEF flat
  <2>6. ASSUME NEW e \in Nat
        PROVE  RangeHas(flat, e) <=> \E i \in 1..n : RangeHas(parts[i], e)
    <3>1. ASSUME RangeHas(flat, e) PROVE \E i \in 1..n : RangeHas(parts[i], e)
      <4>1. PICK i \in 1..Len(flat) : flat[i].lo <= e /\ e <= flat[i].hi
        <5>1. Among(flat, Len(flat), e) BY <3>1, <2>5, RangeHasAmong
        <5> QED BY <5>1 DEF Among
      <4>2. PICK k \in 1..n : \E j \in 1..Len(parts[k]) : i = off[k] + j /\ flat[i] = parts[k][j]
        <5>1. n = Len(parts) /\ n \in Nat /\ parts \in Seq(Seq(Span)) BY <2>4, <1>0
        <5>2. PartsLie(parts, n, flat, off) BY <2>5
        <5>3. InPart(parts, n, flat, off, i) BY <5>1, <5>2, PartOf, Zenon
        <5> QED BY <5>3, Zenon DEF InPart
      <4>3. parts[k] \in Seq(Span) BY <2>3, <2>4
      <4>4. Among(parts[k], Len(parts[k]), e) BY <4>1, <4>2, Zenon DEF Among
      <4> QED BY <4>3, <4>4, RangeHasAmong
    <3>2. ASSUME NEW k \in 1..n, RangeHas(parts[k], e) PROVE RangeHas(flat, e)
      <4>1. parts[k] \in Seq(Span) BY <2>3, <2>4
      <4>2. PICK j \in 1..Len(parts[k]) : parts[k][j].lo <= e /\ e <= parts[k][j].hi
        <5>1. Among(parts[k], Len(parts[k]), e) BY <3>2, <4>1, RangeHasAmong
        <5> QED BY <5>1 DEF Among
      <4>3. off[k] + j \in 1..Len(flat) /\ flat[off[k] + j] = parts[k][j]
        BY <2>5 DEF PartsLie
      <4>4. Among(flat, Len(flat), e) BY <4>2, <4>3, Zenon DEF Among
      <4> QED BY <4>4, <2>5, RangeHasAmong
    <3> QED BY <3>1, <3>2
  <2>7. ASSUME NEW e \in Nat
        PROVE  (\E i \in 1..n : RangeHas(parts[i], e))
                  <=> \E d \in Point : RangeHas(ranges, d) /\ Fold[d] = e
    <3>1. ASSUME NEW i \in 1..n, RangeHas(parts[i], e)
          PROVE  \E d \in Point : RangeHas(ranges, d) /\ Fold[d] = e
      <4>1. PICK d \in ranges[i].lo..ranges[i].hi : Fold[d] = e BY <3>1, <2>3, <2>4
      <4>2. d \in Point BY <1>0, LayoutFacts
      <4>3. ranges[i] \in ToSet(ranges) BY DEF ToSet, n
      <4>4. RangeHas(ranges, d) BY <4>3, Zenon DEF RangeHas
      <4> QED BY <4>1, <4>2, <4>4
    <3>2. ASSUME NEW d \in Point, RangeHas(ranges, d), Fold[d] = e
          PROVE  \E i \in 1..n : RangeHas(parts[i], e)
      <4>1. PICK r \in ToSet(ranges) : d \in r.lo..r.hi BY <3>2, Zenon DEF RangeHas
      <4>2. PICK i \in 1..n : r = ranges[i] BY DEF ToSet, n
      <4>3. RangeHas(Folded(ranges[i]), e) BY <4>1, <4>2, <3>2, <2>3
      <4> QED BY <4>3, <2>4
    <3> QED BY <3>1, <3>2
  <2>8. /\ NormalizeRanges(flat) \in Seq(Span) /\ Apart(NormalizeRanges(flat))
        /\ \A c \in Int : RangeHas(NormalizeRanges(flat), c) <=> RangeHas(flat, c)
    BY <2>5, NormalizedRanges
  <2> QED BY <2>1, <2>6, <2>7, <2>8, <1>3
<1> QED BY <1>2, <1>3

-----------------------------------------------------------------------------
(* The comparison of two tokens. *)

Token == {t \in Symbol : t.kind \in {"lit", "class", "any"}}

LEMMA TokenKinds ==
    ASSUME NEW t \in Token
    PROVE  \/ t.kind = "lit" /\ t.ch \in Point
           \/ t.kind = "class" /\ t.neg \in BOOLEAN /\ t.ranges \in Seq(CharRange)
           \/ t.kind = "any"
  BY DEF Token, Symbol

\* Which characters a class names, its own and, if case does not count, their other forms.
Names(ranges, c, fold) == \E d \in Point : SameChar(c, d, fold) /\ RangeHas(ranges, d)

LEMMA NamesSame ==
    ASSUME NEW ranges, NEW fold \in BOOLEAN, NEW c \in Point, NEW e \in Point, SameChar(c, e, fold)
    PROVE  Names(ranges, c, fold) <=> Names(ranges, e, fold)
<1>1. \A d \in Point : SameChar(c, d, fold) <=> SameChar(e, d, fold)
  BY DEF SameChar
<1> QED BY <1>1, Zenon DEF Names

\* A folded class is asked for the lower-case form of a character.
LEMMA NamesFolded ==
    ASSUME NEW ranges \in Seq(CharRange), NEW fold \in BOOLEAN, FoldKnown(ranges, fold), NEW c \in Point
    PROVE  Names(ranges, c, fold) <=>
             RangeHas(FoldedRanges(ranges, fold), IF fold THEN Fold[c] ELSE c)
<1>1. Fold[c] \in Nat /\ c \in Nat /\ Fold[c] \in Point
  BY LayoutFacts DEF Point
<1>2. CASE fold
  <2>1. RangeHas(FoldedRanges(ranges, fold), Fold[c])
          <=> \E d \in Point : RangeHas(ranges, d) /\ Fold[d] = Fold[c]
    BY <1>1, <1>2, FoldedRangesHas
  <2>2. \A d \in Point : SameChar(c, d, fold) <=> Fold[d] = Fold[c]
    BY <1>2 DEF SameChar
  <2>3. (\E d \in Point : RangeHas(ranges, d) /\ Fold[d] = Fold[c]) <=> Names(ranges, c, fold)
    BY <2>2, Zenon DEF Names
  <2> QED BY <2>1, <2>3, <1>2
<1>3. CASE ~fold
  <2>1. RangeHas(FoldedRanges(ranges, fold), c) <=> RangeHas(ranges, c)
    BY <1>1, <1>3, FoldedRangesHas
  <2>2. \A d \in Point : SameChar(c, d, fold) <=> c = d
    BY <1>3, Zenon DEF SameChar
  <2>3. RangeHas(ranges, c) <=> Names(ranges, c, fold)
    BY <2>2, Zenon DEF Names
  <2> QED BY <2>1, <2>3, <1>3
<1> QED BY <1>2, <1>3

\* What a folded class has is the form of some character it names.
LEMMA FoldedNames ==
    ASSUME NEW ranges \in Seq(CharRange), NEW fold \in BOOLEAN, FoldKnown(ranges, fold), NEW e \in Nat,
           RangeHas(FoldedRanges(ranges, fold), e)
    PROVE  \E c \in Point : e = (IF fold THEN Fold[c] ELSE c) /\ RangeHas(ranges, c)
<1>1. CASE fold
  <2>1. \E d \in Point : RangeHas(ranges, d) /\ Fold[d] = e
    BY <1>1, FoldedRangesHas
  <2> QED BY <2>1, <1>1
<1>2. CASE ~fold
  <2>1. RangeHas(ranges, e) BY <1>2, FoldedRangesHas
  <2>2. e \in Point
    <3>1. PICK r \in ToSet(ranges) : e \in r.lo..r.hi BY <2>1, Zenon DEF RangeHas
    <3>2. r \in CharRange BY DEF ToSet
    <3> QED BY <3>1, <3>2, LayoutFacts
  <2> QED BY <2>1, <2>2, <1>2
<1> QED BY <1>1, <1>2

Common(x, y, fold) == \E c \in Point : Accepts(x, c, fold, TRUE) /\ Accepts(y, c, fold, TRUE)

LEMMA LitAccepts ==
    ASSUME NEW t, t.kind = "lit", NEW c, NEW fold, NEW cross
    PROVE  Accepts(t, c, fold, cross) <=> SameChar(t.ch, c, fold)
  BY DEF Accepts

LEMMA ClassAccepts ==
    ASSUME NEW t, t.kind = "class", t.neg \in BOOLEAN, NEW c, NEW fold
    PROVE  Accepts(t, c, fold, TRUE) <=> (IF t.neg THEN ~Names(t.ranges, c, fold) ELSE Names(t.ranges, c, fold))
<1>1. Accepts(t, c, fold, TRUE) <=> ClassHas(t, c, fold)
  BY DEF Accepts
<1>2. ClassHas(t, c, fold) <=> (Names(t.ranges, c, fold) # t.neg)
  BY DEF ClassHas, Names
<1>3. Names(t.ranges, c, fold) \in BOOLEAN
  BY DEF Names
<1> QED BY <1>1, <1>2, <1>3

LEMMA TwoClasses ==
    ASSUME NEW x, NEW y, NEW fold \in BOOLEAN, x.kind = "class", y.kind = "class",
           x.neg \in BOOLEAN, y.neg \in BOOLEAN,
           x.ranges \in Seq(CharRange), y.ranges \in Seq(CharRange),
           FoldKnown(x.ranges, fold), FoldKnown(y.ranges, fold), ~(x.neg /\ y.neg)
    PROVE  CharsIntersect(x, y, fold) <=> Common(x, y, fold)
<1> DEFINE xr == FoldedRanges(x.ranges, fold)
           yr == FoldedRanges(y.ranges, fold)
           Form(c) == IF fold THEN Fold[c] ELSE c
<1>1. xr \in Seq(Span) /\ Apart(xr) /\ yr \in Seq(Span) /\ Apart(yr)
  BY FoldedRangesHas
<1>2. CharsIntersect(x, y, fold) <=>
        IF x.neg THEN HasOutside(yr, xr) ELSE IF y.neg THEN HasOutside(xr, yr) ELSE RangesIntersect(xr, yr)
  BY DEF CharsIntersect
<1>3. \A c \in Point : /\ Form(c) \in Nat
                       /\ Names(x.ranges, c, fold) <=> RangeHas(xr, Form(c))
                       /\ Names(y.ranges, c, fold) <=> RangeHas(yr, Form(c))
  BY NamesFolded, LayoutFacts DEF Point
<1>4. \A e \in Nat : /\ RangeHas(xr, e) => \E c \in Point : e = Form(c)
                     /\ RangeHas(yr, e) => \E c \in Point : e = Form(c)
  BY FoldedNames
<1> HIDE DEF xr, yr, Form
<1>5. CASE x.neg
  <2>1. HasOutside(yr, xr) <=> \E e \in Nat : RangeHas(yr, e) /\ ~RangeHas(xr, e)
    BY <1>1, HasOutsideExact
  <2>2. \A c \in Point : /\ Accepts(x, c, fold, TRUE) <=> ~RangeHas(xr, Form(c))
                         /\ Accepts(y, c, fold, TRUE) <=> RangeHas(yr, Form(c))
    BY <1>3, <1>5, ClassAccepts
  <2>3. Common(x, y, fold) <=> \E e \in Nat : RangeHas(yr, e) /\ ~RangeHas(xr, e)
    BY <1>3, <1>4, <2>2, Zenon DEF Common
  <2> QED BY <1>2, <1>5, <2>1, <2>3
<1>6. CASE ~x.neg /\ y.neg
  <2>1. HasOutside(xr, yr) <=> \E e \in Nat : RangeHas(xr, e) /\ ~RangeHas(yr, e)
    BY <1>1, HasOutsideExact
  <2>2. \A c \in Point : /\ Accepts(x, c, fold, TRUE) <=> RangeHas(xr, Form(c))
                         /\ Accepts(y, c, fold, TRUE) <=> ~RangeHas(yr, Form(c))
    BY <1>3, <1>6, ClassAccepts
  <2>3. Common(x, y, fold) <=> \E e \in Nat : RangeHas(xr, e) /\ ~RangeHas(yr, e)
    BY <1>3, <1>4, <2>2, Zenon DEF Common
  <2> QED BY <1>2, <1>6, <2>1, <2>3
<1>7. CASE ~x.neg /\ ~y.neg
  <2>1. RangesIntersect(xr, yr) <=> \E e \in Nat : RangeHas(xr, e) /\ RangeHas(yr, e)
    BY <1>1, RangesIntersectExact
  <2>2. \A c \in Point : /\ Accepts(x, c, fold, TRUE) <=> RangeHas(xr, Form(c))
                         /\ Accepts(y, c, fold, TRUE) <=> RangeHas(yr, Form(c))
    BY <1>3, <1>7, ClassAccepts
  <2>3. Common(x, y, fold) <=> \E e \in Nat : RangeHas(xr, e) /\ RangeHas(yr, e)
    BY <1>3, <1>4, <2>2, Zenon DEF Common
  <2> QED BY <1>2, <1>7, <2>1, <2>3
<1> QED BY <1>5, <1>6, <1>7

\* A literal and a class.
LEMMA LitAndClass ==
    ASSUME NEW x, NEW y, NEW fold \in BOOLEAN, x.kind = "lit", y.kind = "class",
           x.ch \in Point, y.neg \in BOOLEAN
    PROVE  ClassHas(y, x.ch, fold) <=> Common(x, y, fold)
<1>1. ClassHas(y, x.ch, fold) <=> Accepts(y, x.ch, fold, TRUE)
  BY DEF Accepts
<1>2. SameChar(x.ch, x.ch, fold)
  BY DEF SameChar
<1>3. \A c \in Point : SameChar(x.ch, c, fold) => (Accepts(y, x.ch, fold, TRUE) <=> Accepts(y, c, fold, TRUE))
  <2> SUFFICES ASSUME NEW c \in Point, SameChar(x.ch, c, fold)
               PROVE  Accepts(y, x.ch, fold, TRUE) <=> Accepts(y, c, fold, TRUE)
    OBVIOUS
  <2>1. Names(y.ranges, x.ch, fold) <=> Names(y.ranges, c, fold)
    BY NamesSame
  <2>2. \A d : Accepts(y, d, fold, TRUE)
                  <=> (IF y.neg THEN ~Names(y.ranges, d, fold) ELSE Names(y.ranges, d, fold))
    BY ClassAccepts
  <2> QED BY <2>1, <2>2
<1>4. \A c \in Point : Accepts(x, c, fold, TRUE) <=> SameChar(x.ch, c, fold)
  BY LitAccepts
<1> QED BY <1>1, <1>2, <1>3, <1>4, Zenon DEF Common

Unsure(x, y, fold) ==
    \/ x.kind = "any" \/ y.kind = "any"
    \/ x.kind = "class" /\ x.neg /\ y.kind = "class" /\ y.neg
    \/ x.kind = "class" /\ ~FoldKnown(x.ranges, fold)
    \/ y.kind = "class" /\ ~FoldKnown(y.ranges, fold)

LEMMA CommonSymmetric ==
    ASSUME NEW x, NEW y, NEW fold
    PROVE  Common(x, y, fold) <=> Common(y, x, fold)
  BY Zenon DEF Common

\* charsIntersect decides, but where it says that it may not know.
LEMMA CharsDecided ==
    ASSUME NEW x \in Token, NEW y \in Token, NEW fold \in BOOLEAN
    PROVE  /\ Common(x, y, fold) => CharsIntersect(x, y, fold)
           /\ CharsIntersect(x, y, fold) => Common(x, y, fold) \/ Unsure(x, y, fold)
<1>0. /\ \/ x.kind = "lit" /\ x.ch \in Point
         \/ x.kind = "class" /\ x.neg \in BOOLEAN /\ x.ranges \in Seq(CharRange)
         \/ x.kind = "any"
      /\ \/ y.kind = "lit" /\ y.ch \in Point
         \/ y.kind = "class" /\ y.neg \in BOOLEAN /\ y.ranges \in Seq(CharRange)
         \/ y.kind = "any"
  BY TokenKinds
<1>1. CASE x.kind = "any" \/ y.kind = "any"
  BY <1>1, Zenon DEF CharsIntersect, Unsure
<1>2. CASE x.kind = "lit" /\ y.kind = "lit"
  <2>1. x.ch \in Point /\ y.ch \in Point BY <1>0, <1>2
  <2>2. CharsIntersect(x, y, fold) <=> SameChar(x.ch, y.ch, fold)
    BY <1>2 DEF CharsIntersect
  <2>3. Common(x, y, fold) <=> \E c \in Point : SameChar(x.ch, c, fold) /\ SameChar(y.ch, c, fold)
    BY <1>2, LitAccepts, Zenon DEF Common
  <2>4. (\E c \in Point : SameChar(x.ch, c, fold) /\ SameChar(y.ch, c, fold)) <=> SameChar(x.ch, y.ch, fold)
    BY <2>1 DEF SameChar
  <2> QED BY <2>2, <2>3, <2>4
<1>3. CASE x.kind = "lit" /\ y.kind = "class"
  <2>1. CharsIntersect(x, y, fold) <=> ClassHas(y, x.ch, fold) BY <1>3 DEF CharsIntersect
  <2> QED BY <2>1, <1>0, <1>3, LitAndClass
<1>4. CASE x.kind = "class" /\ y.kind = "lit"
  <2>1. CharsIntersect(x, y, fold) <=> ClassHas(x, y.ch, fold) BY <1>4 DEF CharsIntersect
  <2>2. ClassHas(x, y.ch, fold) <=> Common(y, x, fold) BY <1>0, <1>4, LitAndClass
  <2> QED BY <2>1, <2>2, CommonSymmetric
<1>5. CASE x.kind = "class" /\ y.kind = "class"
  <2>1. CASE ~FoldKnown(x.ranges, fold) \/ ~FoldKnown(y.ranges, fold) \/ (x.neg /\ y.neg)
    <3>1. CharsIntersect(x, y, fold) BY <1>5, <2>1 DEF CharsIntersect
    <3>2. Unsure(x, y, fold) BY <1>5, <2>1 DEF Unsure
    <3> QED BY <3>1, <3>2
  <2>2. CASE FoldKnown(x.ranges, fold) /\ FoldKnown(y.ranges, fold) /\ ~(x.neg /\ y.neg)
    BY <2>2, <1>0, <1>5, TwoClasses
  <2> QED BY <2>1, <2>2
<1> QED BY <1>0, <1>1, <1>2, <1>3, <1>4, <1>5

\* The state: tokens of the kinds that are compared.
TypedTokens == insensitive \in BOOLEAN /\ tokens \in Seq(Token)

LEMMA TokensTyped == Spec => []TypedTokens
<1>1. Init => TypedTokens
  BY DEF Init, Nothing, TypedTokens
<1>2. TypedTokens /\ [Next]_vars => TypedTokens'
  <2> SUFFICES ASSUME TypedTokens, [Next]_vars PROVE TypedTokens'
    OBVIOUS
  <2>1. ASSUME NEW t \in Tokens, PickToken(t) PROVE TypedTokens'
    <3>1. t \in Token BY TokenAssumption DEF Token
    <3>2. Append(tokens, t) \in Seq(Token) BY <3>1 DEF TypedTokens
    <3> QED BY <2>1, <3>2 DEF PickToken, TypedTokens
  <2>2. ASSUME NEW w \in Word, TypeInclude(w) \/ TypeExclude(w) \/ TypeCard(w) PROVE TypedTokens'
    BY <2>2 DEF TypedTokens, TypeInclude, TypeExclude, TypeCard
  <2>3. CASE NextQuestion
    BY <2>3 DEF TypedTokens, NextQuestion
  <2>4. CASE UNCHANGED vars
    BY <2>4 DEF TypedTokens, vars
  <2> QED BY <2>1, <2>2, <2>3, <2>4 DEF Next
<1> QED BY <1>1, <1>2, PTL DEF Spec

\* For every layout of the alphabet and every two tokens, classes of any number of
\* ranges in any order among them, charsIntersect says yes where a character is
\* accepted by both, and only there, but for "?", two negated classes and folding
\* beyond ASCII (charsIntersect, foldRanges, normalizeRanges, hasOutside).
THEOREM TokensAreDecided == Spec => []TokensDecided
<1>1. TypedTokens => TokensDecided
  <2> SUFFICES ASSUME TypedTokens, Len(tokens) = 2 PROVE TokensDecided
    BY DEF TokensDecided
  <2> DEFINE x == tokens[1]
             y == tokens[2]
  <2>1. x \in Token /\ y \in Token /\ insensitive \in BOOLEAN
    BY DEF TypedTokens
  <2>2. /\ Common(x, y, insensitive) => CharsIntersect(x, y, insensitive)
        /\ CharsIntersect(x, y, insensitive) => Common(x, y, insensitive) \/ Unsure(x, y, insensitive)
    <3> HIDE DEF x, y
    <3> QED BY <2>1, CharsDecided
  <2>3. Unsure(x, y, insensitive) =>
          \/ \E t \in {x, y} : t.kind = "any"
          \/ \A t \in {x, y} : t.kind = "class" /\ t.neg
          \/ \E t \in {x, y} : t.kind = "class" /\ ~FoldKnown(t.ranges, insensitive)
    <3> HIDE DEF x, y
    <3> QED BY DEF Unsure
  <2> QED BY <2>2, <2>3, Zenon DEF TokensDecided, Common
<1> QED BY <1>1, TokensTyped, PTL

-----------------------------------------------------------------------------
(* Tables over two positions, as the comparisons fill them: each place depends on  *)
(* places further on.                                                              *)

Grid(n, m) == (1..(n + 1)) \X (1..(m + 1))

\* Further on in one of the two, and not back in the other.
Beyond(n, m, at) ==
    {u \in Grid(n, m) : at[1] <= u[1] /\ at[2] <= u[2] /\ at[1] + at[2] < u[1] + u[2]}

Filled(n, m, Step) ==
    /\ Step \in [[Grid(n, m) -> BOOLEAN] -> [Grid(n, m) -> BOOLEAN]]
    /\ \A g, h \in [Grid(n, m) -> BOOLEAN] : \A at \in Grid(n, m) :
          (\A u \in Beyond(n, m, at) : g[u] = h[u]) => Step[g][at] = Step[h][at]

LEMMA GridRecursion ==
    ASSUME NEW n \in Nat, NEW m \in Nat, NEW Step, Filled(n, m, Step)
    PROVE  \E f \in [Grid(n, m) -> BOOLEAN] : f = Step[f]
<1> DEFINE D == Grid(n, m)
           rank == [at \in D |-> (n + 1 - at[1]) + (m + 1 - at[2])]
<1>1. rank \in [D -> Nat]
  BY DEF Grid
<1>2. \A at \in D : \A u \in Beyond(n, m, at) : u \in D /\ rank[u] < rank[at]
  BY DEF Beyond, Grid
<1> HIDE DEF rank
<1>3. ASSUME NEW g \in [D -> BOOLEAN], NEW h \in [D -> BOOLEAN], NEW at \in D,
             \A u \in D : rank[u] < rank[at] => g[u] = h[u]
      PROVE  Step[g][at] = Step[h][at]
  <2>1. \A u \in Beyond(n, m, at) : g[u] = h[u] BY <1>2, <1>3
  <2> QED BY <2>1 DEF Filled
<1>4. \A g, h \in [D -> BOOLEAN] : \A at \in D :
         (\A u \in D : rank[u] < rank[at] => g[u] = h[u]) => Step[g][at] = Step[h][at]
  <2> HIDE DEF D
  <2> QED BY <1>3
<1>5. Ranked(D, BOOLEAN, rank, Step)
  BY <1>1, <1>4 DEF Ranked, Filled
<1> QED BY <1>5, BooleanRecursion

LEMMA GridInduction ==
    ASSUME NEW n \in Nat, NEW m \in Nat, NEW T \in SUBSET Grid(n, m),
           \A at \in Grid(n, m) : Beyond(n, m, at) \subseteq T => at \in T
    PROVE  T = Grid(n, m)
<1> DEFINE rank(at) == (n + 1 - at[1]) + (m + 1 - at[2])
           S == {k \in Nat : \A at \in Grid(n, m) : rank(at) = k => at \in T}
<1>1. ASSUME NEW k \in Nat, \A l \in Nat : l < k => l \in S PROVE k \in S
  <2> SUFFICES ASSUME NEW at \in Grid(n, m), rank(at) = k PROVE at \in T
    OBVIOUS
  <2>1. ASSUME NEW u \in Beyond(n, m, at) PROVE u \in T
    <3>1. u \in Grid(n, m) /\ rank(u) \in Nat /\ rank(u) < k
      BY DEF Beyond, Grid
    <3>2. rank(u) \in S
      <4> HIDE DEF rank, S
      <4> QED BY <3>1, <1>1
    <3> QED BY <3>1, <3>2
  <2> QED BY <2>1
<1>2. S = Nat
  <2> HIDE DEF S
  <2>1. S \in SUBSET Nat BY DEF S
  <2> QED BY <1>1, <2>1, Induction
<1>3. \A at \in Grid(n, m) : rank(at) \in Nat
  BY DEF Grid
<1>4. \A at \in Grid(n, m) : at \in T
  <2> SUFFICES ASSUME NEW at \in Grid(n, m) PROVE at \in T
    OBVIOUS
  <2>1. rank(at) \in S
    <3> HIDE DEF rank, S
    <3> QED BY <1>2, <1>3
  <2> QED BY <2>1
<1> QED BY <1>4

\* A place that is not the last of either position has its neighbours before it.
LEMMA GridNext ==
    ASSUME NEW n \in Nat, NEW m \in Nat, NEW at \in Grid(n, m)
    PROVE  /\ at[1] \in Nat /\ at[2] \in Nat /\ at = <<at[1], at[2]>>
           /\ ~(at[1] > n) => at[1] \in 1..n /\ <<at[1] + 1, at[2]>> \in Beyond(n, m, at)
           /\ ~(at[2] > m) => at[2] \in 1..m /\ <<at[1], at[2] + 1>> \in Beyond(n, m, at)
           /\ ~(at[1] > n) /\ ~(at[2] > m) => <<at[1] + 1, at[2] + 1>> \in Beyond(n, m, at)
           /\ Beyond(n, m, at) \subseteq Grid(n, m)
  BY DEF Grid, Beyond

-----------------------------------------------------------------------------
(* The table of segmentsIntersect. *)

SegTurn(a, b, fold, go, at) ==
    LET i == at[1]
        j == at[2]
    IN IF i > Len(a) \/ j > Len(b) THEN OnlyFrom(a, i, Star) /\ OnlyFrom(b, j, Star)
       ELSE IF a[i] = Star \/ b[j] = Star THEN go[<<i + 1, j>>] \/ go[<<i, j + 1>>]
       ELSE CharsIntersect(a[i], b[j], fold) /\ go[<<i + 1, j + 1>>]

SegTable(a, b, fold, go) ==
    go = [at \in (1..(Len(a) + 1)) \X (1..(Len(b) + 1)) |-> SegTurn(a, b, fold, go, at)]

SegGo(a, b, fold) == CHOOSE go : SegTable(a, b, fold, go)

LEMMA SegmentsIntersectTable ==
    ASSUME NEW s, NEW t, NEW fold
    PROVE  SegmentsIntersect(s, t, fold) = SegGo(SegTokens(s), SegTokens(t), fold)[<<1, 1>>]
  BY DEF SegmentsIntersect, SegGo, SegTable, SegTurn

\* A turn is decided by the places beyond it.
SegDecided(a, b, fold, n, m, g, at) ==
    /\ SegTurn(a, b, fold, g, at) \in BOOLEAN
    /\ \A h : (\A u \in Beyond(n, m, at) : g[u] = h[u])
                 => SegTurn(a, b, fold, g, at) = SegTurn(a, b, fold, h, at)

LEMMA SegTurns ==
    ASSUME NEW a, NEW b, NEW fold, NEW n \in Nat, NEW m \in Nat, n = Len(a), m = Len(b),
           NEW g \in [Grid(n, m) -> BOOLEAN], NEW at \in Grid(n, m)
    PROVE  SegDecided(a, b, fold, n, m, g, at)
<1> DEFINE i == at[1]
           j == at[2]
<1>0. /\ ~(i > n) => <<i + 1, j>> \in Beyond(n, m, at)
      /\ ~(j > m) => <<i, j + 1>> \in Beyond(n, m, at)
      /\ ~(i > n) /\ ~(j > m) => <<i + 1, j + 1>> \in Beyond(n, m, at)
      /\ Beyond(n, m, at) \subseteq Grid(n, m)
  BY GridNext
<1>1. CASE i > n \/ j > m
  <2>1. \A h : SegTurn(a, b, fold, h, at) = (OnlyFrom(a, i, Star) /\ OnlyFrom(b, j, Star))
    BY <1>1, Zenon DEF SegTurn
  <2> QED BY <2>1 DEF SegDecided
<1>2. CASE ~(i > n \/ j > m) /\ (a[i] = Star \/ b[j] = Star)
  <2>1. \A h : SegTurn(a, b, fold, h, at) = (h[<<i + 1, j>>] \/ h[<<i, j + 1>>])
    BY <1>2, Zenon DEF SegTurn
  <2>2. <<i + 1, j>> \in Beyond(n, m, at) /\ <<i, j + 1>> \in Beyond(n, m, at)
    BY <1>0, <1>2
  <2> QED BY <2>1, <2>2 DEF SegDecided
<1>3. CASE ~(i > n \/ j > m) /\ ~(a[i] = Star \/ b[j] = Star)
  <2>1. \A h : SegTurn(a, b, fold, h, at) = (CharsIntersect(a[i], b[j], fold) /\ h[<<i + 1, j + 1>>])
    BY <1>3, Zenon DEF SegTurn
  <2>2. <<i + 1, j + 1>> \in Beyond(n, m, at)
    BY <1>0, <1>3
  <2> QED BY <2>1, <2>2 DEF SegDecided
<1> QED BY <1>1, <1>2, <1>3

LEMMA SegGoTable ==
    ASSUME NEW a, NEW b, NEW fold, Len(a) \in Nat, Len(b) \in Nat
    PROVE  /\ SegGo(a, b, fold) \in [Grid(Len(a), Len(b)) -> BOOLEAN]
           /\ SegTable(a, b, fold, SegGo(a, b, fold))
<1> DEFINE n == Len(a)
           m == Len(b)
           D == Grid(n, m)
           Step == [g \in [D -> BOOLEAN] |-> [at \in D |-> SegTurn(a, b, fold, g, at)]]
<1>1. \A g \in [D -> BOOLEAN] : \A at \in D :
         /\ SegTurn(a, b, fold, g, at) \in BOOLEAN
         /\ \A h : (\A u \in Beyond(n, m, at) : g[u] = h[u])
                      => SegTurn(a, b, fold, g, at) = SegTurn(a, b, fold, h, at)
  <2> SUFFICES ASSUME NEW g \in [D -> BOOLEAN], NEW at \in D
               PROVE  /\ SegTurn(a, b, fold, g, at) \in BOOLEAN
                      /\ \A h : (\A u \in Beyond(n, m, at) : g[u] = h[u])
                                   => SegTurn(a, b, fold, g, at) = SegTurn(a, b, fold, h, at)
    OBVIOUS
  <2>1. n \in Nat /\ m \in Nat /\ n = Len(a) /\ m = Len(b) OBVIOUS
  <2> HIDE DEF n, m
  <2>2. SegDecided(a, b, fold, n, m, g, at) BY <2>1, SegTurns
  <2> QED BY <2>2, Zenon DEF SegDecided
<1>2. Filled(n, m, Step)
  <2>1. Step \in [[D -> BOOLEAN] -> [D -> BOOLEAN]]
    <3> HIDE DEF D
    <3> QED BY <1>1
  <2>2. ASSUME NEW g \in [D -> BOOLEAN], NEW h \in [D -> BOOLEAN], NEW at \in D,
               \A u \in Beyond(n, m, at) : g[u] = h[u]
        PROVE  Step[g][at] = Step[h][at]
    <3>1. SegTurn(a, b, fold, g, at) = SegTurn(a, b, fold, h, at) BY <1>1, <2>2, Zenon
    <3> HIDE DEF D
    <3> QED BY <3>1
  <2> HIDE DEF Step
  <2> QED BY <2>1, <2>2 DEF Filled
<1>3. PICK f \in [D -> BOOLEAN] : f = Step[f]
  <2> HIDE DEF Step, D
  <2>1. n \in Nat /\ m \in Nat OBVIOUS
  <2> HIDE DEF n, m
  <2> QED BY <1>2, <2>1, GridRecursion DEF D
<1>4. f = [at \in D |-> SegTurn(a, b, fold, f, at)]
  <2> HIDE DEF D
  <2> QED BY <1>3
<1>5. SegTable(a, b, fold, f)
  BY <1>4 DEF SegTable, Grid
<1>6. SegTable(a, b, fold, SegGo(a, b, fold))
  BY <1>5, Zenon DEF SegGo
<1> DEFINE go == SegGo(a, b, fold)
<1> HIDE DEF go
<1>7. go = [at \in D |-> SegTurn(a, b, fold, go, at)]
  BY <1>6 DEF SegTable, Grid, go
<1>8. \A at \in D : go[at] \in BOOLEAN
  <2> DEFINE T == {at \in Grid(n, m) : go[at] \in BOOLEAN}
  <2>1. ASSUME NEW at \in Grid(n, m), Beyond(n, m, at) \subseteq T PROVE at \in T
    <3> DEFINE g == [u \in D |-> IF u \in T THEN go[u] ELSE TRUE]
    <3>1. g \in [D -> BOOLEAN] OBVIOUS
    <3>2. \A u \in Beyond(n, m, at) : g[u] = go[u] BY <2>1
    <3> HIDE DEF g
    <3>3. SegTurn(a, b, fold, g, at) \in BOOLEAN /\ SegTurn(a, b, fold, g, at) = SegTurn(a, b, fold, go, at)
      BY <1>1, <3>1, <3>2
    <3>4. go[at] = SegTurn(a, b, fold, go, at) BY <1>7
    <3> QED BY <3>3, <3>4
  <2>2. T = Grid(n, m)
    <3> HIDE DEF T
    <3>1. T \in SUBSET Grid(n, m) BY DEF T
    <3> QED BY <2>1, <3>1, GridInduction
  <2> QED BY <2>2
<1>9. go \in [D -> BOOLEAN]
  <2> HIDE DEF D
  <2>1. go = [at \in D |-> go[at]] BY <1>7
  <2> QED BY <1>8, <2>1
<1> QED BY <1>6, <1>9 DEF go

-----------------------------------------------------------------------------
(* The table of GlobsIntersect. *)

GlobTurn(a, b, fold, go, at) ==
    LET i == at[1]
        j == at[2]
    IN IF i > Len(a) \/ j > Len(b) THEN OnlyFrom(a, i, Globstar) /\ OnlyFrom(b, j, Globstar)
       ELSE IF a[i] = Globstar \/ b[j] = Globstar
            THEN \/ go[<<i + 1, j>>] \/ go[<<i, j + 1>>]
                 \/ a[i] = b[j] /\ go[<<i + 1, j + 1>>]
            ELSE SegmentsIntersect(a[i], b[j], fold) /\ go[<<i + 1, j + 1>>]

GlobTable(a, b, fold, go) ==
    go = [at \in (1..(Len(a) + 1)) \X (1..(Len(b) + 1)) |-> GlobTurn(a, b, fold, go, at)]

GlobGo(a, b, fold) == CHOOSE go : GlobTable(a, b, fold, go)

LEMMA GlobsIntersectTable ==
    ASSUME NEW p, NEW q, NEW fold
    PROVE  GlobsIntersect(p, q, fold) = GlobGo(Segments(p), Segments(q), fold)[<<1, 1>>]
  BY DEF GlobsIntersect, GlobGo, GlobTable, GlobTurn

\* A turn is decided by the places beyond it.
GlobDecided(a, b, fold, n, m, g, at) ==
    /\ GlobTurn(a, b, fold, g, at) \in BOOLEAN
    /\ \A h : (\A u \in Beyond(n, m, at) : g[u] = h[u])
                 => GlobTurn(a, b, fold, g, at) = GlobTurn(a, b, fold, h, at)

LEMMA GlobTurns ==
    ASSUME NEW a, NEW b, NEW fold, NEW n \in Nat, NEW m \in Nat, n = Len(a), m = Len(b),
           NEW g \in [Grid(n, m) -> BOOLEAN], NEW at \in Grid(n, m)
    PROVE  GlobDecided(a, b, fold, n, m, g, at)
<1> DEFINE i == at[1]
           j == at[2]
<1>0. /\ ~(i > n) => <<i + 1, j>> \in Beyond(n, m, at)
      /\ ~(j > m) => <<i, j + 1>> \in Beyond(n, m, at)
      /\ ~(i > n) /\ ~(j > m) => <<i + 1, j + 1>> \in Beyond(n, m, at)
      /\ Beyond(n, m, at) \subseteq Grid(n, m)
  BY GridNext
<1>1. CASE i > n \/ j > m
  <2>1. \A h : GlobTurn(a, b, fold, h, at) = (OnlyFrom(a, i, Globstar) /\ OnlyFrom(b, j, Globstar))
    BY <1>1, Zenon DEF GlobTurn
  <2> QED BY <2>1 DEF GlobDecided
<1>2. CASE ~(i > n \/ j > m) /\ (a[i] = Globstar \/ b[j] = Globstar)
  <2>1. \A h : GlobTurn(a, b, fold, h, at) =
                 (h[<<i + 1, j>>] \/ h[<<i, j + 1>>] \/ (a[i] = b[j] /\ h[<<i + 1, j + 1>>]))
    BY <1>2, Zenon DEF GlobTurn
  <2>2. /\ <<i + 1, j>> \in Beyond(n, m, at) /\ <<i, j + 1>> \in Beyond(n, m, at)
        /\ <<i + 1, j + 1>> \in Beyond(n, m, at)
    BY <1>0, <1>2
  <2> QED BY <2>1, <2>2 DEF GlobDecided
<1>3. CASE ~(i > n \/ j > m) /\ ~(a[i] = Globstar \/ b[j] = Globstar)
  <2>1. \A h : GlobTurn(a, b, fold, h, at) = (SegmentsIntersect(a[i], b[j], fold) /\ h[<<i + 1, j + 1>>])
    BY <1>3, Zenon DEF GlobTurn
  <2>2. <<i + 1, j + 1>> \in Beyond(n, m, at)
    BY <1>0, <1>3
  <2> QED BY <2>1, <2>2 DEF GlobDecided
<1> QED BY <1>1, <1>2, <1>3

LEMMA GlobGoTable ==
    ASSUME NEW a, NEW b, NEW fold, Len(a) \in Nat, Len(b) \in Nat
    PROVE  /\ GlobGo(a, b, fold) \in [Grid(Len(a), Len(b)) -> BOOLEAN]
           /\ GlobTable(a, b, fold, GlobGo(a, b, fold))
<1> DEFINE n == Len(a)
           m == Len(b)
           D == Grid(n, m)
           Step == [g \in [D -> BOOLEAN] |-> [at \in D |-> GlobTurn(a, b, fold, g, at)]]
<1>1. \A g \in [D -> BOOLEAN] : \A at \in D :
         /\ GlobTurn(a, b, fold, g, at) \in BOOLEAN
         /\ \A h : (\A u \in Beyond(n, m, at) : g[u] = h[u])
                      => GlobTurn(a, b, fold, g, at) = GlobTurn(a, b, fold, h, at)
  <2> SUFFICES ASSUME NEW g \in [D -> BOOLEAN], NEW at \in D
               PROVE  /\ GlobTurn(a, b, fold, g, at) \in BOOLEAN
                      /\ \A h : (\A u \in Beyond(n, m, at) : g[u] = h[u])
                                   => GlobTurn(a, b, fold, g, at) = GlobTurn(a, b, fold, h, at)
    OBVIOUS
  <2>1. n \in Nat /\ m \in Nat /\ n = Len(a) /\ m = Len(b) OBVIOUS
  <2> HIDE DEF n, m
  <2>2. GlobDecided(a, b, fold, n, m, g, at) BY <2>1, GlobTurns
  <2> QED BY <2>2, Zenon DEF GlobDecided
<1>2. Filled(n, m, Step)
  <2>1. Step \in [[D -> BOOLEAN] -> [D -> BOOLEAN]]
    <3> HIDE DEF D
    <3> QED BY <1>1
  <2>2. ASSUME NEW g \in [D -> BOOLEAN], NEW h \in [D -> BOOLEAN], NEW at \in D,
               \A u \in Beyond(n, m, at) : g[u] = h[u]
        PROVE  Step[g][at] = Step[h][at]
    <3>1. GlobTurn(a, b, fold, g, at) = GlobTurn(a, b, fold, h, at) BY <1>1, <2>2, Zenon
    <3> HIDE DEF D
    <3> QED BY <3>1
  <2> HIDE DEF Step
  <2> QED BY <2>1, <2>2 DEF Filled
<1>3. PICK f \in [D -> BOOLEAN] : f = Step[f]
  <2> HIDE DEF Step, D
  <2>1. n \in Nat /\ m \in Nat OBVIOUS
  <2> HIDE DEF n, m
  <2> QED BY <1>2, <2>1, GridRecursion DEF D
<1>4. f = [at \in D |-> GlobTurn(a, b, fold, f, at)]
  <2> HIDE DEF D
  <2> QED BY <1>3
<1>5. GlobTable(a, b, fold, f)
  BY <1>4 DEF GlobTable, Grid
<1>6. GlobTable(a, b, fold, GlobGo(a, b, fold))
  BY <1>5, Zenon DEF GlobGo
<1> DEFINE go == GlobGo(a, b, fold)
<1> HIDE DEF go
<1>7. go = [at \in D |-> GlobTurn(a, b, fold, go, at)]
  BY <1>6 DEF GlobTable, Grid, go
<1>8. \A at \in D : go[at] \in BOOLEAN
  <2> DEFINE T == {at \in Grid(n, m) : go[at] \in BOOLEAN}
  <2>1. ASSUME NEW at \in Grid(n, m), Beyond(n, m, at) \subseteq T PROVE at \in T
    <3> DEFINE g == [u \in D |-> IF u \in T THEN go[u] ELSE TRUE]
    <3>1. g \in [D -> BOOLEAN] OBVIOUS
    <3>2. \A u \in Beyond(n, m, at) : g[u] = go[u] BY <2>1
    <3> HIDE DEF g
    <3>3. GlobTurn(a, b, fold, g, at) \in BOOLEAN /\ GlobTurn(a, b, fold, g, at) = GlobTurn(a, b, fold, go, at)
      BY <1>1, <3>1, <3>2
    <3>4. go[at] = GlobTurn(a, b, fold, go, at) BY <1>7
    <3> QED BY <3>3, <3>4
  <2>2. T = Grid(n, m)
    <3> HIDE DEF T
    <3>1. T \in SUBSET Grid(n, m) BY DEF T
    <3> QED BY <2>1, <3>1, GridInduction
  <2> QED BY <2>2
<1>9. go \in [D -> BOOLEAN]
  <2> HIDE DEF D
  <2>1. go = [at \in D |-> go[at]] BY <1>7
  <2> QED BY <1>8, <2>1
<1> QED BY <1>6, <1>9 DEF go

-----------------------------------------------------------------------------
(* What segments and alternatives are made of. *)

LEMMA SegTokensTyped ==
    ASSUME NEW s \in Seq(Symbol)
    PROVE  SegTokens(s) \in Seq(Symbol)
<1> DEFINE n == Len(s)
           V == Seq(Symbol)
<1>1. n \in Nat /\ DOMAIN s = 1..n /\ \A k \in 1..n : s[k] \in Symbol
  OBVIOUS
<1> HIDE DEF n
<1>2. <<>> \in V
  OBVIOUS
<1>3. \A out \in V : \A k \in 1..n : Collapsed(out, s[k]) \in V
  BY <1>1, AppendProperties DEF Collapsed
<1>4. PICK f : CollapsedRounds(V, s, n, f)
  <2> HIDE DEF V
  <2> QED BY <1>1, <1>2, <1>3, CollapsedFold
<1>5. f \in [0..n -> V] /\ f[n] = SegTokens(s)
  BY <1>4 DEF CollapsedRounds, SegTokens
<1>6. n \in 0..n
  BY <1>1
<1> QED BY <1>5, <1>6

LEMMA SegmentsTyped ==
    ASSUME NEW p \in Seq(Symbol)
    PROVE  Segments(p) \in Seq(Seq(Symbol)) /\ Segments(p) # <<>>
<1> DEFINE n == Len(p)
           V == {segs \in Seq(Seq(Symbol)) : segs # <<>>}
<1>1. n \in Nat /\ DOMAIN p = 1..n /\ \A k \in 1..n : p[k] \in Symbol
  OBVIOUS
<1> HIDE DEF n
<1>2. << <<>> >> \in V
  OBVIOUS
<1>3. ASSUME NEW segs \in V, NEW s \in Symbol PROVE Split(segs, s) \in V
  <2>1. segs \in Seq(Seq(Symbol)) /\ Len(segs) \in Nat /\ Len(segs) \in 1..Len(segs)
    OBVIOUS
  <2>2. segs[Len(segs)] \in Seq(Symbol)
    BY <2>1
  <2>3. Append(segs[Len(segs)], s) \in Seq(Symbol)
    BY <2>2, AppendProperties
  <2>4. CASE s = Slash
    <3>1. Split(segs, s) = Append(segs, <<>>) BY <2>4 DEF Split
    <3>2. <<>> \in Seq(Symbol) OBVIOUS
    <3> QED BY <2>1, <3>1, <3>2, AppendProperties
  <2>5. CASE s # Slash
    <3> DEFINE u == [segs EXCEPT ![Len(segs)] = Append(segs[Len(segs)], s)]
    <3>1. Split(segs, s) = u BY <2>5 DEF Split
    <3>2. u \in Seq(Seq(Symbol)) /\ Len(u) = Len(segs)
      BY <2>1, <2>3, ExceptSeq
    <3>3. u # <<>>
      <4> HIDE DEF u
      <4> QED BY <2>1, <3>2
    <3> HIDE DEF u
    <3> QED BY <3>1, <3>2, <3>3
  <2> QED BY <2>4, <2>5
<1>4. \A segs \in V : \A k \in 1..n : Split(segs, p[k]) \in V
  <2> HIDE DEF V
  <2> QED BY <1>1, <1>3
<1>5. PICK f : SplitRounds(V, p, n, f)
  <2> HIDE DEF V
  <2> QED BY <1>1, <1>2, <1>4, SplitFold
<1>6. f \in [0..n -> V] /\ f[n] = Segments(p)
  BY <1>5 DEF SplitRounds, Segments
<1>7. n \in 0..n
  BY <1>1
<1>8. Segments(p) \in V
  <2> HIDE DEF V
  <2> QED BY <1>6, <1>7
<1> QED BY <1>8

\* One round of ExpandBraces.
Expansion(E, p) ==
    LET open  == SelectInSeq(p, LAMBDA s : s = Open)
        ends  == {i \in open..Len(p) : Depth(p, open, i) = 0}
        close == Min(ends)
        head  == SubSeq(p, 1, open - 1)
        tail  == SubSeq(p, close + 1, Len(p))
    IN IF open = 0 THEN {p}
       ELSE IF ends = {} THEN {}
       ELSE UNION {E[head \o body \o tail] : body \in Pieces(p, Cuts(p, open, close))}

FirstOpen(p) == SelectInSeq(p, LAMBDA s : s = Open)
Ends(p) == {i \in FirstOpen(p)..Len(p) : Depth(p, FirstOpen(p), i) = 0}
Alternatives(p) ==
    {SubSeq(p, 1, FirstOpen(p) - 1) \o body \o SubSeq(p, Min(Ends(p)) + 1, Len(p)) :
        body \in Pieces(p, Cuts(p, FirstOpen(p), Min(Ends(p))))}

LEMMA ExpansionAlternatives ==
    ASSUME NEW E, NEW p
    PROVE  Expansion(E, p) = IF FirstOpen(p) = 0 THEN {p}
                             ELSE IF Ends(p) = {} THEN {}
                             ELSE UNION {E[q] : q \in Alternatives(p)}
  BY Zenon DEF Expansion, FirstOpen, Ends, Alternatives

LEMMA FirstOpenPlace ==
    ASSUME NEW p \in Seq(Symbol)
    PROVE  /\ FirstOpen(p) = 0 => \A i \in 1..Len(p) : p[i] # Open
           /\ FirstOpen(p) # 0 => /\ FirstOpen(p) \in 1..Len(p) /\ p[FirstOpen(p)] = Open
                                  /\ \A i \in 1..(FirstOpen(p) - 1) : p[i] # Open
<1> DEFINE T == {i \in 1..Len(p) : p[i] = Open}
<1>1. FirstOpen(p) = IF T # {} THEN Min(T) ELSE 0
  BY DEF FirstOpen, SelectInSeq
<1>2. T \in SUBSET Nat /\ Len(p) \in Nat
  OBVIOUS
<1>3. CASE T = {}
  BY <1>1, <1>3
<1>4. CASE T # {}
  <2>1. Min(T) \in T /\ \A k \in T : Min(T) <= k
    <3> HIDE DEF T
    <3> QED BY <1>2, <1>4, MinOf
  <2>2. FirstOpen(p) = Min(T) BY <1>1, <1>4
  <2>3. FirstOpen(p) \in T /\ \A k \in T : FirstOpen(p) <= k BY <2>1, <2>2
  <2>4. FirstOpen(p) \in 1..Len(p) /\ p[FirstOpen(p)] = Open /\ FirstOpen(p) # 0 BY <2>3, <1>2
  <2>5. \A i \in 1..(FirstOpen(p) - 1) : i \notin T BY <2>3, <2>4, <1>2
  <2>6. \A i \in 1..(FirstOpen(p) - 1) : i \in 1..Len(p) BY <2>4, <1>2
  <2> QED BY <2>4, <2>5, <2>6
<1> QED BY <1>3, <1>4

LEMMA SubSeqTyped ==
    ASSUME NEW X, NEW s \in Seq(X), NEW a \in Nat, NEW b \in Int, 1 <= a, b <= Len(s)
    PROVE  /\ SubSeq(s, a, b) \in Seq(X)
           /\ Len(SubSeq(s, a, b)) = IF a <= b THEN b - a + 1 ELSE 0
           /\ \A i \in 1..(b - a + 1) : SubSeq(s, a, b)[i] = s[a + i - 1]
<1>1. \A i \in a..b : s[i] \in X
  OBVIOUS
<1> QED BY <1>1, SubSeqProperties

\* The alternatives of a pattern are shorter patterns.
LEMMA AlternativesShorter ==
    ASSUME NEW p \in Seq(Symbol), FirstOpen(p) # 0, Ends(p) # {}, NEW q \in Alternatives(p)
    PROVE  q \in Seq(Symbol) /\ Len(q) < Len(p)
<1> DEFINE n == Len(p)
           open == FirstOpen(p)
           close == Min(Ends(p))
           cuts == Cuts(p, open, close)
<1>1. n \in Nat /\ open \in 1..n
  BY FirstOpenPlace
<1>2. close \in open..n
  <2>1. Ends(p) \in SUBSET Nat /\ Ends(p) \subseteq open..n BY <1>1 DEF Ends
  <2>2. Min(Ends(p)) \in Ends(p) BY <2>1, MinOf
  <2> QED BY <2>1, <2>2
<1> HIDE DEF n, open, close
<1>3. PICK body \in Pieces(p, cuts) : q = SubSeq(p, 1, open - 1) \o body \o SubSeq(p, close + 1, n)
  BY Zenon DEF Alternatives, open, close, n
<1>4. PICK c \in cuts \X cuts : c[1] < c[2] /\ body = SubSeq(p, c[1] + 1, c[2] - 1)
  BY DEF Pieces
<1>5. c[1] \in open..close /\ c[2] \in open..close
  <2>1. cuts \subseteq open..close BY <1>1, <1>2 DEF Cuts
  <2> HIDE DEF cuts
  <2> QED BY <2>1
<1> DEFINE l == c[1]
           r == c[2]
           head == SubSeq(p, 1, open - 1)
           tail == SubSeq(p, close + 1, n)
<1>6. l \in Nat /\ r \in Nat /\ open <= l /\ l < r /\ r <= close /\ close <= n /\ 1 <= open
      /\ open \in Nat /\ close \in Nat
  BY <1>1, <1>2, <1>4, <1>5
<1> HIDE DEF l, r
<1>7. head \in Seq(Symbol) /\ Len(head) = open - 1
  <2>1. 1 \in Nat /\ open - 1 \in Int /\ open - 1 <= Len(p) BY <1>1, <1>6 DEF n
  <2>2. head \in Seq(Symbol) /\ Len(head) = IF 1 <= open - 1 THEN (open - 1) - 1 + 1 ELSE 0
    BY <2>1, SubSeqTyped
  <2> HIDE DEF head
  <2> QED BY <2>2, <1>6
<1>8. tail \in Seq(Symbol) /\ Len(tail) = n - close
  <2>1. close + 1 \in Nat /\ n \in Int /\ n <= Len(p) /\ 1 <= close + 1 BY <1>1, <1>6 DEF n
  <2>2. tail \in Seq(Symbol) /\ Len(tail) = IF close + 1 <= n THEN n - (close + 1) + 1 ELSE 0
    BY <2>1, SubSeqTyped
  <2> HIDE DEF tail
  <2> QED BY <2>2, <1>6, <1>1
<1>9. body \in Seq(Symbol) /\ Len(body) = r - l - 1
  <2>1. l + 1 \in Nat /\ r - 1 \in Int /\ r - 1 <= Len(p) /\ 1 <= l + 1 BY <1>1, <1>6 DEF n
  <2>2. body = SubSeq(p, l + 1, r - 1) BY <1>4 DEF l, r
  <2>3. body \in Seq(Symbol) /\ Len(body) = IF l + 1 <= r - 1 THEN (r - 1) - (l + 1) + 1 ELSE 0
    BY <2>1, <2>2, SubSeqTyped
  <2> QED BY <2>3, <1>6
<1> HIDE DEF head, tail
<1>10. head \o body \in Seq(Symbol) /\ Len(head \o body) = Len(head) + Len(body)
  BY <1>7, <1>9, ConcatProperties
<1>11. (head \o body) \o tail \in Seq(Symbol)
       /\ Len((head \o body) \o tail) = Len(head) + Len(body) + Len(tail)
  <2> DEFINE hb == head \o body
  <2>1. hb \in Seq(Symbol) /\ Len(hb) = Len(head) + Len(body) BY <1>10
  <2> HIDE DEF hb
  <2>2. hb \o tail \in Seq(Symbol) /\ Len(hb \o tail) = Len(hb) + Len(tail)
    BY <1>8, <2>1, ConcatProperties
  <2> QED BY <2>1, <2>2 DEF hb
<1>12. q = (head \o body) \o tail
  BY <1>3 DEF head, tail
<1> QED BY <1>1, <1>6, <1>7, <1>8, <1>9, <1>11, <1>12 DEF n

LEMMA ExpandBracesRecursion ==
    /\ ExpandBraces \in [Seq(Symbol) -> SUBSET Seq(Symbol)]
    /\ \A p \in Seq(Symbol) : ExpandBraces[p] = Expansion(ExpandBraces, p)
<1> DEFINE D == Seq(Symbol)
           V == SUBSET Seq(Symbol)
           rank == [p \in D |-> Len(p)]
           Step == [E \in [D -> V] |-> [p \in D |-> Expansion(E, p)]]
<1>1. rank \in [D -> Nat]
  OBVIOUS
<1>2. ASSUME NEW p \in D, FirstOpen(p) # 0, Ends(p) # {}, NEW q \in Alternatives(p)
      PROVE  q \in D /\ rank[q] < rank[p]
  <2>1. q \in Seq(Symbol) /\ Len(q) < Len(p) BY <1>2, AlternativesShorter
  <2> QED BY <2>1
<1>3. ASSUME NEW E \in [D -> V], NEW p \in D PROVE Expansion(E, p) \in V
  <2>1. CASE FirstOpen(p) = 0 BY <2>1, ExpansionAlternatives
  <2>2. CASE FirstOpen(p) # 0 /\ Ends(p) = {}
    <3>1. Expansion(E, p) = {} BY <2>2, ExpansionAlternatives
    <3> QED BY <3>1
  <2>3. CASE FirstOpen(p) # 0 /\ Ends(p) # {}
    <3>1. Expansion(E, p) = UNION {E[q] : q \in Alternatives(p)} BY <2>3, ExpansionAlternatives
    <3>2. \A q \in Alternatives(p) : E[q] \in V
      <4> HIDE DEF D, V, rank
      <4> QED BY <2>3, <1>2
    <3> QED BY <3>1, <3>2
  <2> QED BY <2>1, <2>2, <2>3
<1>4. Step \in [[D -> V] -> [D -> V]]
  <2> HIDE DEF D, V
  <2> QED BY <1>3
<1>5. ASSUME NEW g \in [D -> V], NEW h \in [D -> V], NEW p \in D,
             \A q \in D : rank[q] < rank[p] => g[q] = h[q]
      PROVE  Step[g][p] = Step[h][p]
  <2>1. Expansion(g, p) = Expansion(h, p)
    <3>1. CASE FirstOpen(p) = 0 BY <3>1, ExpansionAlternatives
    <3>2. CASE FirstOpen(p) # 0 /\ Ends(p) = {} BY <3>2, ExpansionAlternatives
    <3>3. CASE FirstOpen(p) # 0 /\ Ends(p) # {}
      <4>1. \A q \in Alternatives(p) : g[q] = h[q]
        <5> HIDE DEF D, V, rank
        <5> QED BY <3>3, <1>2, <1>5
      <4>2. {g[q] : q \in Alternatives(p)} = {h[q] : q \in Alternatives(p)} BY <4>1
      <4>3. UNION {g[q] : q \in Alternatives(p)} = UNION {h[q] : q \in Alternatives(p)} BY <4>2
      <4> QED BY <3>3, <4>3, ExpansionAlternatives
    <3> QED BY <3>1, <3>2, <3>3
  <2> HIDE DEF D, V
  <2> QED BY <2>1
<1>6. PICK f \in [D -> V] : f = Step[f]
  <2>1. \A g, h \in [D -> V] : \A p \in D :
           (\A q \in D : rank[q] < rank[p] => g[q] = h[q]) => Step[g][p] = Step[h][p]
    <3> HIDE DEF D, V, rank, Step
    <3> QED BY <1>5
  <2>2. PICK v \in V : TRUE OBVIOUS
  <2> HIDE DEF D, V, rank, Step
  <2>3. Ranked(D, V, rank, Step) BY <1>1, <1>4, <2>1 DEF Ranked
  <2> QED BY <2>3, Recursion
<1>7. f = [p \in D |-> Expansion(f, p)]
  <2> HIDE DEF D, V
  <2> QED BY <1>6
<1>8. ExpandBraces = CHOOSE E : E = [p \in D |-> Expansion(E, p)]
  BY DEF ExpandBraces, Expansion
<1>9. ExpandBraces = [p \in D |-> Expansion(ExpandBraces, p)]
  <2> HIDE DEF D, V
  <2>1. \E E : E = [p \in D |-> Expansion(E, p)] BY <1>7
  <2> QED BY <2>1, <1>8, Zenon

<1>10. \A p \in D : ExpandBraces[p] = Expansion(ExpandBraces, p)
  <2> HIDE DEF D
  <2> QED BY <1>9
<1>11. \A k \in Nat : \A p \in D : Len(p) = k => ExpandBraces[p] \in V
  <2> DEFINE S == {k \in Nat : \A p \in D : Len(p) = k => ExpandBraces[p] \in V}
  <2>1. ASSUME NEW k \in Nat, \A l \in Nat : l < k => l \in S PROVE k \in S
    <3> SUFFICES ASSUME NEW p \in D, Len(p) = k PROVE ExpandBraces[p] \in V
      OBVIOUS
    <3>1. CASE FirstOpen(p) = 0 BY <3>1, <1>10, ExpansionAlternatives
    <3>2. CASE FirstOpen(p) # 0 /\ Ends(p) = {}
      <4>1. Expansion(ExpandBraces, p) = {} BY <3>2, ExpansionAlternatives
      <4>2. ExpandBraces[p] = {} BY <4>1, <1>10
      <4> QED BY <4>2
    <3>3. CASE FirstOpen(p) # 0 /\ Ends(p) # {}
      <4>1. ExpandBraces[p] = UNION {ExpandBraces[q] : q \in Alternatives(p)}
        BY <3>3, <1>10, ExpansionAlternatives
      <4>2. \A q \in Alternatives(p) : ExpandBraces[q] \in V
        <5> SUFFICES ASSUME NEW q \in Alternatives(p) PROVE ExpandBraces[q] \in V
          OBVIOUS
        <5>1. q \in Seq(Symbol) /\ Len(q) < Len(p) BY <3>3, AlternativesShorter
        <5>2. Len(q) \in Nat /\ Len(q) < k BY <5>1
        <5>3. Len(q) \in S
          <6> HIDE DEF S
          <6> QED BY <5>2, <2>1
        <5> QED BY <5>1, <5>3
      <4> QED BY <4>1, <4>2
    <3> QED BY <3>1, <3>2, <3>3
  <2>2. S = Nat
    <3> HIDE DEF S
    <3>1. S \in SUBSET Nat BY DEF S
    <3> QED BY <2>1, <3>1, Induction
  <2> QED BY <2>2
<1>12. \A p \in D : ExpandBraces[p] \in V
  <2>1. \A p \in D : Len(p) \in Nat OBVIOUS
  <2> HIDE DEF D, V
  <2> QED BY <2>1, <1>11
<1>13. ExpandBraces \in [D -> V]
  <2> HIDE DEF D, V
  <2>1. ExpandBraces = [p \in D |-> ExpandBraces[p]] BY <1>9
  <2> QED BY <2>1, <1>12
<1> QED BY <1>10, <1>13

-----------------------------------------------------------------------------
(* The order of the two patterns does not matter. *)

LEMMA CharsIntersectSymmetric ==
    ASSUME NEW x, NEW y, NEW fold
    PROVE  CharsIntersect(x, y, fold) <=> CharsIntersect(y, x, fold)
<1>1. \A c, d : SameChar(c, d, fold) <=> SameChar(d, c, fold)
  BY Zenon DEF SameChar
<1>2. \A r, s : RangesIntersect(r, s) <=> RangesIntersect(s, r)
  BY Zenon DEF RangesIntersect
<1>3. CASE x.kind = "any" \/ y.kind = "any"
  BY <1>3 DEF CharsIntersect
<1>4. CASE x.kind = "lit" /\ y.kind = "lit"
  BY <1>1, <1>4 DEF CharsIntersect
<1>5. CASE x.kind = "lit" /\ y.kind = "class"
  BY <1>5 DEF CharsIntersect
<1>6. CASE x.kind = "class" /\ y.kind = "lit"
  BY <1>6 DEF CharsIntersect
<1>7. CASE x.kind = "class" /\ y.kind = "class"
  <2> DEFINE xr == FoldedRanges(x.ranges, fold)
             yr == FoldedRanges(y.ranges, fold)
             unsure == ~FoldKnown(x.ranges, fold) \/ ~FoldKnown(y.ranges, fold) \/ (x.neg /\ y.neg)
  <2>1. CASE unsure BY <1>7, <2>1 DEF CharsIntersect
  <2>2. CASE ~unsure
    <3>1. CharsIntersect(x, y, fold) <=>
            (IF x.neg THEN HasOutside(yr, xr) ELSE IF y.neg THEN HasOutside(xr, yr) ELSE RangesIntersect(xr, yr))
      BY <1>7, <2>2 DEF CharsIntersect
    <3>2. CharsIntersect(y, x, fold) <=>
            (IF y.neg THEN HasOutside(xr, yr) ELSE IF x.neg THEN HasOutside(yr, xr) ELSE RangesIntersect(yr, xr))
      BY <1>7, <2>2 DEF CharsIntersect
    <3>3. RangesIntersect(xr, yr) <=> RangesIntersect(yr, xr) BY <1>2
    <3> HIDE DEF xr, yr
    <3> QED BY <3>1, <3>2, <3>3, <2>2
  <2> QED BY <2>1, <2>2
<1>8. CASE /\ ~(x.kind = "any" \/ y.kind = "any") /\ ~(x.kind = "lit" /\ y.kind = "lit")
           /\ ~(x.kind = "lit" /\ y.kind = "class") /\ ~(x.kind = "class" /\ y.kind = "lit")
           /\ ~(x.kind = "class" /\ y.kind = "class")
  <2>1. CharsIntersect(x, y, fold) <=> x = y BY <1>8 DEF CharsIntersect
  <2>2. CharsIntersect(y, x, fold) <=> y = x BY <1>8 DEF CharsIntersect
  <2> QED BY <2>1, <2>2
<1> QED BY <1>3, <1>4, <1>5, <1>6, <1>7, <1>8

LEMMA SegmentsIntersectSymmetric ==
    ASSUME NEW s \in Seq(Symbol), NEW t \in Seq(Symbol), NEW fold
    PROVE  SegmentsIntersect(s, t, fold) <=> SegmentsIntersect(t, s, fold)
<1> DEFINE a == SegTokens(s)
           b == SegTokens(t)
           g == SegGo(a, b, fold)
           h == SegGo(b, a, fold)
           n == Len(a)
           m == Len(b)
           T == {at \in Grid(n, m) : g[at] <=> h[<<at[2], at[1]>>]}
<1>1. n \in Nat /\ m \in Nat
  BY SegTokensTyped
<1> HIDE DEF a, b
<1>2. /\ g \in [Grid(n, m) -> BOOLEAN] /\ SegTable(a, b, fold, g)
      /\ h \in [Grid(m, n) -> BOOLEAN] /\ SegTable(b, a, fold, h)
  BY <1>1, SegGoTable
<1> HIDE DEF g, h
<1>3. /\ \A at \in Grid(n, m) : g[at] = SegTurn(a, b, fold, g, at)
      /\ \A at \in Grid(m, n) : h[at] = SegTurn(b, a, fold, h, at)
  BY <1>2 DEF SegTable, Grid
<1>4. ASSUME NEW at \in Grid(n, m), Beyond(n, m, at) \subseteq T PROVE at \in T
  <2> DEFINE i == at[1]
             j == at[2]
  <2>1. /\ at = <<i, j>> /\ <<j, i>> \in Grid(m, n)
        /\ ~(i > n) /\ ~(j > m) => <<i + 1, j>> \in T /\ <<i, j + 1>> \in T /\ <<i + 1, j + 1>> \in T
    <3>1. <<j, i>> \in Grid(m, n) BY DEF Grid
    <3> QED BY <3>1, <1>1, <1>4, GridNext
  <2>2. /\ <<i, j>>[1] = i /\ <<i, j>>[2] = j /\ <<j, i>>[1] = j /\ <<j, i>>[2] = i
        /\ \A k, l : <<k, l>>[1] = k /\ <<k, l>>[2] = l
    OBVIOUS
  <2> HIDE DEF i, j
  <2>3. g[at] = SegTurn(a, b, fold, g, <<i, j>>) /\ h[<<j, i>>] = SegTurn(b, a, fold, h, <<j, i>>)
    BY <1>3, <2>1
  <2>4. CASE i > n \/ j > m
    <3>1. SegTurn(a, b, fold, g, <<i, j>>) = (OnlyFrom(a, i, Star) /\ OnlyFrom(b, j, Star))
      BY <2>4, <2>2 DEF SegTurn
    <3>2. SegTurn(b, a, fold, h, <<j, i>>) = (OnlyFrom(b, j, Star) /\ OnlyFrom(a, i, Star))
      BY <2>4, <2>2 DEF SegTurn
    <3> QED BY <3>1, <3>2, <2>1, <2>2, <2>3
  <2>5. CASE ~(i > n \/ j > m) /\ (a[i] = Star \/ b[j] = Star)
    <3>1. SegTurn(a, b, fold, g, <<i, j>>) = (g[<<i + 1, j>>] \/ g[<<i, j + 1>>])
      BY <2>5, <2>2 DEF SegTurn
    <3>2. SegTurn(b, a, fold, h, <<j, i>>) = (h[<<j + 1, i>>] \/ h[<<j, i + 1>>])
      BY <2>5, <2>2 DEF SegTurn
    <3>3. (g[<<i + 1, j>>] <=> h[<<j, i + 1>>]) /\ (g[<<i, j + 1>>] <=> h[<<j + 1, i>>])
      BY <2>1, <2>2, <2>5
    <3> QED BY <3>1, <3>2, <3>3, <2>1, <2>2, <2>3
  <2>6. CASE ~(i > n \/ j > m) /\ ~(a[i] = Star \/ b[j] = Star)
    <3>1. SegTurn(a, b, fold, g, <<i, j>>) = (CharsIntersect(a[i], b[j], fold) /\ g[<<i + 1, j + 1>>])
      BY <2>6, <2>2 DEF SegTurn
    <3>2. SegTurn(b, a, fold, h, <<j, i>>) = (CharsIntersect(b[j], a[i], fold) /\ h[<<j + 1, i + 1>>])
      BY <2>6, <2>2 DEF SegTurn
    <3>3. g[<<i + 1, j + 1>>] <=> h[<<j + 1, i + 1>>]
      BY <2>1, <2>2, <2>6
    <3>4. CharsIntersect(a[i], b[j], fold) <=> CharsIntersect(b[j], a[i], fold)
      BY CharsIntersectSymmetric
    <3> QED BY <3>1, <3>2, <3>3, <3>4, <2>1, <2>2, <2>3
  <2> QED BY <2>4, <2>5, <2>6
<1>5. T = Grid(n, m)
  <2> HIDE DEF T, n, m
  <2>1. T \in SUBSET Grid(n, m) BY DEF T
  <2> QED BY <1>1, <1>4, <2>1, GridInduction
<1>6. <<1, 1>> \in T
  <2> HIDE DEF T
  <2> QED BY <1>1, <1>5 DEF Grid
<1>7. g[<<1, 1>>] <=> h[<<1, 1>>]
  BY <1>6
<1> QED BY <1>7, SegmentsIntersectTable DEF g, h, a, b

LEMMA GlobsIntersectSymmetric ==
    ASSUME NEW p \in Seq(Symbol), NEW q \in Seq(Symbol), NEW fold
    PROVE  GlobsIntersect(p, q, fold) <=> GlobsIntersect(q, p, fold)
<1> DEFINE a == Segments(p)
           b == Segments(q)
           g == GlobGo(a, b, fold)
           h == GlobGo(b, a, fold)
           n == Len(a)
           m == Len(b)
           T == {at \in Grid(n, m) : g[at] <=> h[<<at[2], at[1]>>]}
<1>1. /\ n \in Nat /\ m \in Nat
      /\ \A i \in 1..n : a[i] \in Seq(Symbol)
      /\ \A j \in 1..m : b[j] \in Seq(Symbol)
  <2>1. a \in Seq(Seq(Symbol)) /\ b \in Seq(Seq(Symbol)) BY SegmentsTyped
  <2> HIDE DEF a, b
  <2> QED BY <2>1
<1> HIDE DEF a, b
<1>2. /\ g \in [Grid(n, m) -> BOOLEAN] /\ GlobTable(a, b, fold, g)
      /\ h \in [Grid(m, n) -> BOOLEAN] /\ GlobTable(b, a, fold, h)
  BY <1>1, GlobGoTable
<1> HIDE DEF g, h
<1>3. /\ \A at \in Grid(n, m) : g[at] = GlobTurn(a, b, fold, g, at)
      /\ \A at \in Grid(m, n) : h[at] = GlobTurn(b, a, fold, h, at)
  BY <1>2 DEF GlobTable, Grid
<1>4. ASSUME NEW at \in Grid(n, m), Beyond(n, m, at) \subseteq T PROVE at \in T
  <2> DEFINE i == at[1]
             j == at[2]
  <2>1. /\ at = <<i, j>> /\ <<j, i>> \in Grid(m, n)
        /\ ~(i > n) /\ ~(j > m) => /\ <<i + 1, j>> \in T /\ <<i, j + 1>> \in T /\ <<i + 1, j + 1>> \in T
                                   /\ i \in 1..n /\ j \in 1..m
    <3>1. <<j, i>> \in Grid(m, n) BY DEF Grid
    <3> QED BY <3>1, <1>1, <1>4, GridNext
  <2>2. /\ <<i, j>>[1] = i /\ <<i, j>>[2] = j /\ <<j, i>>[1] = j /\ <<j, i>>[2] = i
        /\ \A k, l : <<k, l>>[1] = k /\ <<k, l>>[2] = l
    OBVIOUS
  <2> HIDE DEF i, j
  <2>3. g[at] = GlobTurn(a, b, fold, g, <<i, j>>) /\ h[<<j, i>>] = GlobTurn(b, a, fold, h, <<j, i>>)
    BY <1>3, <2>1
  <2>4. CASE i > n \/ j > m
    <3>1. GlobTurn(a, b, fold, g, <<i, j>>) = (OnlyFrom(a, i, Globstar) /\ OnlyFrom(b, j, Globstar))
      BY <2>4, <2>2 DEF GlobTurn
    <3>2. GlobTurn(b, a, fold, h, <<j, i>>) = (OnlyFrom(b, j, Globstar) /\ OnlyFrom(a, i, Globstar))
      BY <2>4, <2>2 DEF GlobTurn
    <3> QED BY <3>1, <3>2, <2>1, <2>2, <2>3
  <2>5. CASE ~(i > n \/ j > m) /\ (a[i] = Globstar \/ b[j] = Globstar)
    <3>1. GlobTurn(a, b, fold, g, <<i, j>>) =
            (g[<<i + 1, j>>] \/ g[<<i, j + 1>>] \/ (a[i] = b[j] /\ g[<<i + 1, j + 1>>]))
      BY <2>5, <2>2 DEF GlobTurn
    <3>2. GlobTurn(b, a, fold, h, <<j, i>>) =
            (h[<<j + 1, i>>] \/ h[<<j, i + 1>>] \/ (b[j] = a[i] /\ h[<<j + 1, i + 1>>]))
      BY <2>5, <2>2 DEF GlobTurn
    <3>3. /\ g[<<i + 1, j>>] <=> h[<<j, i + 1>>]
          /\ g[<<i, j + 1>>] <=> h[<<j + 1, i>>]
          /\ g[<<i + 1, j + 1>>] <=> h[<<j + 1, i + 1>>]
      BY <2>1, <2>2, <2>5
    <3> QED BY <3>1, <3>2, <3>3, <2>1, <2>2, <2>3
  <2>6. CASE ~(i > n \/ j > m) /\ ~(a[i] = Globstar \/ b[j] = Globstar)
    <3>1. GlobTurn(a, b, fold, g, <<i, j>>) = (SegmentsIntersect(a[i], b[j], fold) /\ g[<<i + 1, j + 1>>])
      BY <2>6, <2>2 DEF GlobTurn
    <3>2. GlobTurn(b, a, fold, h, <<j, i>>) = (SegmentsIntersect(b[j], a[i], fold) /\ h[<<j + 1, i + 1>>])
      BY <2>6, <2>2 DEF GlobTurn
    <3>3. g[<<i + 1, j + 1>>] <=> h[<<j + 1, i + 1>>]
      BY <2>1, <2>2, <2>6
    <3>4. SegmentsIntersect(a[i], b[j], fold) <=> SegmentsIntersect(b[j], a[i], fold)
      BY <1>1, <2>1, <2>6, SegmentsIntersectSymmetric
    <3> QED BY <3>1, <3>2, <3>3, <3>4, <2>1, <2>2, <2>3
  <2> QED BY <2>4, <2>5, <2>6
<1>5. T = Grid(n, m)
  <2> HIDE DEF T, n, m
  <2>1. T \in SUBSET Grid(n, m) BY DEF T
  <2> QED BY <1>1, <1>4, <2>1, GridInduction
<1>6. <<1, 1>> \in T
  <2> HIDE DEF T
  <2> QED BY <1>1, <1>5 DEF Grid
<1>7. g[<<1, 1>>] <=> h[<<1, 1>>]
  BY <1>6
<1> QED BY <1>7, GlobsIntersectTable DEF g, h, a, b

-----------------------------------------------------------------------------
(* Requests and cards. *)

Pattern == Seq(Symbol)

LEMMA SubtreeTyped == Subtree \in Pattern /\ Len(Subtree) = 3
                      /\ Subtree[1] = Slash /\ Subtree[2] = Star /\ Subtree[3] = Star
<1>1. Slash \in Symbol /\ Star \in Symbol
  BY DEF Slash, Star, Symbol
<1>2. /\ <<Slash>> \in Seq(Symbol) /\ Len(<<Slash>>) = 1 /\ <<Slash>>[1] = Slash
      /\ Globstar \in Seq(Symbol) /\ Len(Globstar) = 2 /\ Globstar[1] = Star /\ Globstar[2] = Star
  BY <1>1 DEF Globstar
<1>3. Joins(Symbol, <<Slash>>, Globstar, Subtree)
  BY <1>2, ConcatParts DEF Subtree
<1>4. /\ Subtree \in Seq(Symbol) /\ Len(Subtree) = 3
      /\ Subtree[1] = Slash /\ Subtree[1 + 1] = Star /\ Subtree[1 + 2] = Star
  BY <1>2, <1>3 DEF Joins
<1> QED BY <1>4 DEF Pattern

LEMMA WithSubtreeTyped ==
    ASSUME NEW p \in Pattern
    PROVE  WithSubtree(p) \subseteq Pattern
<1>1. p \o Subtree \in Pattern
  BY SubtreeTyped, ConcatProperties DEF Pattern
<1> QED BY <1>1 DEF WithSubtree

LEMMA PatternsCanIntersectSymmetric ==
    ASSUME NEW p \in Pattern, NEW q \in Pattern, NEW fold
    PROVE  PatternsCanIntersect(p, q, fold) <=> PatternsCanIntersect(q, p, fold)
<1>1. ExpandBraces[p] \subseteq Seq(Symbol) /\ ExpandBraces[q] \subseteq Seq(Symbol)
  BY ExpandBracesRecursion DEF Pattern
<1>2. \A x \in ExpandBraces[p], y \in ExpandBraces[q] :
         GlobsIntersect(x, y, fold) <=> GlobsIntersect(y, x, fold)
  BY <1>1, GlobsIntersectSymmetric
<1> QED BY <1>2, Zenon DEF PatternsCanIntersect

LEMMA ScopesOverlapSymmetric ==
    ASSUME NEW a, NEW b, NEW fold, a.include \subseteq Pattern, b.include \subseteq Pattern
    PROVE  ScopesOverlap(a, b, fold) <=> ScopesOverlap(b, a, fold)
<1>1. \A p \in a.include, q \in b.include : \A x \in WithSubtree(p), y \in WithSubtree(q) :
         PatternsCanIntersect(x, y, fold) <=> PatternsCanIntersect(y, x, fold)
  BY WithSubtreeTyped, PatternsCanIntersectSymmetric
<1>2. \A p \in a.include, q \in b.include :
         (\E x \in WithSubtree(p), y \in WithSubtree(q) : PatternsCanIntersect(x, y, fold))
            <=> (\E y \in WithSubtree(q), x \in WithSubtree(p) : PatternsCanIntersect(y, x, fold))
  BY <1>1, Zenon
<1> QED BY <1>2, Zenon DEF ScopesOverlap

\* The words that were typed.
TypedWords ==
    /\ insensitive \in BOOLEAN
    /\ include \in Seq(Word) /\ exclude \in Seq(Word) /\ card \in Seq(Word)

LEMMA WordsTyped == Spec => []TypedWords
<1>1. Init => TypedWords
  BY DEF Init, Nothing, TypedWords
<1>2. TypedWords /\ [Next]_vars => TypedWords'
  <2> SUFFICES ASSUME TypedWords, [Next]_vars PROVE TypedWords'
    OBVIOUS
  <2>1. ASSUME NEW w \in Word, TypeInclude(w) PROVE TypedWords'
    BY <2>1 DEF TypedWords, TypeInclude
  <2>2. ASSUME NEW w \in Word, TypeExclude(w) PROVE TypedWords'
    BY <2>2 DEF TypedWords, TypeExclude
  <2>3. ASSUME NEW w \in Word, TypeCard(w) PROVE TypedWords'
    BY <2>3 DEF TypedWords, TypeCard
  <2>4. ASSUME NEW t \in Tokens, PickToken(t) PROVE TypedWords'
    BY <2>4 DEF TypedWords, PickToken
  <2>5. CASE NextQuestion
    BY <2>5 DEF TypedWords, NextQuestion
  <2>6. CASE UNCHANGED vars
    BY <2>6 DEF TypedWords, vars
  <2> QED BY <2>1, <2>2, <2>3, <2>4, <2>5, <2>6 DEF Next
<1> QED BY <1>1, <1>2, PTL DEF Spec

\* Words make a pattern.
LEMMA PatternTyped ==
    ASSUME NEW words \in Seq(Word), Given(words)
    PROVE  PatternOf(words) \in Pattern
<1> DEFINE p == FlattenSeq(words)
<1>1. words \in Seq(Seq(Symbol))
  BY WordAssumption, SeqMonotonic
<1>2. p \in Pattern
  BY <1>1, FlattenParts DEF Pattern
<1>3. p # <<>>
  BY DEF Given, Valid
<1> HIDE DEF p
<1>4. Front(p) \in Pattern
  <2>1. 1 \in Nat /\ Len(p) - 1 \in Int /\ Len(p) - 1 <= Len(p)
    BY <1>2 DEF Pattern
  <2> QED BY <1>2, <2>1, SubSeqTyped DEF Pattern, Front
<1>5. Front(p) \o Subtree \in Pattern
  BY <1>4, SubtreeTyped, ConcatProperties DEF Pattern
<1>6. NormalizeAll(p) \in Pattern
  BY <1>2, <1>4, <1>5 DEF NormalizeAll
<1> QED BY <1>6 DEF PatternOf, p

LEMMA IncludesTyped ==
    ASSUME TypedWords, Complete
    PROVE  Request.include \subseteq Pattern /\ Card.include \subseteq Pattern
<1>1. PatternOf(include) \in Pattern /\ PatternOf(card) \in Pattern
  BY PatternTyped DEF TypedWords, Complete
<1> QED BY <1>1 DEF Request, Card, PatternsOf

\* Whichever of two claims comes first, the other one is refused or neither is, for
\* every pair of patterns (ScopesOverlap and all that it compares with).
THEOREM OverlapIsSymmetric == Spec => []OverlapSymmetric
<1>1. TypedWords => OverlapSymmetric
  BY IncludesTyped, ScopesOverlapSymmetric DEF OverlapSymmetric
<1> QED BY <1>1, WordsTyped, PTL

=============================================================================
