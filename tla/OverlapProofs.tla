----------------------------- MODULE OverlapProofs -----------------------------
(* Invariant I3 for every alphabet, pattern and file: two patterns that own one   *)
(* name overlap. The matcher reads a name along a regular expression, the          *)
(* comparison reads two patterns along each other: of two readings of one name,    *)
(* segment by segment and character by character, it finds a common one. And what *)
(* an exclude is taken to cover it owns: a reading of a name below a pattern is cut *)
(* at a separator, where the pattern above it has read a name of its own.           *)
EXTENDS ScopeProofs

-----------------------------------------------------------------------------
(* The table of the matcher. *)

RestTurn(re, file, fold, cross, rest, at) ==
    LET i == at[1]
        j == at[2]
    IN IF i > Len(re) THEN j > Len(file)
       ELSE \/ /\ re[i].kind \in {"star", "dirs"}
               /\ rest[<<i + 1, j>>]
            \/ /\ re[i].kind = "star" /\ j <= Len(file) /\ file[j] # Sep
               /\ rest[<<i, j + 1>>]
            \/ /\ re[i].kind = "all"
               /\ \E k \in j..(Len(file) + 1) : rest[<<i + 1, k>>]
            \/ /\ re[i].kind = "dirs"
               /\ \E k \in j..Len(file) : file[k] = Sep /\ rest[<<i + 1, k + 1>>]
            \/ /\ j <= Len(file) /\ Accepts(re[i], file[j], fold, cross)
               /\ rest[<<i + 1, j + 1>>]

RestTable(re, file, fold, cross, rest) ==
    rest = [at \in (1..(Len(re) + 1)) \X (1..(Len(file) + 1)) |->
                RestTurn(re, file, fold, cross, rest, at)]

RestGo(re, file, fold, cross) == CHOOSE rest : RestTable(re, file, fold, cross, rest)

LEMMA RegexpMatchesTable ==
    ASSUME NEW re, NEW file, NEW fold, NEW cross
    PROVE  RegexpMatches(re, file, fold, cross) = RestGo(re, file, fold, cross)[<<1, 1>>]
  BY DEF RegexpMatches, RestGo, RestTable, RestTurn

RestDecided(re, file, fold, cross, n, m, g, at) ==
    /\ RestTurn(re, file, fold, cross, g, at) \in BOOLEAN
    /\ \A h : (\A u \in Beyond(n, m, at) : g[u] = h[u])
                 => RestTurn(re, file, fold, cross, g, at) = RestTurn(re, file, fold, cross, h, at)

LEMMA RestTurns ==
    ASSUME NEW re, NEW file, NEW fold, NEW cross, NEW n \in Nat, NEW m \in Nat, n = Len(re), m = Len(file),
           NEW g, NEW at \in Grid(n, m)
    PROVE  RestDecided(re, file, fold, cross, n, m, g, at)
<1> DEFINE i == at[1]
           j == at[2]
           t == re[i]
           Turn(h) == \/ /\ t.kind \in {"star", "dirs"}
                         /\ h[<<i + 1, j>>]
                      \/ /\ t.kind = "star" /\ j <= m /\ file[j] # Sep
                         /\ h[<<i, j + 1>>]
                      \/ /\ t.kind = "all"
                         /\ \E k \in j..(m + 1) : h[<<i + 1, k>>]
                      \/ /\ t.kind = "dirs"
                         /\ \E k \in j..m : file[k] = Sep /\ h[<<i + 1, k + 1>>]
                      \/ /\ j <= m /\ Accepts(t, file[j], fold, cross)
                         /\ h[<<i + 1, j + 1>>]
<1>1. CASE i > n
  <2>1. \A h : RestTurn(re, file, fold, cross, h, at) = (j > m)
    BY <1>1, Zenon DEF RestTurn
  <2>2. (j > m) \in BOOLEAN OBVIOUS
  <2> QED BY <2>1, <2>2, Zenon DEF RestDecided
<1>2. CASE ~(i > n)
  <2>1. \A h : RestTurn(re, file, fold, cross, h, at) = Turn(h)
    BY <1>2, Zenon DEF RestTurn
  <2>2. i \in Nat /\ j \in Nat /\ j <= m + 1 /\ i <= n
    BY <1>2 DEF Grid
  <2>3. /\ <<i + 1, j>> \in Beyond(n, m, at)
        /\ j <= m => <<i, j + 1>> \in Beyond(n, m, at) /\ <<i + 1, j + 1>> \in Beyond(n, m, at)
        /\ \A k \in j..(m + 1) : <<i + 1, k>> \in Beyond(n, m, at)
        /\ \A k \in j..m : <<i + 1, k + 1>> \in Beyond(n, m, at)
    <3>1. i >= 1 /\ j >= 1 BY DEF Grid
    <3> HIDE DEF i, j
    <3>2. \A k, l \in Nat : i <= k /\ k <= n + 1 /\ j <= l /\ l <= m + 1 /\ i + j < k + l
                               => <<k, l>> \in Beyond(n, m, at)
      <4> SUFFICES ASSUME NEW k \in Nat, NEW l \in Nat, i <= k, k <= n + 1, j <= l, l <= m + 1, i + j < k + l
                   PROVE  <<k, l>> \in Beyond(n, m, at)
        OBVIOUS
      <4>1. <<k, l>> \in Grid(n, m) BY <3>1, <2>2 DEF Grid
      <4>2. <<k, l>>[1] = k /\ <<k, l>>[2] = l OBVIOUS
      <4> QED BY <4>1, <4>2 DEF Beyond, i, j
    <3>3. ASSUME NEW k \in j..(m + 1) PROVE <<i + 1, k>> \in Beyond(n, m, at)
      <4>1. k \in Nat /\ i + 1 \in Nat /\ i <= i + 1 /\ i + 1 <= n + 1 /\ j <= k /\ k <= m + 1 /\ i + j < i + 1 + k
        BY <2>2, <3>1
      <4> QED BY <4>1, <3>2
    <3>4. ASSUME NEW k \in j..m PROVE <<i + 1, k + 1>> \in Beyond(n, m, at)
      <4>1. k + 1 \in j..(m + 1) BY <2>2, <3>1
      <4> QED BY <4>1, <3>3
    <3>5. j \in j..(m + 1) BY <2>2
    <3>6. ASSUME j <= m PROVE <<i, j + 1>> \in Beyond(n, m, at) /\ <<i + 1, j + 1>> \in Beyond(n, m, at)
      <4>1. j \in j..m BY <3>6, <2>2
      <4>2. j + 1 \in Nat /\ i <= i /\ i <= n + 1 /\ j <= j + 1 /\ j + 1 <= m + 1 /\ i + j < i + (j + 1)
        BY <2>2, <3>1, <3>6
      <4>3. <<i, j + 1>> \in Beyond(n, m, at) BY <4>2, <3>2, <2>2
      <4>4. <<i + 1, j + 1>> \in Beyond(n, m, at) BY <4>1, <3>4
      <4> QED BY <4>3, <4>4
    <3> QED BY <3>3, <3>4, <3>5, <3>6
  <2>4. \A h : (\A u \in Beyond(n, m, at) : g[u] = h[u]) => Turn(g) = Turn(h)
    <3> SUFFICES ASSUME NEW h, \A u \in Beyond(n, m, at) : g[u] = h[u] PROVE Turn(g) <=> Turn(h)
      OBVIOUS
    <3>1. g[<<i + 1, j>>] = h[<<i + 1, j>>] BY <2>3
    <3>2. j <= m => g[<<i, j + 1>>] = h[<<i, j + 1>>] /\ g[<<i + 1, j + 1>>] = h[<<i + 1, j + 1>>] BY <2>3
    <3>3. \A k \in j..(m + 1) : g[<<i + 1, k>>] = h[<<i + 1, k>>] BY <2>3
    <3>4. \A k \in j..m : g[<<i + 1, k + 1>>] = h[<<i + 1, k + 1>>] BY <2>3
    <3> HIDE DEF i, j, t
    <3> QED BY <3>1, <3>2, <3>3, <3>4, Zenon
  <2>5. Turn(g) \in BOOLEAN OBVIOUS
  <2> HIDE DEF Turn
  <2> QED BY <2>1, <2>4, <2>5, Zenon DEF RestDecided
<1> QED BY <1>1, <1>2

RestKept(re, file, fold, cross, n, m, go) ==
    \A at \in Grid(n, m) : go[at] = RestTurn(re, file, fold, cross, go, at)

LEMMA RestGoTable ==
    ASSUME NEW re, NEW file, NEW fold, NEW cross, NEW n \in Nat, NEW m \in Nat, n = Len(re), m = Len(file)
    PROVE  RestKept(re, file, fold, cross, n, m, RestGo(re, file, fold, cross))
<1> DEFINE D == Grid(n, m)
           Turn(g, at) == RestTurn(re, file, fold, cross, g, at)
           Step == [g \in [D -> BOOLEAN] |-> [at \in D |-> Turn(g, at)]]
<1>1. ASSUME NEW g \in [D -> BOOLEAN], NEW at \in D
      PROVE  /\ Turn(g, at) \in BOOLEAN
             /\ \A h : (\A u \in Beyond(n, m, at) : g[u] = h[u]) => Turn(g, at) = Turn(h, at)
  <2>1. RestDecided(re, file, fold, cross, n, m, g, at) BY RestTurns
  <2> QED BY <2>1, Zenon DEF RestDecided
<1> HIDE DEF Turn
<1>2. Filled(n, m, Step)
  <2>1. Step \in [[D -> BOOLEAN] -> [D -> BOOLEAN]]
    <3> HIDE DEF D
    <3> QED BY <1>1
  <2>2. ASSUME NEW g \in [D -> BOOLEAN], NEW h \in [D -> BOOLEAN], NEW at \in D,
               \A u \in Beyond(n, m, at) : g[u] = h[u]
        PROVE  Step[g][at] = Step[h][at]
    <3>1. Turn(g, at) = Turn(h, at) BY <1>1, <2>2, ZenonT(30)
    <3> HIDE DEF D
    <3> QED BY <3>1
  <2> HIDE DEF Step
  <2> QED BY <2>1, <2>2 DEF Filled
<1>3. PICK f \in [D -> BOOLEAN] : f = Step[f]
  <2> HIDE DEF Step, D
  <2> QED BY <1>2, GridRecursion DEF D
<1>4. f = [at \in D |-> Turn(f, at)]
  <2> HIDE DEF D
  <2> QED BY <1>3
<1>5. RestTable(re, file, fold, cross, f)
  BY <1>4 DEF RestTable, Grid, Turn
<1>6. RestTable(re, file, fold, cross, RestGo(re, file, fold, cross))
  BY <1>5, Zenon DEF RestGo
<1> DEFINE go == RestGo(re, file, fold, cross)
<1> HIDE DEF go
<1>7. go = [at \in D |-> RestTurn(re, file, fold, cross, go, at)]
  BY <1>6 DEF RestTable, Grid, go
<1>8. RestKept(re, file, fold, cross, n, m, go)
  <2> HIDE DEF D
  <2>1. \A at \in D : go[at] = RestTurn(re, file, fold, cross, go, at) BY <1>7
  <2> QED BY <2>1, Zenon DEF RestKept, D
<1> QED BY <1>8 DEF go

\* The places of the table, by the kind of the item.
Matcher(re, file, fold, n, m, go) ==
    /\ \A j \in 1..(m + 1) : go[<<n + 1, j>>] <=> j = m + 1
    /\ \A i \in 1..n, j \in 1..(m + 1) :
         /\ re[i].kind = "star" =>
              (go[<<i, j>>] <=> go[<<i + 1, j>>] \/ (j <= m /\ file[j] # Sep /\ go[<<i, j + 1>>]))
         /\ re[i].kind = "all" => (go[<<i, j>>] <=> \E k \in j..(m + 1) : go[<<i + 1, k>>])
         /\ re[i].kind = "dirs" =>
              (go[<<i, j>>] <=> go[<<i + 1, j>>] \/ \E k \in j..m : file[k] = Sep /\ go[<<i + 1, k + 1>>])
         /\ re[i].kind \notin {"star", "all", "dirs"} =>
              (go[<<i, j>>] <=> j <= m /\ Accepts(re[i], file[j], fold, FALSE) /\ go[<<i + 1, j + 1>>])

LEMMA MatcherTable ==
    ASSUME NEW re, NEW file, NEW fold, NEW n \in Nat, NEW m \in Nat, n = Len(re), m = Len(file)
    PROVE  /\ Matcher(re, file, fold, n, m, RestGo(re, file, fold, FALSE))
           /\ RegexpMatches(re, file, fold, FALSE) <=> RestGo(re, file, fold, FALSE)[<<1, 1>>]
<1> DEFINE go == RestGo(re, file, fold, FALSE)
<1>1. \A at \in Grid(n, m) : go[at] = RestTurn(re, file, fold, FALSE, go, at)
  <2>1. RestKept(re, file, fold, FALSE, n, m, RestGo(re, file, fold, FALSE))
    BY RestGoTable
  <2> QED BY <2>1, Zenon DEF go, RestKept
<1>2. RegexpMatches(re, file, fold, FALSE) = go[<<1, 1>>]
  BY RegexpMatchesTable
<1> HIDE DEF go
<1>3. ASSUME NEW j \in 1..(m + 1) PROVE go[<<n + 1, j>>] <=> j = m + 1
  <2>1. <<n + 1, j>> \in Grid(n, m) /\ n + 1 > n BY DEF Grid
  <2>2. go[<<n + 1, j>>] = RestTurn(re, file, fold, FALSE, go, <<n + 1, j>>) BY <2>1, <1>1
  <2>3. RestTurn(re, file, fold, FALSE, go, <<n + 1, j>>) = (j > m) BY <2>1 DEF RestTurn
  <2>4. j > m <=> j = m + 1 OBVIOUS
  <2> QED BY <2>2, <2>3, <2>4, Zenon
<1>4. ASSUME NEW i \in 1..n, NEW j \in 1..(m + 1)
      PROVE  go[<<i, j>>] <=>
               \/ re[i].kind \in {"star", "dirs"} /\ go[<<i + 1, j>>]
               \/ re[i].kind = "star" /\ j <= m /\ file[j] # Sep /\ go[<<i, j + 1>>]
               \/ re[i].kind = "all" /\ \E k \in j..(m + 1) : go[<<i + 1, k>>]
               \/ re[i].kind = "dirs" /\ \E k \in j..m : file[k] = Sep /\ go[<<i + 1, k + 1>>]
               \/ j <= m /\ Accepts(re[i], file[j], fold, FALSE) /\ go[<<i + 1, j + 1>>]
  <2>1. <<i, j>> \in Grid(n, m) /\ ~(i > n) BY DEF Grid
  <2>2. go[<<i, j>>] = RestTurn(re, file, fold, FALSE, go, <<i, j>>) BY <2>1, <1>1
  <2> QED BY <2>1, <2>2 DEF RestTurn

<1>5. ASSUME NEW i \in 1..n, NEW j \in 1..(m + 1)
      PROVE  /\ re[i].kind = "star" =>
                  (go[<<i, j>>] <=> go[<<i + 1, j>>] \/ (j <= m /\ file[j] # Sep /\ go[<<i, j + 1>>]))
             /\ re[i].kind = "all" => (go[<<i, j>>] <=> \E k \in j..(m + 1) : go[<<i + 1, k>>])
             /\ re[i].kind = "dirs" =>
                  (go[<<i, j>>] <=> go[<<i + 1, j>>] \/ \E k \in j..m : file[k] = Sep /\ go[<<i + 1, k + 1>>])
             /\ re[i].kind \notin {"star", "all", "dirs"} =>
                  (go[<<i, j>>] <=> j <= m /\ Accepts(re[i], file[j], fold, FALSE) /\ go[<<i + 1, j + 1>>])
  <2> DEFINE kind == re[i].kind
             Star1 == go[<<i + 1, j>>]
             Star2 == j <= m /\ file[j] # Sep /\ go[<<i, j + 1>>]
             All == \E k \in j..(m + 1) : go[<<i + 1, k>>]
             Dirs == \E k \in j..m : file[k] = Sep /\ go[<<i + 1, k + 1>>]
             One == j <= m /\ Accepts(re[i], file[j], fold, FALSE) /\ go[<<i + 1, j + 1>>]
  <2>1. go[<<i, j>>] <=> \/ kind \in {"star", "dirs"} /\ Star1
                         \/ kind = "star" /\ Star2
                         \/ kind = "all" /\ All
                         \/ kind = "dirs" /\ Dirs
                         \/ One
    BY <1>4, Zenon
  <2>2. kind \in {"star", "all", "dirs"} => ~One
    <3>1. kind \in {"star", "all", "dirs"} => ~Accepts(re[i], file[j], fold, FALSE) BY DEF Accepts
    <3> HIDE DEF kind
    <3> QED BY <3>1
  <2> HIDE DEF kind, Star1, Star2, All, Dirs, One
  <2>3. /\ kind = "star" => (go[<<i, j>>] <=> (Star1 \/ Star2))
        /\ kind = "all" => (go[<<i, j>>] <=> All)
        /\ kind = "dirs" => (go[<<i, j>>] <=> (Star1 \/ Dirs))
        /\ kind \notin {"star", "all", "dirs"} => (go[<<i, j>>] <=> One)
    BY <2>1, <2>2
  <2> QED BY <2>3, Zenon DEF kind, Star1, Star2, All, Dirs, One
<1>7. Matcher(re, file, fold, n, m, go)
  BY <1>3, <1>5 DEF Matcher
<1> QED BY <1>2, <1>7 DEF go

-----------------------------------------------------------------------------
(* How an expression reads a file, segment by segment. *)

\* The items of an expression: the segments of its pattern, each with what ends it.
Items(segs) ==
    [k \in 1..Len(segs) |->
        IF segs[k] # Globstar THEN IF k = Len(segs) THEN segs[k] ELSE Append(segs[k], Slash)
        ELSE <<[kind |-> IF k = Len(segs) THEN "all" ELSE "dirs"]>>]

LEMMA RegexpItems ==
    ASSUME NEW x
    PROVE  Regexp(x) = FlattenSeq(Items(Segments(x)))
  BY DEF Regexp, Items

ItemsLie(segs, n, re, off) ==
    /\ off \in [1..(n + 1) -> Nat] /\ off[1] = 0 /\ off[n + 1] = Len(re) /\ Len(re) \in Nat
    /\ \A i \in 1..n : segs[i] # Globstar =>
          /\ \A t \in 1..Len(segs[i]) : off[i] + t \in 1..Len(re) /\ re[off[i] + t] = segs[i][t]
          /\ i = n => off[i + 1] = off[i] + Len(segs[i])
          /\ i # n => /\ off[i + 1] = off[i] + Len(segs[i]) + 1
                      /\ off[i] + Len(segs[i]) + 1 \in 1..Len(re)
                      /\ re[off[i] + Len(segs[i]) + 1] = Slash
    /\ \A i \in 1..n : segs[i] = Globstar =>
          /\ off[i + 1] = off[i] + 1 /\ off[i] + 1 \in 1..Len(re)
          /\ re[off[i] + 1].kind = IF i = n THEN "all" ELSE "dirs"

LEMMA ItemPlaces ==
    ASSUME NEW segs \in Seq(Seq(Symbol)), NEW n \in Nat, n = Len(segs)
    PROVE  \E off : ItemsLie(segs, n, FlattenSeq(Items(segs)), off)
<1> DEFINE X == Symbol \cup {[kind |-> "all"], [kind |-> "dirs"]}
           items == Items(segs)
           re == FlattenSeq(items)
<1>0. Slash \in Symbol
  BY DEF Slash, Symbol
<1>1. ASSUME NEW i \in 1..n
      PROVE  /\ segs[i] \in Seq(Symbol) /\ Len(segs[i]) \in Nat
             /\ segs[i] # Globstar /\ i = n => items[i] = segs[i]
             /\ segs[i] # Globstar /\ i # n => items[i] = Append(segs[i], Slash)
             /\ segs[i] = Globstar => items[i] = <<[kind |-> IF i = n THEN "all" ELSE "dirs"]>>
  <2>1. segs[i] \in Seq(Symbol) OBVIOUS
  <2> QED BY <2>1 DEF Items
<1>2. ASSUME NEW i \in 1..n, segs[i] # Globstar, i # n
      PROVE  /\ items[i] \in Seq(Symbol) /\ Len(items[i]) = Len(segs[i]) + 1
             /\ items[i][Len(segs[i]) + 1] = Slash
             /\ \A t \in 1..Len(segs[i]) : items[i][t] = segs[i][t]
  <2>1. segs[i] \in Seq(Symbol) /\ items[i] = Append(segs[i], Slash) BY <1>1, <1>2
  <2> HIDE DEF items
  <2> DEFINE s == segs[i]
  <2> HIDE DEF s
  <2>2. s \in Seq(Symbol) /\ items[i] = Append(s, Slash) BY <2>1 DEF s
  <2>3. /\ Append(s, Slash) \in Seq(Symbol) /\ Len(Append(s, Slash)) = Len(s) + 1
        /\ Append(s, Slash)[Len(s) + 1] = Slash
        /\ \A t \in 1..Len(s) : Append(s, Slash)[t] = s[t]
    BY <2>2, <1>0, AppendProperties
  <2> QED BY <2>2, <2>3 DEF s
<1>3. ASSUME NEW i \in 1..n, segs[i] = Globstar
      PROVE  /\ items[i] \in Seq(X) /\ Len(items[i]) = 1
             /\ items[i][1].kind = IF i = n THEN "all" ELSE "dirs"
  <2> DEFINE one == [kind |-> IF i = n THEN "all" ELSE "dirs"]
  <2>1. one \in X /\ one.kind = IF i = n THEN "all" ELSE "dirs" OBVIOUS
  <2>2. items[i] = <<one>> BY <1>1, <1>3
  <2> HIDE DEF one, X, items
  <2> QED BY <2>1, <2>2
<1>4. items \in Seq(Seq(X)) /\ Len(items) = n
  <2>1. \A i \in 1..n : items[i] \in Seq(X)
    <3> SUFFICES ASSUME NEW i \in 1..n PROVE items[i] \in Seq(X)
      OBVIOUS
    <3>1. Seq(Symbol) \subseteq Seq(X) BY SeqMonotonic
    <3> HIDE DEF items, X
    <3> QED BY <3>1, <1>1, <1>2, <1>3
  <2>2. items = [i \in 1..n |-> items[i]] BY DEF Items
  <2> HIDE DEF items
  <2> QED BY <2>1, <2>2
<1> HIDE DEF items, X
<1>5. PICK off : PartsLie(items, n, re, off)
  BY <1>4, FlattenParts DEF re
<1>6. re \in Seq(X)
  BY <1>4, FlattenParts DEF re
<1> HIDE DEF re
<1>7. /\ off \in [1..(n + 1) -> Nat] /\ off[1] = 0 /\ off[n + 1] = Len(re) /\ Len(re) \in Nat
      /\ \A k \in 1..n : off[k + 1] = off[k] + Len(items[k])
      /\ \A k \in 1..n : \A i \in 1..Len(items[k]) :
            off[k] + i \in 1..Len(re) /\ re[off[k] + i] = items[k][i]
  BY <1>5, <1>6 DEF PartsLie
<1>8. ASSUME NEW i \in 1..n, segs[i] # Globstar
      PROVE  /\ \A t \in 1..Len(segs[i]) : off[i] + t \in 1..Len(re) /\ re[off[i] + t] = segs[i][t]
             /\ i = n => off[i + 1] = off[i] + Len(segs[i])
             /\ i # n => /\ off[i + 1] = off[i] + Len(segs[i]) + 1
                         /\ off[i] + Len(segs[i]) + 1 \in 1..Len(re)
                         /\ re[off[i] + Len(segs[i]) + 1] = Slash
  <2> DEFINE L == Len(segs[i])
  <2>0. L \in Nat /\ off[i] \in Nat BY <1>1, <1>7
  <2>1. CASE i = n
    <3>1. items[i] = segs[i] BY <1>1, <1>8, <2>1
    <3> QED BY <3>1, <2>1, <1>7
  <2>2. CASE i # n
    <3>1. /\ Len(items[i]) = L + 1 /\ items[i][L + 1] = Slash
          /\ \A t \in 1..L : items[i][t] = segs[i][t]
      BY <1>2, <1>8, <2>2
    <3>2. \A t \in 1..(L + 1) : off[i] + t \in 1..Len(re) /\ re[off[i] + t] = items[i][t]
      BY <1>7, <3>1
    <3>3. off[i + 1] = off[i] + (L + 1) BY <1>7, <3>1
    <3> HIDE DEF L
    <3>4. L + 1 \in 1..(L + 1) /\ \A t \in 1..L : t \in 1..(L + 1) BY <2>0
    <3>5. off[i] + (L + 1) \in 1..Len(re) /\ re[off[i] + (L + 1)] = Slash BY <3>1, <3>2, <3>4
    <3>6. \A t \in 1..L : off[i] + t \in 1..Len(re) /\ re[off[i] + t] = segs[i][t] BY <3>1, <3>2, <3>4
    <3>7. off[i] + (L + 1) = off[i] + L + 1
      <4> DEFINE o == off[i]
      <4> HIDE DEF o
      <4>0. o \in Nat BY <2>0 DEF o
      <4>1. o + (L + 1) = o + L + 1 BY <2>0, <4>0
      <4> QED BY <4>1 DEF o
    <3> QED BY <3>3, <3>5, <3>6, <3>7, <2>2 DEF L
  <2> QED BY <2>1, <2>2
<1>9. ASSUME NEW i \in 1..n, segs[i] = Globstar
      PROVE  /\ off[i + 1] = off[i] + 1 /\ off[i] + 1 \in 1..Len(re)
             /\ re[off[i] + 1].kind = IF i = n THEN "all" ELSE "dirs"
  <2>1. 1 \in 1..Len(items[i]) BY <1>3, <1>9
  <2> QED BY <2>1, <1>3, <1>7, <1>9, ZenonT(40)
<1>10. ItemsLie(segs, n, re, off)
  BY <1>7, <1>8, <1>9 DEF ItemsLie
<1> QED BY <1>10 DEF re, items

\* A segment is read token by token: S at <<t, k>> says that its tokens from the t-th on
\* can be read from the k-th character on, and so can what follows the segment.
InSegment(s, file, fold, m, S) ==
    \A t \in 1..Len(s), k \in 1..(m + 1) :
        /\ s[t] = Star =>
             (S[<<t, k>>] <=> (S[<<t + 1, k>>] \/ (k <= m /\ file[k] # Sep /\ S[<<t, k + 1>>])))
        /\ s[t] # Star =>
             (S[<<t, k>>] <=> (k <= m /\ Accepts(s[t], file[k], fold, FALSE) /\ S[<<t + 1, k + 1>>]))

\* Where a segment has been read, the next one follows a separator, or nothing follows.
Behind(segs, n, file, m, read) ==
    \A i \in 1..n, k \in 1..(m + 1) :
        /\ segs[i] # Globstar /\ i = n => (read[i][<<Len(segs[i]) + 1, k>>] <=> k = m + 1)
        /\ segs[i] # Globstar /\ i # n =>
             (read[i][<<Len(segs[i]) + 1, k>>] <=> (k <= m /\ file[k] = Sep /\ read[i + 1][<<1, k + 1>>]))

\* A globstar is skipped, or ends behind some separator, or takes all that is left.
Skips(segs, n, file, m, read) ==
    \A i \in 1..n, k \in 1..(m + 1) :
        /\ segs[i] = Globstar /\ i = n => read[i][<<1, k>>]
        /\ segs[i] = Globstar /\ i # n =>
             (read[i][<<1, k>>] <=>
                (read[i + 1][<<1, k>>] \/ \E l \in k..m : file[l] = Sep /\ read[i + 1][<<1, l + 1>>]))

Reading(segs, n, file, m, fold, read) ==
    /\ \A i \in 1..n : segs[i] # Globstar => InSegment(segs[i], file, fold, m, read[i])
    /\ Behind(segs, n, file, m, read)
    /\ Skips(segs, n, file, m, read)

LEMMA ItemsRead ==
    ASSUME NEW segs \in Seq(Seq(Symbol)), NEW n \in Nat, n = Len(segs), n > 0, NEW re, NEW off,
           ItemsLie(segs, n, re, off), NEW file, NEW m \in Nat, m = Len(file), NEW fold, NEW go,
           Matcher(re, file, fold, Len(re), m, go)
    PROVE  \E read : /\ Reading(segs, n, file, m, fold, read)
                     /\ read[1][<<1, 1>>] <=> go[<<1, 1>>]
<1> DEFINE r == Len(re)
           read == [i \in 1..n |-> [at \in Nat \X Nat |-> go[<<off[i] + at[1], at[2]>>]]]
<1>1. /\ off \in [1..(n + 1) -> Nat] /\ off[1] = 0 /\ off[n + 1] = r /\ r \in Nat
      /\ \A i \in 1..n : segs[i] # Globstar =>
            /\ \A t \in 1..Len(segs[i]) : off[i] + t \in 1..r /\ re[off[i] + t] = segs[i][t]
            /\ i = n => off[i + 1] = off[i] + Len(segs[i])
            /\ i # n => /\ off[i + 1] = off[i] + Len(segs[i]) + 1
                        /\ off[i] + Len(segs[i]) + 1 \in 1..r
                        /\ re[off[i] + Len(segs[i]) + 1] = Slash
      /\ \A i \in 1..n : segs[i] = Globstar =>
            /\ off[i + 1] = off[i] + 1 /\ off[i] + 1 \in 1..r
            /\ re[off[i] + 1].kind = IF i = n THEN "all" ELSE "dirs"
  BY DEF ItemsLie
<1>2. /\ \A j \in 1..(m + 1) : go[<<r + 1, j>>] <=> j = m + 1
      /\ \A i \in 1..r, j \in 1..(m + 1) :
           /\ re[i].kind = "star" =>
                (go[<<i, j>>] <=> (go[<<i + 1, j>>] \/ (j <= m /\ file[j] # Sep /\ go[<<i, j + 1>>])))
           /\ re[i].kind = "all" => (go[<<i, j>>] <=> \E k \in j..(m + 1) : go[<<i + 1, k>>])
           /\ re[i].kind = "dirs" =>
                (go[<<i, j>>] <=> (go[<<i + 1, j>>] \/ \E k \in j..m : file[k] = Sep /\ go[<<i + 1, k + 1>>]))
           /\ re[i].kind \notin {"star", "all", "dirs"} =>
                (go[<<i, j>>] <=> (j <= m /\ Accepts(re[i], file[j], fold, FALSE) /\ go[<<i + 1, j + 1>>]))
  BY DEF Matcher
<1>3. \A i \in 1..n : \A t, k \in Nat : read[i][<<t, k>>] = go[<<off[i] + t, k>>]
  OBVIOUS
<1> HIDE DEF read, r
<1>4. \A i \in 1..n : segs[i] \in Seq(Symbol) /\ Len(segs[i]) \in Nat /\ off[i] \in Nat /\ off[i + 1] \in Nat
  <2> SUFFICES ASSUME NEW i \in 1..n
               PROVE  segs[i] \in Seq(Symbol) /\ Len(segs[i]) \in Nat /\ off[i] \in Nat /\ off[i + 1] \in Nat
    OBVIOUS
  <2>1. i \in 1..(n + 1) /\ i + 1 \in 1..(n + 1) OBVIOUS
  <2>2. segs[i] \in Seq(Symbol) OBVIOUS
  <2>3. off \in [1..(n + 1) -> Nat] BY DEF ItemsLie
  <2>4. off[i] \in Nat /\ off[i + 1] \in Nat BY <2>1, <2>3
  <2>5. Len(segs[i]) \in Nat BY <2>2
  <2> QED BY <2>2, <2>4, <2>5
<1>5. ASSUME NEW i \in 1..n, segs[i] # Globstar
      PROVE  InSegment(segs[i], file, fold, m, read[i])
  <2> DEFINE s == segs[i]
             o == off[i]
  <2>1. s \in Seq(Symbol) /\ o \in Nat /\ Len(s) \in Nat BY <1>4
  <2>2. \A t \in 1..Len(s) : o + t \in 1..r /\ re[o + t] = s[t] BY <1>1, <1>5
  <2>3. \A t, k \in Nat : read[i][<<t, k>>] = go[<<o + t, k>>] BY <1>3
  <2> HIDE DEF s, o
  <2> SUFFICES ASSUME NEW t \in 1..Len(s), NEW k \in 1..(m + 1)
      PROVE  /\ s[t] = Star =>
                  (read[i][<<t, k>>] <=>
                     (read[i][<<t + 1, k>>] \/ (k <= m /\ file[k] # Sep /\ read[i][<<t, k + 1>>])))
             /\ s[t] # Star =>
                  (read[i][<<t, k>>] <=>
                     (k <= m /\ Accepts(s[t], file[k], fold, FALSE) /\ read[i][<<t + 1, k + 1>>]))
    BY DEF InSegment, s
  <2>4. /\ t \in Nat /\ k \in Nat /\ t + 1 \in Nat /\ k + 1 \in Nat /\ (o + t) + 1 = o + (t + 1)
        /\ o + t \in 1..r /\ re[o + t] = s[t] /\ s[t] \in Symbol
    BY <2>1, <2>2
  <2>5. /\ read[i][<<t, k>>] = go[<<o + t, k>>] /\ read[i][<<t + 1, k>>] = go[<<(o + t) + 1, k>>]
        /\ read[i][<<t, k + 1>>] = go[<<o + t, k + 1>>]
        /\ read[i][<<t + 1, k + 1>>] = go[<<(o + t) + 1, k + 1>>]
    BY <2>3, <2>4
  <2>6. CASE s[t] = Star
    <3>1. re[o + t].kind = "star" BY <2>4, <2>6 DEF Star
    <3>2. go[<<o + t, k>>] <=> (go[<<(o + t) + 1, k>>] \/ (k <= m /\ file[k] # Sep /\ go[<<o + t, k + 1>>]))
      BY <3>1, <2>4, <1>2
    <3> QED BY <3>2, <2>5, <2>6, Zenon
  <2>7. CASE s[t] # Star
    <3>1. re[o + t].kind \notin {"star", "all", "dirs"}
      <4>1. s[t].kind \notin {"star", "all", "dirs"} BY <2>4, <2>7 DEF Symbol, Star
      <4> QED BY <4>1, <2>4
    <3>2. go[<<o + t, k>>] <=> (k <= m /\ Accepts(re[o + t], file[k], fold, FALSE) /\ go[<<(o + t) + 1, k + 1>>])
      BY <3>1, <2>4, <1>2
    <3>3. re[o + t] = s[t] BY <2>4
    <3> QED BY <3>2, <3>3, <2>5, <2>7, Zenon
  <2> QED BY <2>6, <2>7
<1>6. ASSUME NEW i \in 1..n, NEW k \in 1..(m + 1), segs[i] # Globstar, i = n
      PROVE  read[i][<<Len(segs[i]) + 1, k>>] <=> k = m + 1
  <2> DEFINE L == Len(segs[i])
             o == off[i]
  <2>1. L \in Nat /\ o \in Nat /\ off[i + 1] = o + L /\ off[n + 1] = r BY <1>1, <1>4, <1>6
  <2>2. read[i][<<L + 1, k>>] = go[<<o + (L + 1), k>>] BY <1>3, <2>1, SMTT(20)
  <2> HIDE DEF L, o
  <2>3. o + (L + 1) = r + 1 BY <2>1, <1>6
  <2> QED BY <2>2, <2>3, <1>2 DEF L
<1>7. ASSUME NEW i \in 1..n, NEW k \in 1..(m + 1), segs[i] # Globstar, i # n
      PROVE  read[i][<<Len(segs[i]) + 1, k>>] <=> (k <= m /\ file[k] = Sep /\ read[i + 1][<<1, k + 1>>])
  <2> DEFINE L == Len(segs[i])
             o == off[i]
             o1 == off[i + 1]
             p == o + L + 1
  <2>1. /\ L \in Nat /\ o \in Nat /\ o1 = p /\ p \in 1..r /\ re[p] = Slash /\ i + 1 \in 1..n
    BY <1>1, <1>4, <1>7
  <2>0. L + 1 \in Nat /\ k \in Nat /\ k + 1 \in Nat /\ 1 \in Nat BY <2>1
  <2>2. read[i][<<L + 1, k>>] = go[<<o + (L + 1), k>>] BY <1>3, <2>0
  <2>3. read[i + 1][<<1, k + 1>>] = go[<<o1 + 1, k + 1>>]
    <3>1. \A t, l \in Nat : read[i + 1][<<t, l>>] = go[<<off[i + 1] + t, l>>] BY <1>3, <2>1
    <3> QED BY <3>1, <2>0
  <2> HIDE DEF L, o, o1
  <2>4. o + (L + 1) = p BY <2>1
  <2>5. re[p].kind = "slash" /\ (Accepts(re[p], file[k], fold, FALSE) <=> file[k] = Sep)
    BY <2>1 DEF Slash, Accepts
  <2> HIDE DEF p
  <2>6. go[<<p, k>>] <=> (k <= m /\ Accepts(re[p], file[k], fold, FALSE) /\ go[<<p + 1, k + 1>>])
    BY <2>1, <2>5, <1>2
  <2> QED BY <2>1, <2>2, <2>3, <2>4, <2>5, <2>6, Zenon DEF L
<1>8. ASSUME NEW i \in 1..n, NEW k \in 1..(m + 1), segs[i] = Globstar, i = n
      PROVE  read[i][<<1, k>>]
  <2> DEFINE o == off[i]
  <2>1. o \in Nat /\ o + 1 \in 1..r /\ re[o + 1].kind = "all" /\ r = o + 1 BY <1>1, <1>4, <1>8
  <2>2. read[i][<<1, k>>] = go[<<o + 1, k>>] BY <1>3
  <2> HIDE DEF o
  <2>3. m + 1 \in k..(m + 1) /\ m + 1 \in 1..(m + 1) OBVIOUS
  <2>4. go[<<(o + 1) + 1, m + 1>>] BY <2>1, <2>3, <1>2
  <2>5. go[<<o + 1, k>>] <=> \E l \in k..(m + 1) : go[<<(o + 1) + 1, l>>] BY <2>1, <1>2
  <2> QED BY <2>2, <2>3, <2>4, <2>5
<1>9. ASSUME NEW i \in 1..n, NEW k \in 1..(m + 1), segs[i] = Globstar, i # n
      PROVE  read[i][<<1, k>>] <=>
               (read[i + 1][<<1, k>>] \/ \E l \in k..m : file[l] = Sep /\ read[i + 1][<<1, l + 1>>])
  <2> DEFINE o == off[i]
             o1 == off[i + 1]
  <2>1. /\ o \in Nat /\ o + 1 \in 1..r /\ re[o + 1].kind = "dirs" /\ o1 = o + 1 /\ i + 1 \in 1..n
    BY <1>1, <1>4, <1>9, SMTT(20)
  <2>2. \A l \in Nat : read[i][<<1, l>>] = go[<<o + 1, l>>] /\ read[i + 1][<<1, l>>] = go[<<o1 + 1, l>>]
    BY <1>3, <2>1
  <2> HIDE DEF o, o1
  <2>3. go[<<o + 1, k>>] <=>
          (go[<<(o + 1) + 1, k>>] \/ \E l \in k..m : file[l] = Sep /\ go[<<(o + 1) + 1, l + 1>>])
    BY <2>1, <1>2
  <2>4. ASSUME NEW l \in k..m PROVE read[i + 1][<<1, l + 1>>] = go[<<o1 + 1, l + 1>>]
    <3>1. l + 1 \in Nat OBVIOUS
    <3> QED BY <3>1, <2>2
  <2>5. read[i][<<1, k>>] = go[<<o + 1, k>>] /\ read[i + 1][<<1, k>>] = go[<<o1 + 1, k>>] BY <2>2
  <2> QED BY <2>1, <2>3, <2>4, <2>5
<1>10. Reading(segs, n, file, m, fold, read)
  <2>1. \A i \in 1..n, k \in 1..(m + 1) :
          segs[i] # Globstar /\ i = n => (read[i][<<Len(segs[i]) + 1, k>>] <=> k = m + 1)
    BY <1>6, Zenon
  <2>2. \A i \in 1..n, k \in 1..(m + 1) : segs[i] # Globstar /\ i # n =>
          (read[i][<<Len(segs[i]) + 1, k>>] <=> (k <= m /\ file[k] = Sep /\ read[i + 1][<<1, k + 1>>]))
    BY <1>7, Zenon
  <2>3. \A i \in 1..n, k \in 1..(m + 1) : segs[i] = Globstar /\ i = n => read[i][<<1, k>>]
    BY <1>8, Zenon
  <2>4. \A i \in 1..n, k \in 1..(m + 1) : segs[i] = Globstar /\ i # n =>
          (read[i][<<1, k>>] <=>
             (read[i + 1][<<1, k>>] \/ \E l \in k..m : file[l] = Sep /\ read[i + 1][<<1, l + 1>>]))
    BY <1>9, Zenon
  <2>5. \A i \in 1..n : segs[i] # Globstar => InSegment(segs[i], file, fold, m, read[i])
    BY <1>5, Zenon
  <2>6. Behind(segs, n, file, m, read) BY <2>1, <2>2, Zenon DEF Behind
  <2>7. Skips(segs, n, file, m, read) BY <2>3, <2>4, Zenon DEF Skips
  <2> QED BY <2>5, <2>6, <2>7, Zenon DEF Reading
<1>11. read[1][<<1, 1>>] = go[<<1, 1>>]
  <2>1. 1 \in 1..n /\ off[1] = 0 BY <1>1
  <2>2. read[1][<<1, 1>>] = go[<<off[1] + 1, 1>>] BY <1>3, <2>1
  <2> QED BY <2>1, <2>2
<1> QED BY <1>10, <1>11

Reads(x, file, fold, read) ==
    /\ Reading(Segments(x), Len(Segments(x)), file, Len(file), fold, read)
    /\ RegexpMatches(Regexp(x), file, fold, FALSE) <=> read[1][<<1, 1>>]

LEMMA PatternReads ==
    ASSUME NEW x \in Seq(Symbol), NEW file \in Seq(Point), NEW fold
    PROVE  \E read : Reads(x, file, fold, read)
<1> DEFINE segs == Segments(x)
           n == Len(segs)
           m == Len(file)
           re == FlattenSeq(Items(segs))
<1>1. segs \in Seq(Seq(Symbol)) /\ segs # <<>>
  BY SegmentsTyped
<1> HIDE DEF segs
<1>2. n \in Nat /\ n > 0 /\ m \in Nat
  BY <1>1, EmptySeq
<1> HIDE DEF n, m
<1>3. PICK off : ItemsLie(segs, n, re, off)
  BY <1>1, <1>2, ItemPlaces DEF n
<1>4. Len(re) \in Nat
  BY <1>3 DEF ItemsLie
<1> HIDE DEF re
<1> DEFINE go == RestGo(re, file, fold, FALSE)
<1>5. /\ Matcher(re, file, fold, Len(re), m, go)
      /\ RegexpMatches(re, file, fold, FALSE) <=> go[<<1, 1>>]
  BY <1>2, <1>4, MatcherTable DEF m
<1> HIDE DEF go
<1>6. PICK read : /\ Reading(segs, n, file, m, fold, read)
                  /\ read[1][<<1, 1>>] <=> go[<<1, 1>>]
  BY <1>1, <1>2, <1>3, <1>5, ItemsRead DEF n, m
<1>7. Regexp(x) = re
  BY RegexpItems DEF re, segs
<1> QED BY <1>5, <1>6, <1>7, Zenon DEF Reads, segs, n, m

\* Within a segment no token accepts the separator, and what accepts is a token.
LEMMA AcceptsInSegment ==
    ASSUME NEW t \in Symbol, t # Slash, NEW c \in Point, NEW fold, Accepts(t, c, fold, FALSE)
    PROVE  t \in Token /\ c # Sep /\ Accepts(t, c, fold, TRUE)
<1>1. t.kind # "slash"
  BY DEF Symbol, Slash
<1>2. t.kind \in {"any", "lit", "class"}
  BY <1>1 DEF Accepts
<1>3. t \in Token
  BY <1>2 DEF Token
<1>4. Fold[Sep] = Sep /\ \A d \in Point : Fold[d] = Sep => d = Sep
  <2>1. Sep \in 0..MaxASCII /\ ~(Sep \in UpperA..UpperZ)
    BY LayoutAssumption, LayoutFacts DEF Point
  <2> QED BY <2>1, LayoutAssumption
<1>5. CASE t.kind = "any"
  BY <1>3, <1>5 DEF Accepts
<1>6. CASE t.kind = "lit"
  <2>1. SameChar(t.ch, c, fold) BY <1>6 DEF Accepts
  <2>2. t.ch \in Point /\ t.ch # Sep BY <1>6 DEF Symbol
  <2>3. c # Sep BY <2>1, <2>2, <1>4 DEF SameChar
  <2> QED BY <2>1, <2>3, <1>3, <1>6 DEF Accepts
<1>7. CASE t.kind = "class"
  BY <1>3, <1>7 DEF Accepts
<1> QED BY <1>2, <1>5, <1>6, <1>7

\* Where the component of the file ends in which its k-th character lies.
EndAt(file, m, k, e) ==
    /\ e \in k..(m + 1) /\ (e = m + 1 \/ file[e] = Sep)
    /\ \A l \in k..(e - 1) : file[l] # Sep

SlashFree(s) == s \in Seq(Symbol) /\ \A t \in 1..Len(s) : s[t] # Slash

\* What is read behind a segment begins where a component ends.
Closed(s, file, m, S) ==
    \A k \in 1..(m + 1) : S[<<Len(s) + 1, k>>] => (k = m + 1 \/ file[k] = Sep)

LEMMA SegmentEnds ==
    ASSUME NEW s, SlashFree(s), NEW file \in Seq(Point), NEW m \in Nat, m = Len(file), NEW fold, NEW S,
           InSegment(s, file, fold, m, S), Closed(s, file, m, S), NEW k0 \in 1..(m + 1), S[<<1, k0>>]
    PROVE  \E e : EndAt(file, m, k0, e) /\ S[<<Len(s) + 1, e>>]
<1> DEFINE n == Len(s)
           Good(at) == S[at] => \E e : EndAt(file, m, at[2], e) /\ S[<<n + 1, e>>]
           T == {at \in Grid(n, m) : Good(at)}
<1>0. n \in Nat /\ \A t \in 1..n : s[t] \in Symbol /\ s[t] # Slash
  BY DEF SlashFree
<1>1. \A t \in 1..n, k \in 1..(m + 1) :
        /\ s[t] = Star =>
             (S[<<t, k>>] <=> (S[<<t + 1, k>>] \/ (k <= m /\ file[k] # Sep /\ S[<<t, k + 1>>])))
        /\ s[t] # Star =>
             (S[<<t, k>>] <=> (k <= m /\ Accepts(s[t], file[k], fold, FALSE) /\ S[<<t + 1, k + 1>>]))
  BY DEF InSegment
<1>2. \A k \in 1..(m + 1) : S[<<n + 1, k>>] => (k = m + 1 \/ file[k] = Sep)
  BY DEF Closed
<1> HIDE DEF n
<1>3. ASSUME NEW k \in 1..m, file[k] # Sep, NEW e, EndAt(file, m, k + 1, e)
      PROVE  EndAt(file, m, k, e)
  BY <1>3 DEF EndAt
<1>4. ASSUME NEW at \in Grid(n, m), Beyond(n, m, at) \subseteq T PROVE at \in T
  <2> DEFINE t == at[1]
             k == at[2]
  <2>1. /\ t \in Nat /\ k \in Nat /\ at = <<t, k>> /\ t \in 1..(n + 1) /\ k \in 1..(m + 1)
        /\ ~(t > n) => t \in 1..n /\ <<t + 1, k>> \in T
        /\ ~(k > m) => k \in 1..m /\ <<t, k + 1>> \in T
        /\ ~(t > n) /\ ~(k > m) => <<t + 1, k + 1>> \in T
    <3>1. t \in 1..(n + 1) /\ k \in 1..(m + 1) BY DEF Grid
    <3> QED BY <3>1, <1>0, <1>4, GridNext
  <2> HIDE DEF t, k
  <2>2. \A i, j : <<i, j>> \in T => (S[<<i, j>>] => \E e : EndAt(file, m, j, e) /\ S[<<n + 1, e>>])
    OBVIOUS
  <2> SUFFICES ASSUME S[<<t, k>>] PROVE \E e : EndAt(file, m, k, e) /\ S[<<n + 1, e>>]
    BY <2>1 DEF k
  <2>3. CASE t > n
    <3>1. t = n + 1 BY <2>1, <2>3, <1>0
    <3>2. k = m + 1 \/ file[k] = Sep BY <3>1, <2>1, <1>2
    <3>3. EndAt(file, m, k, k) BY <3>2, <2>1 DEF EndAt
    <3> QED BY <3>1, <3>3
  <2>4. CASE ~(t > n) /\ s[t] = Star
    <3>0. S[<<t, k>>] <=> (S[<<t + 1, k>>] \/ (k <= m /\ file[k] # Sep /\ S[<<t, k + 1>>]))
      BY <2>1, <2>4, <1>1
    <3>1. CASE S[<<t + 1, k>>] BY <3>1, <2>1, <2>2, <2>4
    <3>2. CASE k <= m /\ file[k] # Sep /\ S[<<t, k + 1>>]
      <4>1. k \in 1..m /\ <<t, k + 1>> \in T BY <3>2, <2>1
      <4>2. PICK e : EndAt(file, m, k + 1, e) /\ S[<<n + 1, e>>] BY <4>1, <3>2, <2>2
      <4>3. EndAt(file, m, k, e) BY <4>1, <4>2, <3>2, <1>3
      <4> QED BY <4>2, <4>3
    <3> QED BY <3>0, <3>1, <3>2
  <2>5. CASE ~(t > n) /\ s[t] # Star
    <3>0. k <= m /\ Accepts(s[t], file[k], fold, FALSE) /\ S[<<t + 1, k + 1>>]
      BY <2>1, <2>5, <1>1
    <3>1. k \in 1..m /\ t \in 1..n /\ <<t + 1, k + 1>> \in T BY <3>0, <2>1, <2>5
    <3>2. file[k] \in Point /\ s[t] \in Symbol /\ s[t] # Slash BY <3>1, <1>0
    <3>3. file[k] # Sep BY <3>0, <3>2, AcceptsInSegment
    <3>4. PICK e : EndAt(file, m, k + 1, e) /\ S[<<n + 1, e>>] BY <3>0, <3>1, <2>2
    <3>5. EndAt(file, m, k, e) BY <3>1, <3>3, <3>4, <1>3
    <3> QED BY <3>4, <3>5
  <2> QED BY <2>3, <2>4, <2>5
<1>5. T = Grid(n, m)
  <2> HIDE DEF Good
  <2>1. T \in SUBSET Grid(n, m) OBVIOUS
  <2> HIDE DEF T
  <2> QED BY <2>1, <1>0, <1>4, GridInduction
<1>6. <<1, k0>> \in T
  BY <1>5, <1>0 DEF Grid
<1> QED BY <1>6 DEF n

LEMMA Downward ==
    ASSUME NEW n \in Nat, NEW T \in SUBSET (1..n),
           \A k \in 1..n : (\A l \in 1..n : k < l => l \in T) => k \in T
    PROVE  T = 1..n
<1> SUFFICES ASSUME NEW k0 \in 1..n, k0 \notin T PROVE FALSE
  OBVIOUS
<1> DEFINE U == {k \in 1..n : k \notin T}
<1>1. U \in SUBSET (0..n) /\ U # {}
  OBVIOUS
<1>2. PICK k \in U : \A l \in U : l <= k
  <2> HIDE DEF U
  <2> QED BY <1>1, GreatestNumber
<1>3. k \in 1..n /\ k \notin T
  OBVIOUS
<1>4. ASSUME NEW l \in 1..n, k < l PROVE l \in T
  <2>1. l \in U => l <= k BY <1>2
  <2> QED BY <2>1, <1>3, <1>4
<1> QED BY <1>3, <1>4

LEMMA OnlyFromNext ==
    ASSUME NEW s, NEW n \in Nat, n = Len(s), NEW x
    PROVE  /\ OnlyFrom(s, n + 1, x)
           /\ \A i \in 1..n : s[i] = x /\ OnlyFrom(s, i + 1, x) => OnlyFrom(s, i, x)
<1>1. OnlyFrom(s, n + 1, x)
  BY DEF OnlyFrom
<1>2. ASSUME NEW i \in 1..n, s[i] = x, OnlyFrom(s, i + 1, x) PROVE OnlyFrom(s, i, x)
  <2>1. \A k \in (i + 1)..n : s[k] = x BY <1>2 DEF OnlyFrom
  <2>2. ASSUME NEW k \in i..n PROVE s[k] = x
    <3>1. k = i \/ k \in (i + 1)..n OBVIOUS
    <3> QED BY <3>1, <2>1, <1>2
  <2> QED BY <2>2 DEF OnlyFrom
<1> QED BY <1>1, <1>2

\* What InSegment says of one place.
PlaceRead(s, file, m, fold, S, t, k) ==
    S[<<t, k>>] =>
       \/ /\ s[t] = Star
          /\ S[<<t + 1, k>>] \/ (k \in 1..m /\ file[k] # Sep /\ S[<<t, k + 1>>])
       \/ /\ s[t] # Star /\ k \in 1..m /\ S[<<t + 1, k + 1>>] /\ file[k] # Sep /\ file[k] \in Point
          /\ s[t] \in Token /\ Accepts(s[t], file[k], fold, TRUE)

LEMMA InSegmentPlace ==
    ASSUME NEW s, NEW file \in Seq(Point), NEW m \in Nat, m = Len(file), NEW fold, NEW S, SlashFree(s),
           InSegment(s, file, fold, m, S), NEW t \in 1..Len(s), NEW k \in 1..(m + 1)
    PROVE  PlaceRead(s, file, m, fold, S, t, k)
<1> SUFFICES ASSUME S[<<t, k>>]
             PROVE  \/ /\ s[t] = Star
                       /\ S[<<t + 1, k>>] \/ (k \in 1..m /\ file[k] # Sep /\ S[<<t, k + 1>>])
                    \/ /\ s[t] # Star /\ k \in 1..m /\ S[<<t + 1, k + 1>>] /\ file[k] # Sep /\ file[k] \in Point
                       /\ s[t] \in Token /\ Accepts(s[t], file[k], fold, TRUE)
  BY DEF PlaceRead
<1>1. /\ s[t] = Star =>
           (S[<<t, k>>] <=> (S[<<t + 1, k>>] \/ (k <= m /\ file[k] # Sep /\ S[<<t, k + 1>>])))
      /\ s[t] # Star =>
           (S[<<t, k>>] <=> (k <= m /\ Accepts(s[t], file[k], fold, FALSE) /\ S[<<t + 1, k + 1>>]))
  BY DEF InSegment
<1>2. k <= m => k \in 1..m /\ file[k] \in Point
  OBVIOUS
<1>3. s[t] \in Symbol /\ s[t] # Slash
  BY DEF SlashFree
<1>4. CASE s[t] = Star
  BY <1>1, <1>2, <1>4
<1>5. CASE s[t] # Star
  <2>1. k \in 1..m /\ file[k] \in Point /\ Accepts(s[t], file[k], fold, FALSE) /\ S[<<t + 1, k + 1>>]
    BY <1>1, <1>2, <1>5
  <2>2. s[t] \in Token /\ file[k] # Sep /\ Accepts(s[t], file[k], fold, TRUE)
    BY <2>1, <1>3, AcceptsInSegment
  <2> QED BY <2>1, <2>2, <1>5
<1> QED BY <1>4, <1>5

\* Two segments that can both be read from the same place on are found to intersect.
LEMMA SegmentsMeet ==
    ASSUME NEW a, NEW b, SlashFree(a), SlashFree(b), NEW file \in Seq(Point), NEW m \in Nat, m = Len(file),
           NEW fold \in BOOLEAN, NEW A, NEW B,
           InSegment(a, file, fold, m, A), Closed(a, file, m, A),
           InSegment(b, file, fold, m, B), Closed(b, file, m, B),
           NEW k0 \in 1..(m + 1), A[<<1, k0>>], B[<<1, k0>>]
    PROVE  SegGo(a, b, fold)[<<1, 1>>]
<1> DEFINE n == Len(a)
           r == Len(b)
           g == SegGo(a, b, fold)
           Good(at) == \A k \in 1..(m + 1) : A[<<at[1], k>>] /\ B[<<at[2], k>>] => g[at]
           T == {at \in Grid(n, r) : Good(at)}
<1>0. n \in Nat /\ r \in Nat
  BY DEF SlashFree
<1>1. g \in [Grid(n, r) -> BOOLEAN] /\ SegTable(a, b, fold, g)
  BY <1>0, SegGoTable
<1> HIDE DEF g
<1>2. \A at \in Grid(n, r) : g[at] = SegTurn(a, b, fold, g, at)
  BY <1>1 DEF SegTable, Grid
<1>3. /\ \A k \in 1..(m + 1) : A[<<n + 1, k>>] => (k = m + 1 \/ file[k] = Sep)
      /\ \A k \in 1..(m + 1) : B[<<r + 1, k>>] => (k = m + 1 \/ file[k] = Sep)
  BY DEF Closed
<1>4. /\ OnlyFrom(a, n + 1, Star) /\ OnlyFrom(b, r + 1, Star)
      /\ \A i \in 1..n : a[i] = Star /\ OnlyFrom(a, i + 1, Star) => OnlyFrom(a, i, Star)
      /\ \A j \in 1..r : b[j] = Star /\ OnlyFrom(b, j + 1, Star) => OnlyFrom(b, j, Star)
  BY <1>0, OnlyFromNext
<1>5. \A t \in 1..n, k \in 1..(m + 1) : A[<<t, k>>] =>
           \/ /\ a[t] = Star
              /\ A[<<t + 1, k>>] \/ (k \in 1..m /\ file[k] # Sep /\ A[<<t, k + 1>>])
           \/ /\ a[t] # Star /\ k \in 1..m /\ A[<<t + 1, k + 1>>] /\ file[k] # Sep /\ file[k] \in Point
              /\ a[t] \in Token /\ Accepts(a[t], file[k], fold, TRUE)
  <2>1. ASSUME NEW t \in 1..Len(a), NEW k \in 1..(m + 1) PROVE PlaceRead(a, file, m, fold, A, t, k)
    BY InSegmentPlace
  <2> QED BY <2>1, Zenon DEF PlaceRead, n
<1>6. \A t \in 1..r, k \in 1..(m + 1) : B[<<t, k>>] =>
           \/ /\ b[t] = Star
              /\ B[<<t + 1, k>>] \/ (k \in 1..m /\ file[k] # Sep /\ B[<<t, k + 1>>])
           \/ /\ b[t] # Star /\ k \in 1..m /\ B[<<t + 1, k + 1>>] /\ file[k] # Sep /\ file[k] \in Point
              /\ b[t] \in Token /\ Accepts(b[t], file[k], fold, TRUE)
  <2>1. ASSUME NEW t \in 1..Len(b), NEW k \in 1..(m + 1) PROVE PlaceRead(b, file, m, fold, B, t, k)
    BY InSegmentPlace
  <2> QED BY <2>1, Zenon DEF PlaceRead, r
<1>7. \A k \in 1..m : k \in 1..(m + 1) /\ k + 1 \in 1..(m + 1) /\ k # m + 1
  OBVIOUS
<1> HIDE DEF n, r
<1>8. ASSUME NEW at \in Grid(n, r), Beyond(n, r, at) \subseteq T PROVE at \in T
  <2> DEFINE i == at[1]
             j == at[2]
  <2>1. /\ i \in Nat /\ j \in Nat /\ at = <<i, j>> /\ i \in 1..(n + 1) /\ j \in 1..(r + 1)
        /\ ~(i > n) => i \in 1..n /\ <<i + 1, j>> \in T
        /\ ~(j > r) => j \in 1..r /\ <<i, j + 1>> \in T
        /\ ~(i > n) /\ ~(j > r) => <<i + 1, j + 1>> \in T
    <3>1. i \in 1..(n + 1) /\ j \in 1..(r + 1) BY DEF Grid
    <3> QED BY <3>1, <1>0, <1>8, GridNext
  <2> HIDE DEF i, j
  <2>2. \A p, q : <<p, q>> \in T => \A k \in 1..(m + 1) : A[<<p, k>>] /\ B[<<q, k>>] => g[<<p, q>>]
    OBVIOUS
  <2>3. g[<<i, j>>] = SegTurn(a, b, fold, g, <<i, j>>) /\ at[1] = i /\ at[2] = j
    BY <1>2, <2>1
  <2> SUFFICES ASSUME NEW k \in 1..(m + 1), A[<<i, k>>], B[<<j, k>>] PROVE g[<<i, j>>]
    BY <2>1, <2>3
  <2>4. CASE i > n \/ j > r
    <3>0. g[<<i, j>>] = (OnlyFrom(a, i, Star) /\ OnlyFrom(b, j, Star))
      BY <2>3, <2>4 DEF SegTurn, n, r
    <3>1. CASE i > n /\ j > r
      <4>1. i = n + 1 /\ j = r + 1 BY <3>1, <2>1, <1>0
      <4> QED BY <4>1, <3>0, <1>4
    <3>2. CASE i > n /\ ~(j > r)
      <4>1. i = n + 1 /\ j \in 1..r /\ <<i, j + 1>> \in T BY <3>2, <2>1, <1>0
      <4>2. k = m + 1 \/ file[k] = Sep BY <4>1, <1>3
      <4>3. b[j] = Star /\ B[<<j + 1, k>>] BY <4>1, <4>2, <1>6, <1>7
      <4>4. g[<<i, j + 1>>] BY <4>1, <4>3, <2>2
      <4>5. <<i, j + 1>> \in Grid(n, r) BY <4>1
      <4>6. g[<<i, j + 1>>] = (OnlyFrom(a, i, Star) /\ OnlyFrom(b, j + 1, Star))
        BY <4>5, <3>2, <1>2 DEF SegTurn, n, r
      <4> QED BY <3>0, <4>1, <4>3, <4>4, <4>6, <1>4
    <3>3. CASE ~(i > n) /\ j > r
      <4>0. j = r + 1 BY <3>3, <2>1, <1>0
      <4>1. j = r + 1 /\ i \in 1..n /\ <<i + 1, j>> \in T BY <4>0, <3>3, <2>1, Zenon
      <4>2. k = m + 1 \/ file[k] = Sep BY <4>1, <1>3
      <4>3. a[i] = Star /\ A[<<i + 1, k>>] BY <4>1, <4>2, <1>5, <1>7
      <4>4. g[<<i + 1, j>>] BY <4>1, <4>3, <2>2
      <4>5. <<i + 1, j>> \in Grid(n, r) BY <4>1
      <4>6. g[<<i + 1, j>>] = (OnlyFrom(a, i + 1, Star) /\ OnlyFrom(b, j, Star))
        BY <4>5, <3>3, <1>2 DEF SegTurn, n, r
      <4> QED BY <3>0, <4>1, <4>3, <4>4, <4>6, <1>4
    <3> QED BY <3>1, <3>2, <3>3, <2>4
  <2>5. CASE ~(i > n \/ j > r) /\ (a[i] = Star \/ b[j] = Star)
    <3>0. g[<<i, j>>] = (g[<<i + 1, j>>] \/ g[<<i, j + 1>>])
      BY <2>3, <2>5 DEF SegTurn, n, r
    <3>1. /\ i \in 1..n /\ j \in 1..r
          /\ <<i + 1, j>> \in T /\ <<i, j + 1>> \in T /\ <<i + 1, j + 1>> \in T
      BY <2>5, <2>1
    <3>2. ASSUME NEW l \in 1..(m + 1), A[<<i + 1, l>>], B[<<j, l>>] PROVE g[<<i, j>>]
      BY <3>0, <3>1, <3>2, <2>2
    <3>3. ASSUME NEW l \in 1..(m + 1), A[<<i, l>>], B[<<j + 1, l>>] PROVE g[<<i, j>>]
      BY <3>0, <3>1, <3>3, <2>2
    <3> DEFINE U == {l \in 1..(m + 1) : A[<<i, l>>] /\ B[<<j, l>>] => g[<<i, j>>]}
    <3>4. ASSUME NEW l \in 1..(m + 1), \A p \in 1..(m + 1) : l < p => p \in U,
                 A[<<i, l>>], B[<<j, l>>]
          PROVE  g[<<i, j>>]
      <4>1. CASE a[i] = Star /\ b[j] = Star
        <5>1. A[<<i + 1, l>>] \/ (l \in 1..m /\ A[<<i, l + 1>>]) BY <3>1, <3>4, <4>1, <1>5
        <5>2. B[<<j + 1, l>>] \/ (l \in 1..m /\ B[<<j, l + 1>>]) BY <3>1, <3>4, <4>1, <1>6
        <5>3. ASSUME l \in 1..m PROVE l + 1 \in U
          <6>1. l + 1 \in 1..(m + 1) /\ l < l + 1 BY <5>3
          <6> HIDE DEF U
          <6> QED BY <6>1, <3>4
        <5> QED BY <5>1, <5>2, <5>3, <3>2, <3>3, <3>4
      <4>2. CASE a[i] = Star /\ b[j] # Star
        <5>1. l \in 1..m /\ B[<<j + 1, l + 1>>] BY <3>1, <3>4, <4>2, <1>6
        <5>2. A[<<i + 1, l>>] \/ A[<<i, l + 1>>] BY <3>1, <3>4, <4>2, <1>5
        <5>3. l + 1 \in 1..(m + 1) BY <5>1
        <5> QED BY <5>1, <5>2, <5>3, <3>2, <3>3, <3>4
      <4>3. CASE a[i] # Star /\ b[j] = Star
        <5>1. l \in 1..m /\ A[<<i + 1, l + 1>>] BY <3>1, <3>4, <4>3, <1>5
        <5>2. B[<<j + 1, l>>] \/ B[<<j, l + 1>>] BY <3>1, <3>4, <4>3, <1>6
        <5>3. l + 1 \in 1..(m + 1) BY <5>1
        <5> QED BY <5>1, <5>2, <5>3, <3>2, <3>3, <3>4
      <4> QED BY <2>5, <4>1, <4>2, <4>3
    <3>5. U = 1..(m + 1)
      <4>1. U \in SUBSET (1..(m + 1)) /\ m + 1 \in Nat OBVIOUS
      <4>2. \A l \in 1..(m + 1) : (\A p \in 1..(m + 1) : l < p => p \in U) => l \in U BY <3>4
      <4> HIDE DEF U
      <4> QED BY <4>1, <4>2, Downward
    <3> QED BY <3>5
  <2>6. CASE ~(i > n \/ j > r) /\ ~(a[i] = Star \/ b[j] = Star)
    <3>0. g[<<i, j>>] = (CharsIntersect(a[i], b[j], fold) /\ g[<<i + 1, j + 1>>])
      BY <2>3, <2>6 DEF SegTurn, n, r
    <3>1. i \in 1..n /\ j \in 1..r /\ <<i + 1, j + 1>> \in T
      BY <2>6, <2>1
    <3>2. /\ k \in 1..m /\ A[<<i + 1, k + 1>>] /\ file[k] \in Point
          /\ a[i] \in Token /\ Accepts(a[i], file[k], fold, TRUE)
      BY <3>1, <2>6, <1>5
    <3>3. B[<<j + 1, k + 1>>] /\ b[j] \in Token /\ Accepts(b[j], file[k], fold, TRUE)
      BY <3>1, <2>6, <1>6
    <3>4. Common(a[i], b[j], fold) BY <3>2, <3>3 DEF Common
    <3>5. CharsIntersect(a[i], b[j], fold) BY <3>2, <3>3, <3>4, CharsDecided
    <3>6. g[<<i + 1, j + 1>>] BY <3>1, <3>2, <3>3, <2>2, <1>7
    <3> QED BY <3>0, <3>5, <3>6
  <2> QED BY <2>4, <2>5, <2>6
<1>9. T = Grid(n, r)
  <2> HIDE DEF Good
  <2>1. T \in SUBSET Grid(n, r) OBVIOUS
  <2> HIDE DEF T
  <2> QED BY <2>1, <1>0, <1>8, GridInduction
<1>10. <<1, 1>> \in T
  BY <1>9, <1>0 DEF Grid
<1> QED BY <1>10 DEF g

\* A walk over a file: M at <<i, k>> says that the segments from the i-th on can be read
\* from the k-th character on.
Walk(a, n, file, m, M) ==
    \A i \in 1..n, k \in 1..(m + 1) :
        /\ a[i] # Globstar /\ M[<<i, k>>] =>
             \E e : /\ EndAt(file, m, k, e)
                    /\ \/ i = n /\ e = m + 1
                       \/ i \in 1..(n - 1) /\ e \in 1..m /\ M[<<i + 1, e + 1>>]
        /\ a[i] = Globstar /\ i # n =>
             (M[<<i, k>>] <=> (M[<<i + 1, k>>] \/ \E l \in k..m : file[l] = Sep /\ M[<<i + 1, l + 1>>]))

\* Where two segments are read from the same place on, they intersect.
Meeting(a, n, M, b, r, N, m, fold) ==
    \A i \in 1..n, j \in 1..r, k \in 1..(m + 1) :
        a[i] # Globstar /\ b[j] # Globstar /\ M[<<i, k>>] /\ N[<<j, k>>] => SegmentsIntersect(a[i], b[j], fold)

\* A globstar in a walk either ends here or reads what the other walk's segment reads.
Jumps(b, r, M, N, m, i, j, k) ==
    M[<<i + 1, k>>] \/ (j \in 1..(r - 1) /\ \E p \in 1..(m + 1) : M[<<i, p>>] /\ N[<<j + 1, p>>])

LEMMA JumpOver ==
    ASSUME NEW a, NEW b, NEW n \in Nat, NEW r \in Nat, NEW file, NEW m \in Nat, NEW M, NEW N,
           Walk(a, n, file, m, M), Walk(b, r, file, m, N),
           NEW i \in 1..(n - 1), NEW j \in 1..r, NEW k \in 1..(m + 1),
           a[i] = Globstar, b[j] # Globstar, M[<<i, k>>], N[<<j, k>>]
    PROVE  Jumps(b, r, M, N, m, i, j, k)
<1>0. i \in 1..n /\ i # n
  OBVIOUS
<1>1. \A p \in 1..(m + 1) :
         M[<<i, p>>] <=> (M[<<i + 1, p>>] \/ \E l \in p..m : file[l] = Sep /\ M[<<i + 1, l + 1>>])
  BY <1>0 DEF Walk
<1>2. PICK e : /\ EndAt(file, m, k, e)
               /\ \/ j = r /\ e = m + 1
                  \/ j \in 1..(r - 1) /\ e \in 1..m /\ N[<<j + 1, e + 1>>]
  BY DEF Walk
<1>3. CASE M[<<i + 1, k>>]
  BY <1>3 DEF Jumps
<1>4. CASE ~M[<<i + 1, k>>]
  <2>1. PICK l \in k..m : file[l] = Sep /\ M[<<i + 1, l + 1>>] BY <1>1, <1>4
  <2>2. e \in k..(m + 1) /\ ~(l \in k..(e - 1)) BY <1>2, <2>1 DEF EndAt
  <2>3. e <= l /\ e \in 1..m /\ e + 1 \in 1..(m + 1) BY <2>1, <2>2
  <2>4. j \in 1..(r - 1) /\ N[<<j + 1, e + 1>>] BY <1>2, <2>3
  <2>5. M[<<i, e + 1>>]
    <3>1. CASE l = e BY <3>1, <2>1, <2>3, <1>1
    <3>2. CASE l # e
      <4>1. l \in (e + 1)..m BY <3>2, <2>1, <2>3
      <4> QED BY <4>1, <2>1, <2>3, <1>1
    <3> QED BY <3>1, <3>2
  <2> QED BY <2>3, <2>4, <2>5 DEF Jumps
<1> QED BY <1>3, <1>4

LEMMA EndUnique ==
    ASSUME NEW file, NEW m \in Nat, NEW k \in 1..(m + 1), NEW d, NEW e, EndAt(file, m, k, d), EndAt(file, m, k, e)
    PROVE  d = e
<1>1. /\ d \in k..(m + 1) /\ (d = m + 1 \/ file[d] = Sep) /\ \A l \in k..(d - 1) : file[l] # Sep
      /\ e \in k..(m + 1) /\ (e = m + 1 \/ file[e] = Sep) /\ \A l \in k..(e - 1) : file[l] # Sep
  BY DEF EndAt
<1>2. CASE d < e
  <2>1. d \in k..(e - 1) /\ d # m + 1 BY <1>1, <1>2
  <2> QED BY <2>1, <1>1
<1>3. CASE e < d
  <2>1. e \in k..(d - 1) /\ e # m + 1 BY <1>1, <1>3
  <2> QED BY <2>1, <1>1
<1> QED BY <1>1, <1>2, <1>3

\* The places of the table of GlobsIntersect.
GlobPlaces(a, b, n, r, fold, g) ==
    /\ g[<<n + 1, r + 1>>]
    /\ n > 0 /\ a[n] = Globstar => g[<<n, r + 1>>]
    /\ r > 0 /\ b[r] = Globstar => g[<<n + 1, r>>]
    /\ \A i \in 1..n, j \in 1..r :
          /\ a[i] = Globstar \/ b[j] = Globstar => (g[<<i + 1, j>>] \/ g[<<i, j + 1>>] => g[<<i, j>>])
          /\ a[i] # Globstar /\ b[j] # Globstar =>
               (SegmentsIntersect(a[i], b[j], fold) /\ g[<<i + 1, j + 1>>] => g[<<i, j>>])

LEMMA GlobGoPlaces ==
    ASSUME NEW a, NEW b, NEW fold, NEW n \in Nat, NEW r \in Nat, n = Len(a), r = Len(b)
    PROVE  GlobPlaces(a, b, n, r, fold, GlobGo(a, b, fold))
<1> DEFINE g == GlobGo(a, b, fold)
<1>1. g \in [Grid(n, r) -> BOOLEAN] /\ GlobTable(a, b, fold, g)
  BY GlobGoTable
<1> HIDE DEF g
<1>2. \A at \in Grid(n, r) : g[at] = GlobTurn(a, b, fold, g, at)
  BY <1>1 DEF GlobTable, Grid
<1>3. /\ OnlyFrom(a, n + 1, Globstar) /\ OnlyFrom(b, r + 1, Globstar)
      /\ \A i \in 1..n : a[i] = Globstar /\ OnlyFrom(a, i + 1, Globstar) => OnlyFrom(a, i, Globstar)
      /\ \A j \in 1..r : b[j] = Globstar /\ OnlyFrom(b, j + 1, Globstar) => OnlyFrom(b, j, Globstar)
  BY OnlyFromNext
<1>4. ASSUME NEW i \in 1..(n + 1), NEW j \in 1..(r + 1), i = n + 1 \/ j = r + 1
      PROVE  g[<<i, j>>] = (OnlyFrom(a, i, Globstar) /\ OnlyFrom(b, j, Globstar))
  <2>1. <<i, j>> \in Grid(n, r) /\ (i > n \/ j > r) BY <1>4 DEF Grid
  <2>2. g[<<i, j>>] = GlobTurn(a, b, fold, g, <<i, j>>) BY <2>1, <1>2
  <2> QED BY <2>1, <2>2 DEF GlobTurn
<1>5. n + 1 \in 1..(n + 1) /\ r + 1 \in 1..(r + 1)
  OBVIOUS
<1>6. g[<<n + 1, r + 1>>]
  BY <1>3, <1>4, <1>5
<1>7. ASSUME n > 0, a[n] = Globstar PROVE g[<<n, r + 1>>]
  <2>1. n \in 1..n /\ n \in 1..(n + 1) BY <1>7
  <2>2. OnlyFrom(a, n, Globstar) BY <2>1, <1>3, <1>7
  <2> QED BY <2>1, <2>2, <1>3, <1>4, <1>5
<1>8. ASSUME r > 0, b[r] = Globstar PROVE g[<<n + 1, r>>]
  <2>1. r \in 1..r /\ r \in 1..(r + 1) BY <1>8
  <2>2. OnlyFrom(b, r, Globstar) BY <2>1, <1>3, <1>8
  <2> QED BY <2>1, <2>2, <1>3, <1>4, <1>5
<1>9. ASSUME NEW i \in 1..n, NEW j \in 1..r
      PROVE  /\ a[i] = Globstar \/ b[j] = Globstar => (g[<<i + 1, j>>] \/ g[<<i, j + 1>>] => g[<<i, j>>])
             /\ a[i] # Globstar /\ b[j] # Globstar =>
                  (SegmentsIntersect(a[i], b[j], fold) /\ g[<<i + 1, j + 1>>] => g[<<i, j>>])
  <2>1. <<i, j>> \in Grid(n, r) /\ ~(i > n \/ j > r) BY DEF Grid
  <2>2. g[<<i, j>>] = GlobTurn(a, b, fold, g, <<i, j>>) BY <2>1, <1>2
  <2>3. ~(i > Len(a) \/ j > Len(b)) BY <2>1
  <2>4. a[i] = Globstar \/ b[j] = Globstar =>
          GlobTurn(a, b, fold, g, <<i, j>>) = (g[<<i + 1, j>>] \/ g[<<i, j + 1>>] \/ (a[i] = b[j] /\ g[<<i + 1, j + 1>>]))
    BY <2>3 DEF GlobTurn
  <2>5. ~(a[i] = Globstar \/ b[j] = Globstar) =>
          GlobTurn(a, b, fold, g, <<i, j>>) = (SegmentsIntersect(a[i], b[j], fold) /\ g[<<i + 1, j + 1>>])
    BY <2>3 DEF GlobTurn
  <2> QED BY <2>2, <2>4, <2>5, Zenon
<1>10. GlobPlaces(a, b, n, r, fold, g)
  <2>1. \A i \in 1..n, j \in 1..r :
          /\ a[i] = Globstar \/ b[j] = Globstar => (g[<<i + 1, j>>] \/ g[<<i, j + 1>>] => g[<<i, j>>])
          /\ a[i] # Globstar /\ b[j] # Globstar =>
               (SegmentsIntersect(a[i], b[j], fold) /\ g[<<i + 1, j + 1>>] => g[<<i, j>>])
    BY <1>9, Zenon
  <2> QED BY <2>1, <1>6, <1>7, <1>8, Zenon DEF GlobPlaces
<1> QED BY <1>10 DEF g

LEMMA LastAbsorbs ==
    ASSUME NEW a, NEW b, NEW n \in Nat, NEW r \in Nat, NEW fold, NEW g, GlobPlaces(a, b, n, r, fold, g)
    PROVE  /\ n > 0 /\ a[n] = Globstar => \A j \in 1..r : g[<<n, j>>]
           /\ r > 0 /\ b[r] = Globstar => \A i \in 1..n : g[<<i, r>>]
<1>1. ASSUME n > 0, a[n] = Globstar PROVE \A j \in 1..r : g[<<n, j>>]
  <2> DEFINE T == {j \in 1..r : g[<<n, j>>]}
  <2>1. n \in 1..n /\ g[<<n, r + 1>>] /\ \A j \in 1..r : g[<<n, j + 1>>] => g[<<n, j>>]
    <3>1. n \in 1..n BY <1>1
    <3>2. g[<<n, r + 1>>] BY <1>1 DEF GlobPlaces
    <3>3. \A j \in 1..r : (g[<<n + 1, j>>] \/ g[<<n, j + 1>>] => g[<<n, j>>])
      BY <3>1, <1>1 DEF GlobPlaces
    <3> QED BY <3>1, <3>2, <3>3
  <2>2. ASSUME NEW j \in 1..r, \A l \in 1..r : j < l => l \in T PROVE j \in T
    <3>1. CASE j = r BY <3>1, <2>1
    <3>2. CASE j # r
      <4>1. j + 1 \in 1..r /\ j < j + 1 BY <3>2
      <4>2. j + 1 \in T
        <5> HIDE DEF T
        <5> QED BY <4>1, <2>2
      <4> QED BY <4>2, <2>1
    <3> QED BY <3>1, <3>2
  <2>3. T \in SUBSET (1..r) OBVIOUS
  <2>4. T = 1..r
    <3> HIDE DEF T
    <3> QED BY <2>2, <2>3, Downward
  <2> QED BY <2>4
<1>2. ASSUME r > 0, b[r] = Globstar PROVE \A i \in 1..n : g[<<i, r>>]
  <2> DEFINE T == {i \in 1..n : g[<<i, r>>]}
  <2>1. r \in 1..r /\ g[<<n + 1, r>>] /\ \A i \in 1..n : g[<<i + 1, r>>] => g[<<i, r>>]
    <3>1. r \in 1..r BY <1>2
    <3>2. g[<<n + 1, r>>] BY <1>2 DEF GlobPlaces
    <3>3. \A i \in 1..n : (g[<<i + 1, r>>] \/ g[<<i, r + 1>>] => g[<<i, r>>])
      BY <3>1, <1>2 DEF GlobPlaces
    <3> QED BY <3>1, <3>2, <3>3
  <2>2. ASSUME NEW i \in 1..n, \A l \in 1..n : i < l => l \in T PROVE i \in T
    <3>1. CASE i = n BY <3>1, <2>1
    <3>2. CASE i # n
      <4>1. i + 1 \in 1..n /\ i < i + 1 BY <3>2
      <4>2. i + 1 \in T
        <5> HIDE DEF T
        <5> QED BY <4>1, <2>2
      <4> QED BY <4>2, <2>1
    <3> QED BY <3>1, <3>2
  <2>3. T \in SUBSET (1..n) OBVIOUS
  <2>4. T = 1..n
    <3> HIDE DEF T
    <3> QED BY <2>2, <2>3, Downward
  <2> QED BY <2>4
<1> QED BY <1>1, <1>2

\* Two walks over the same file meet.
LEMMA WalksMeet ==
    ASSUME NEW a, NEW b, NEW n \in Nat, NEW r \in Nat, n = Len(a), r = Len(b), n > 0, r > 0,
           NEW file, NEW m \in Nat, NEW M, NEW N, NEW fold,
           Walk(a, n, file, m, M), Walk(b, r, file, m, N), Meeting(a, n, M, b, r, N, m, fold),
           M[<<1, 1>>], N[<<1, 1>>]
    PROVE  GlobGo(a, b, fold)[<<1, 1>>]
<1> DEFINE g == GlobGo(a, b, fold)
           Good(at) == at[1] \in 1..n /\ at[2] \in 1..r =>
                         \A k \in 1..(m + 1) : M[<<at[1], k>>] /\ N[<<at[2], k>>] => g[at]
           T == {at \in Grid(n, r) : Good(at)}
<1>1. GlobPlaces(a, b, n, r, fold, g)
  BY GlobGoPlaces
<1> HIDE DEF g
<1>2. /\ g[<<n + 1, r + 1>>]
      /\ \A i \in 1..n, j \in 1..r :
          /\ a[i] = Globstar \/ b[j] = Globstar => (g[<<i + 1, j>>] \/ g[<<i, j + 1>>] => g[<<i, j>>])
          /\ a[i] # Globstar /\ b[j] # Globstar =>
               (SegmentsIntersect(a[i], b[j], fold) /\ g[<<i + 1, j + 1>>] => g[<<i, j>>])
  BY <1>1, Zenon DEF GlobPlaces
<1>3. /\ a[n] = Globstar => \A j \in 1..r : g[<<n, j>>]
      /\ b[r] = Globstar => \A i \in 1..n : g[<<i, r>>]
  BY <1>1, LastAbsorbs
<1>4. ASSUME NEW at \in Grid(n, r), Beyond(n, r, at) \subseteq T PROVE at \in T
  <2> DEFINE i == at[1]
             j == at[2]
  <2>1. /\ i \in Nat /\ j \in Nat /\ at = <<i, j>> /\ i \in 1..(n + 1) /\ j \in 1..(r + 1)
        /\ ~(i > n) => i \in 1..n /\ <<i + 1, j>> \in T
        /\ ~(j > r) => j \in 1..r /\ <<i, j + 1>> \in T
        /\ ~(i > n) /\ ~(j > r) => <<i + 1, j + 1>> \in T
    <3>1. i \in 1..(n + 1) /\ j \in 1..(r + 1) BY DEF Grid
    <3> QED BY <3>1, <1>4, GridNext
  <2>2. \A p, q : <<p, q>> \in T /\ p \in 1..n /\ q \in 1..r =>
                     \A k \in 1..(m + 1) : M[<<p, k>>] /\ N[<<q, k>>] => g[<<p, q>>]
    OBVIOUS
  <2>3. i \in 1..n => ~(i > n)
    <3> HIDE DEF i
    <3> QED OBVIOUS
  <2>4. j \in 1..r => ~(j > r)
    <3> HIDE DEF j
    <3> QED OBVIOUS
  <2> SUFFICES ASSUME i \in 1..n, j \in 1..r, NEW k \in 1..(m + 1), M[<<i, k>>], N[<<j, k>>]
               PROVE  g[<<i, j>>]
    BY <2>1
  <2>5. <<i + 1, j>> \in T /\ <<i, j + 1>> \in T /\ <<i + 1, j + 1>> \in T
    BY <2>1, <2>3, <2>4, Zenon
  <2> HIDE DEF i, j, Good, T
  <2>6. a[i] = Globstar \/ b[j] = Globstar => (g[<<i + 1, j>>] \/ g[<<i, j + 1>>] => g[<<i, j>>])
    BY <1>2
  <2>7. ASSUME i # n, NEW p \in 1..(m + 1), M[<<i + 1, p>>], N[<<j, p>>] PROVE g[<<i + 1, j>>]
    <3>1. i + 1 \in 1..n BY <2>7
    <3> QED BY <3>1, <2>5, <2>7, <2>2
  <2>8. ASSUME j # r, NEW p \in 1..(m + 1), M[<<i, p>>], N[<<j + 1, p>>] PROVE g[<<i, j + 1>>]
    <3>1. j + 1 \in 1..r BY <2>8
    <3> QED BY <3>1, <2>5, <2>8, <2>2
  <2>9. CASE a[i] = Globstar /\ i = n
    BY <2>9, <1>3
  <2>10. CASE b[j] = Globstar /\ j = r
    BY <2>10, <1>3
  <2>11. CASE a[i] = Globstar /\ i # n /\ b[j] # Globstar
    <3>1. i \in 1..(n - 1) BY <2>11
    <3>2. Jumps(b, r, M, N, m, i, j, k) BY <3>1, <2>11, JumpOver
    <3>3. \/ M[<<i + 1, k>>]
          \/ j # r /\ \E p \in 1..(m + 1) : M[<<i, p>>] /\ N[<<j + 1, p>>]
      BY <3>2 DEF Jumps
    <3> QED BY <3>3, <2>6, <2>7, <2>8, <2>11
  <2>12. CASE b[j] = Globstar /\ j # r /\ a[i] # Globstar
    <3>1. j \in 1..(r - 1) BY <2>12
    <3>2. Jumps(a, n, N, M, m, j, i, k) BY <3>1, <2>12, JumpOver
    <3>3. \/ N[<<j + 1, k>>]
          \/ i # n /\ \E p \in 1..(m + 1) : N[<<j, p>>] /\ M[<<i + 1, p>>]
      BY <3>2 DEF Jumps
    <3> QED BY <3>3, <2>6, <2>7, <2>8, <2>12
  <2>13. CASE a[i] = Globstar /\ i # n /\ b[j] = Globstar /\ j # r
    <3>1. \A p \in 1..(m + 1) :
            M[<<i, p>>] <=> (M[<<i + 1, p>>] \/ \E l \in p..m : file[l] = Sep /\ M[<<i + 1, l + 1>>])
      BY <2>13 DEF Walk
    <3>2. \A p \in 1..(m + 1) :
            N[<<j, p>>] <=> (N[<<j + 1, p>>] \/ \E l \in p..m : file[l] = Sep /\ N[<<j + 1, l + 1>>])
      BY <2>13 DEF Walk
    <3>3. CASE M[<<i + 1, k>>] BY <3>3, <2>6, <2>7, <2>13
    <3>4. CASE N[<<j + 1, k>>] BY <3>4, <2>6, <2>8, <2>13
    <3>5. CASE ~M[<<i + 1, k>>] /\ ~N[<<j + 1, k>>]
      <4>1. PICK l \in k..m : file[l] = Sep /\ M[<<i + 1, l + 1>>] BY <3>1, <3>5
      <4>2. PICK p \in k..m : file[p] = Sep /\ N[<<j + 1, p + 1>>] BY <3>2, <3>5
      <4>3. l + 1 \in 1..(m + 1) /\ p + 1 \in 1..(m + 1) OBVIOUS
      <4>4. CASE l = p
        <5>1. N[<<j, l + 1>>] BY <4>2, <4>3, <4>4, <3>2
        <5>2. g[<<i + 1, j>>] BY <5>1, <4>1, <4>3, <2>7, <2>13
        <5> QED BY <5>2, <2>6, <2>13
      <4>5. CASE l < p
        <5>0. p \in (l + 1)..m BY <4>5
        <5>1. N[<<j, l + 1>>] BY <5>0, <4>2, <4>3, <3>2
        <5>2. g[<<i + 1, j>>] BY <5>1, <4>1, <4>3, <2>7, <2>13
        <5> QED BY <5>2, <2>6, <2>13
      <4>6. CASE p < l
        <5>0. l \in (p + 1)..m BY <4>6
        <5>1. M[<<i, p + 1>>] BY <5>0, <4>1, <4>3, <3>1
        <5>2. g[<<i, j + 1>>] BY <5>1, <4>2, <4>3, <2>8, <2>13
        <5> QED BY <5>2, <2>6, <2>13
      <4> QED BY <4>4, <4>5, <4>6
    <3> QED BY <3>3, <3>4, <3>5
  <2>14. CASE a[i] # Globstar /\ b[j] # Globstar
    <3>1. PICK e : /\ EndAt(file, m, k, e)
                   /\ \/ i = n /\ e = m + 1
                      \/ i \in 1..(n - 1) /\ e \in 1..m /\ M[<<i + 1, e + 1>>]
      BY <2>14 DEF Walk
    <3>2. PICK d : /\ EndAt(file, m, k, d)
                   /\ \/ j = r /\ d = m + 1
                      \/ j \in 1..(r - 1) /\ d \in 1..m /\ N[<<j + 1, d + 1>>]
      BY <2>14 DEF Walk
    <3>3. d = e BY <3>1, <3>2, EndUnique
    <3>4. SegmentsIntersect(a[i], b[j], fold) BY <2>14 DEF Meeting
    <3>5. g[<<i + 1, j + 1>>]
      <4>1. CASE i = n /\ e = m + 1
        <5>1. j = r BY <4>1, <3>2, <3>3
        <5> QED BY <5>1, <4>1, <1>2
      <4>2. CASE i \in 1..(n - 1) /\ e \in 1..m /\ M[<<i + 1, e + 1>>]
        <5>1. j \in 1..(r - 1) /\ N[<<j + 1, e + 1>>] BY <4>2, <3>2, <3>3
        <5>2. e + 1 \in 1..(m + 1) /\ i + 1 \in 1..n /\ j + 1 \in 1..r BY <4>2, <5>1
        <5> QED BY <5>1, <5>2, <4>2, <2>2, <2>5
      <4> QED BY <3>1, <4>1, <4>2
    <3> QED BY <3>4, <3>5, <2>14, <1>2
  <2> QED BY <2>9, <2>10, <2>11, <2>12, <2>13, <2>14
<1>5. T = Grid(n, r)
  <2> HIDE DEF Good
  <2>1. T \in SUBSET Grid(n, r) OBVIOUS
  <2> HIDE DEF T
  <2> QED BY <2>1, <1>4, GridInduction
<1>6. <<1, 1>> \in T /\ 1 \in 1..n /\ 1 \in 1..r /\ 1 \in 1..(m + 1)
  BY <1>5 DEF Grid
<1> QED BY <1>6 DEF g

\* No segment has a separator.
LEMMA SegmentsSlashFree ==
    ASSUME NEW p \in Seq(Symbol)
    PROVE  \A i \in 1..Len(Segments(p)) : SlashFree(Segments(p)[i])
<1> DEFINE n == Len(p)
           V == {segs \in Seq(Seq(Symbol)) : segs # <<>> /\ \A i \in 1..Len(segs) : SlashFree(segs[i])}
<1>1. n \in Nat /\ DOMAIN p = 1..n /\ \A k \in 1..n : p[k] \in Symbol
  OBVIOUS
<1> HIDE DEF n
<1>2. << <<>> >> \in V
  <2>1. <<>> \in Seq(Symbol) /\ SlashFree(<<>>) BY DEF SlashFree
  <2> DEFINE e == <<>>
  <2> HIDE DEF e
  <2>2. e \in Seq(Symbol) /\ SlashFree(e) BY <2>1 DEF e
  <2>3. <<e>> \in V BY <2>2
  <2> QED BY <2>3 DEF e
<1>3. ASSUME NEW segs \in V, NEW s \in Symbol PROVE Split(segs, s) \in V
  <2> DEFINE n1 == Len(segs)
             last == segs[n1]
  <2>1. segs \in Seq(Seq(Symbol)) /\ n1 \in Nat /\ n1 \in 1..n1
    OBVIOUS
  <2>2. last \in Seq(Symbol) /\ SlashFree(last)
    BY <2>1
  <2>4. CASE s = Slash
    <3>1. Split(segs, s) = Append(segs, <<>>) BY <2>4 DEF Split
    <3>2. <<>> \in Seq(Symbol) /\ SlashFree(<<>>) BY DEF SlashFree
    <3> DEFINE u == Append(segs, <<>>)
    <3>3. /\ u \in Seq(Seq(Symbol)) /\ Len(u) = n1 + 1 /\ u[n1 + 1] = <<>>
          /\ \A i \in 1..n1 : u[i] = segs[i]
      BY <2>1, <3>2, AppendProperties
    <3> HIDE DEF u
    <3>4. u # <<>>
      <4> HIDE DEF n1
      <4> QED BY <2>1, <3>3
    <3>5. ASSUME NEW i \in 1..Len(u) PROVE SlashFree(u[i])
      <4>1. i \in 1..n1 \/ i = n1 + 1 BY <3>3, <2>1
      <4> QED BY <4>1, <3>2, <3>3
    <3> QED BY <3>1, <3>3, <3>4, <3>5 DEF u
  <2>5. CASE s # Slash
    <3> DEFINE t == Append(last, s)
               u == [segs EXCEPT ![n1] = t]
    <3>0. Split(segs, s) = u BY <2>5 DEF Split
    <3>1. /\ t \in Seq(Symbol) /\ Len(t) = Len(last) + 1 /\ t[Len(last) + 1] = s
          /\ \A i \in 1..Len(last) : t[i] = last[i]
      BY <2>2, AppendProperties
    <3>2. SlashFree(t)
      <4> HIDE DEF t, last
      <4>1. Len(last) \in Nat BY <2>2
      <4>2. \A i \in 1..Len(last) : last[i] # Slash BY <2>2 DEF SlashFree
      <4>3. ASSUME NEW i \in 1..Len(t) PROVE t[i] # Slash
        <5>1. i \in 1..Len(last) \/ i = Len(last) + 1 BY <3>1, <4>1
        <5> QED BY <5>1, <3>1, <4>2, <2>5
      <4> QED BY <3>1, <4>3 DEF SlashFree
    <3>3. u \in Seq(Seq(Symbol)) /\ Len(u) = n1 /\ \A i \in 1..n1 : u[i] = IF i = n1 THEN t ELSE segs[i]
      <4> HIDE DEF t
      <4> QED BY <2>1, <3>1, ExceptSeq
    <3> HIDE DEF u, t
    <3>4. u # <<>>
      <4> HIDE DEF n1
      <4> QED BY <2>1, <3>3
    <3>5. ASSUME NEW i \in 1..Len(u) PROVE SlashFree(u[i])
      BY <3>2, <3>3
    <3> QED BY <3>0, <3>3, <3>4, <3>5
  <2> QED BY <2>4, <2>5
<1>4. \A segs \in V : \A k \in 1..n : Split(segs, p[k]) \in V
  <2> HIDE DEF V
  <2> QED BY <1>1, <1>3
<1>5. PICK f : SplitRounds(V, p, n, f)
  <2> HIDE DEF V
  <2> QED BY <1>1, <1>2, <1>4, SplitFold
<1>6. f \in [0..n -> V] /\ f[n] = Segments(p)
  BY <1>5 DEF SplitRounds, Segments
<1>7. n \in 0..n
  BY <1>1
<1>8. Segments(p) \in V
  <2> HIDE DEF V
  <2> QED BY <1>6, <1>7
<1> QED BY <1>8

\* The tokens of a segment in which no two stars are next to each other.
LEMMA SegTokensSame ==
    ASSUME NEW s \in Seq(Symbol), \A i \in 1..(Len(s) - 1) : SubSeq(s, i, i + 1) # Globstar
    PROVE  SegTokens(s) = s
<1> DEFINE n == Len(s)
           V == Seq(Symbol)
<1>1. n \in Nat /\ DOMAIN s = 1..n /\ \A k \in 1..n : s[k] \in Symbol
  OBVIOUS
<1>0. ASSUME NEW i \in 1..(n - 1), s[i] = Star, s[i + 1] = Star PROVE FALSE
  <2>1. SubSeq(s, i, i + 1) = <<s[i], s[i + 1]>>
    <3>1. 1 <= i /\ i \in Nat /\ i + 1 \in Int /\ i + 1 <= Len(s) OBVIOUS
    <3>2. /\ SubSeq(s, i, i + 1) \in Seq(Symbol) /\ Len(SubSeq(s, i, i + 1)) = 2
          /\ SubSeq(s, i, i + 1)[1] = s[i] /\ SubSeq(s, i, i + 1)[2] = s[i + 1]
      <4>1. /\ SubSeq(s, i, i + 1) \in Seq(Symbol)
            /\ Len(SubSeq(s, i, i + 1)) = IF i <= i + 1 THEN (i + 1) - i + 1 ELSE 0
            /\ \A k \in 1..((i + 1) - i + 1) : SubSeq(s, i, i + 1)[k] = s[i + k - 1]
        BY <3>1, SubSeqTyped
      <4> DEFINE u == SubSeq(s, i, i + 1)
      <4> HIDE DEF u
      <4>2. 1 \in 1..((i + 1) - i + 1) /\ 2 \in 1..((i + 1) - i + 1) /\ i + 1 - 1 = i /\ i + 2 - 1 = i + 1 /\ i <= i + 1
            /\ (i + 1) - i + 1 = 2
        OBVIOUS
      <4> QED BY <4>1, <4>2 DEF u
    <3> DEFINE u == SubSeq(s, i, i + 1)
    <3> HIDE DEF u
    <3>3. u \in Seq(Symbol) /\ Len(u) = 2 /\ u[1] = s[i] /\ u[2] = s[i + 1] BY <3>2 DEF u
    <3>4. u = <<u[1], u[2]>> BY <3>3
    <3> QED BY <3>3, <3>4 DEF u
  <2> QED BY <2>1, <1>0 DEF Globstar
<1> HIDE DEF n
<1>2. <<>> \in V
  OBVIOUS
<1>3. \A out \in V : \A k \in 1..n : Collapsed(out, s[k]) \in V
  BY <1>1, AppendProperties DEF Collapsed
<1>4. PICK f : CollapsedRounds(V, s, n, f)
  <2> HIDE DEF V
  <2> QED BY <1>1, <1>2, <1>3, CollapsedFold
<1>5. /\ f \in [0..n -> V] /\ f[n] = SegTokens(s) /\ f[0] = <<>>
      /\ \A k \in 1..n : f[k] = Collapsed(f[k - 1], s[k])
  BY <1>4 DEF CollapsedRounds, SegTokens
<1> DEFINE Same(k) == k <= n => Len(f[k]) = k /\ \A i \in 1..k : f[k][i] = s[i]
           S == {k \in Nat : Same(k)}
<1>6. ASSUME NEW k \in Nat, \A l \in Nat : l < k => l \in S PROVE k \in S
  <2>1. CASE k = 0 BY <2>1, <1>5
  <2>2. CASE k # 0 /\ k <= n
    <3>1. k \in 1..n /\ k - 1 \in Nat /\ k - 1 < k /\ k - 1 <= n /\ k - 1 \in 0..n BY <2>2, <1>1
    <3>2. Same(k - 1) BY <3>1, <1>6
    <3> DEFINE o == f[k - 1]
    <3>3. o \in V /\ Len(o) = k - 1 /\ \A i \in 1..(k - 1) : o[i] = s[i] BY <3>1, <3>2, <1>5
    <3>4. f[k] = Collapsed(o, s[k]) BY <3>1, <1>5
    <3> HIDE DEF o
    <3>5. f[k] = Append(o, s[k])
      <4>1. ASSUME s[k] = Star, o # <<>>, Last(o) = Star PROVE FALSE
        <5>1. Len(o) # 0 BY <3>3, <4>1
        <5>0. k - 1 # 0 BY <5>1, <3>3
        <5>2. k - 1 \in 1..(n - 1) /\ k - 1 \in 1..(k - 1) /\ (k - 1) + 1 = k BY <5>0, <3>1, <1>1
        <5>3. Last(o) = o[k - 1] BY <3>3 DEF Last
        <5>4. s[k - 1] = Star /\ s[(k - 1) + 1] = Star BY <5>2, <5>3, <3>3, <4>1
        <5> QED BY <5>2, <5>4, <1>0
      <4> QED BY <4>1, <3>4 DEF Collapsed
    <3>6. s[k] \in Symbol BY <3>1, <1>1
    <3>7. /\ Len(Append(o, s[k])) = Len(o) + 1 /\ Append(o, s[k])[Len(o) + 1] = s[k]
          /\ \A i \in 1..Len(o) : Append(o, s[k])[i] = o[i]
      BY <3>3, <3>6, AppendProperties
    <3>8. Len(f[k]) = k /\ f[k][k] = s[k] /\ \A i \in 1..(k - 1) : f[k][i] = s[i]
      <4>1. Len(o) + 1 = k BY <3>1, <3>3
      <4> QED BY <4>1, <3>3, <3>5, <3>7
    <3>9. \A i \in 1..k : f[k][i] = s[i]
      <4> SUFFICES ASSUME NEW i \in 1..k PROVE f[k][i] = s[i] OBVIOUS
      <4>1. i = k \/ i \in 1..(k - 1) BY <3>1
      <4> QED BY <4>1, <3>8
    <3> QED BY <3>8, <3>9
  <2>3. CASE ~(k <= n) BY <2>3
  <2> QED BY <2>1, <2>2, <2>3
<1>7. S = Nat
  <2> HIDE DEF S
  <2>1. S \in SUBSET Nat BY DEF S
  <2> QED BY <1>6, <2>1, Induction
<1>8. Same(n)
  <2> HIDE DEF Same
  <2> QED BY <1>1, <1>7
<1> DEFINE u == SegTokens(s)
<1>9. u \in Seq(Symbol) /\ Len(u) = n /\ \A i \in 1..n : u[i] = s[i]
  <2>1. n \in 0..n BY <1>1
  <2> QED BY <2>1, <1>1, <1>5, <1>8
<1> HIDE DEF u
<1>10. Len(s) = n /\ s \in Seq(Symbol)
  BY DEF n
<1>11. u = s
  BY <1>9, <1>10, SeqEqual
<1> QED BY <1>11 DEF u

\* Where the segments begin in a reading.
Begins(read, n, m) == [at \in (1..n) \X (1..(m + 1)) |-> read[at[1]][<<1, at[2]>>]]

LEMMA BehindClosed ==
    ASSUME NEW segs, NEW n, NEW file, NEW m \in Nat, NEW read, Behind(segs, n, file, m, read),
           NEW i \in 1..n, segs[i] # Globstar
    PROVE  Closed(segs[i], file, m, read[i])
<1> DEFINE S == read[i]
           L == Len(segs[i])
<1>1. \A k \in 1..(m + 1) :
         /\ i = n => (S[<<L + 1, k>>] <=> k = m + 1)
         /\ i # n => (S[<<L + 1, k>>] <=> (k <= m /\ file[k] = Sep /\ read[i + 1][<<1, k + 1>>]))
  BY Zenon DEF Behind
<1>2. \A k \in 1..(m + 1) : S[<<L + 1, k>>] => (k = m + 1 \/ file[k] = Sep)
  <2> HIDE DEF S, L
  <2> QED BY <1>1
<1> QED BY <1>2, Zenon DEF Closed

LEMMA ReadingWalks ==
    ASSUME NEW segs, NEW n \in Nat, \A i \in 1..n : SlashFree(segs[i]), NEW file \in Seq(Point),
           NEW m \in Nat, m = Len(file), NEW fold, NEW read, Reading(segs, n, file, m, fold, read)
    PROVE  Walk(segs, n, file, m, Begins(read, n, m))
<1> DEFINE M == Begins(read, n, m)
<1>0. \A i \in 1..n, k \in 1..(m + 1) : M[<<i, k>>] = read[i][<<1, k>>]
  BY DEF Begins
<1> HIDE DEF M
<1>1. /\ \A i \in 1..n : segs[i] # Globstar => InSegment(segs[i], file, fold, m, read[i])
      /\ Behind(segs, n, file, m, read) /\ Skips(segs, n, file, m, read)
  BY Zenon DEF Reading
<1>2. ASSUME NEW i \in 1..n, NEW k \in 1..(m + 1), segs[i] # Globstar, M[<<i, k>>]
      PROVE  \E e : /\ EndAt(file, m, k, e)
                    /\ \/ i = n /\ e = m + 1
                       \/ i \in 1..(n - 1) /\ e \in 1..m /\ M[<<i + 1, e + 1>>]
  <2>1. Closed(segs[i], file, m, read[i]) BY <1>1, <1>2, BehindClosed
  <2>2. read[i][<<1, k>>] BY <1>0, <1>2
  <2>3. InSegment(segs[i], file, fold, m, read[i]) /\ SlashFree(segs[i]) BY <1>1, <1>2
  <2>4. PICK e : EndAt(file, m, k, e) /\ read[i][<<Len(segs[i]) + 1, e>>]
    BY <2>1, <2>2, <2>3, SegmentEnds
  <2>5. e \in k..(m + 1) BY <2>4 DEF EndAt
  <2>6. e \in 1..(m + 1) BY <2>5
  <2>7. /\ i = n => e = m + 1
        /\ i # n => e <= m /\ read[i + 1][<<1, e + 1>>]
    BY <2>4, <2>6, <1>1, <1>2, Zenon DEF Behind
  <2>8. CASE i = n BY <2>4, <2>7, <2>8
  <2>9. CASE i # n
    <3>1. i \in 1..(n - 1) /\ i + 1 \in 1..n /\ e \in 1..m /\ e + 1 \in 1..(m + 1) BY <2>6, <2>7, <2>9
    <3>2. M[<<i + 1, e + 1>>] BY <3>1, <2>7, <2>9, <1>0
    <3> QED BY <3>1, <3>2, <2>4
  <2> QED BY <2>8, <2>9
<1>3. ASSUME NEW i \in 1..n, NEW k \in 1..(m + 1), segs[i] = Globstar, i # n
      PROVE  M[<<i, k>>] <=> (M[<<i + 1, k>>] \/ \E l \in k..m : file[l] = Sep /\ M[<<i + 1, l + 1>>])
  <2>1. i + 1 \in 1..n /\ \A l \in k..m : l + 1 \in 1..(m + 1) BY <1>3
  <2>2. M[<<i, k>>] = read[i][<<1, k>>] /\ M[<<i + 1, k>>] = read[i + 1][<<1, k>>] BY <1>0, <2>1
  <2>3. \A l \in k..m : M[<<i + 1, l + 1>>] = read[i + 1][<<1, l + 1>>] BY <1>0, <2>1
  <2>4. read[i][<<1, k>>] <=>
          (read[i + 1][<<1, k>>] \/ \E l \in k..m : file[l] = Sep /\ read[i + 1][<<1, l + 1>>])
    BY <1>1, <1>3, Zenon DEF Skips
  <2> QED BY <2>2, <2>3, <2>4
<1>4. Walk(segs, n, file, m, M)
  <2> SUFFICES ASSUME NEW i \in 1..n, NEW k \in 1..(m + 1)
      PROVE  /\ segs[i] # Globstar /\ M[<<i, k>>] =>
                  \E e : /\ EndAt(file, m, k, e)
                         /\ \/ i = n /\ e = m + 1
                            \/ i \in 1..(n - 1) /\ e \in 1..m /\ M[<<i + 1, e + 1>>]
             /\ segs[i] = Globstar /\ i # n =>
                  (M[<<i, k>>] <=> (M[<<i + 1, k>>] \/ \E l \in k..m : file[l] = Sep /\ M[<<i + 1, l + 1>>]))
    BY DEF Walk
  <2> QED BY <1>2, <1>3, Zenon
<1> QED BY <1>4 DEF M

\* What PatternToRegExp asks of the segments of a brace-free pattern.
StarsApart(x) ==
    \A s \in ToSet(Segments(x)) :
        s = Globstar \/ \A i \in 1..(Len(s) - 1) : SubSeq(s, i, i + 1) # Globstar

\* Two patterns that match the same name are found to intersect.
LEMMA MatchersIntersect ==
    ASSUME NEW x \in Seq(Symbol), NEW y \in Seq(Symbol), StarsApart(x), StarsApart(y),
           NEW file \in Seq(Point), NEW fold \in BOOLEAN,
           RegexpMatches(Regexp(x), file, fold, FALSE), RegexpMatches(Regexp(y), file, fold, FALSE)
    PROVE  GlobsIntersect(x, y, fold)
<1> DEFINE a == Segments(x)
           b == Segments(y)
           n == Len(a)
           r == Len(b)
           m == Len(file)
<1>1. /\ a \in Seq(Seq(Symbol)) /\ a # <<>> /\ \A i \in 1..n : SlashFree(a[i])
      /\ b \in Seq(Seq(Symbol)) /\ b # <<>> /\ \A i \in 1..r : SlashFree(b[i])
  BY SegmentsTyped, SegmentsSlashFree
<1>2. PICK ra : Reads(x, file, fold, ra)
  BY PatternReads
<1>3. PICK rb : Reads(y, file, fold, rb)
  BY PatternReads
<1>4. Reading(a, n, file, m, fold, ra) /\ Reading(b, r, file, m, fold, rb) /\ ra[1][<<1, 1>>] /\ rb[1][<<1, 1>>]
  BY <1>2, <1>3, Zenon DEF Reads
<1>5. /\ \A i \in 1..n : a[i] # Globstar => SegTokens(a[i]) = a[i]
      /\ \A i \in 1..r : b[i] # Globstar => SegTokens(b[i]) = b[i]
  <2>1. ASSUME NEW i \in 1..n, a[i] # Globstar PROVE SegTokens(a[i]) = a[i]
    <3>1. a[i] \in ToSet(Segments(x)) BY DEF ToSet
    <3>2. \A k \in 1..(Len(a[i]) - 1) : SubSeq(a[i], k, k + 1) # Globstar
      BY <3>1, <2>1, Zenon DEF StarsApart
    <3>3. a[i] \in Seq(Symbol) BY <1>1
    <3> HIDE DEF a
    <3> QED BY <3>2, <3>3, SegTokensSame
  <2>2. ASSUME NEW i \in 1..r, b[i] # Globstar PROVE SegTokens(b[i]) = b[i]
    <3>1. b[i] \in ToSet(Segments(y)) BY DEF ToSet
    <3>2. \A k \in 1..(Len(b[i]) - 1) : SubSeq(b[i], k, k + 1) # Globstar
      BY <3>1, <2>2, Zenon DEF StarsApart
    <3>3. b[i] \in Seq(Symbol) BY <1>1
    <3> HIDE DEF b
    <3> QED BY <3>2, <3>3, SegTokensSame
  <2> QED BY <2>1, <2>2
<1> HIDE DEF a, b
<1>6. n \in Nat /\ r \in Nat /\ m \in Nat /\ n > 0 /\ r > 0
  BY <1>1, EmptySeq
<1> HIDE DEF n, r, m
<1> DEFINE M == Begins(ra, n, m)
           N == Begins(rb, r, m)
<1>7. Walk(a, n, file, m, M) /\ Walk(b, r, file, m, N)
  BY <1>1, <1>4, <1>6, ReadingWalks DEF m
<1>8. M[<<1, 1>>] /\ N[<<1, 1>>]
  <2>1. <<1, 1>> \in (1..n) \X (1..(m + 1)) /\ <<1, 1>> \in (1..r) \X (1..(m + 1)) BY <1>6
  <2>2. M[<<1, 1>>] = ra[1][<<1, 1>>] /\ N[<<1, 1>>] = rb[1][<<1, 1>>] BY <2>1 DEF Begins
  <2> QED BY <1>4, <2>2
<1>9. Meeting(a, n, M, b, r, N, m, fold)
  <2> SUFFICES ASSUME NEW i \in 1..n, NEW j \in 1..r, NEW k \in 1..(m + 1),
                      a[i] # Globstar, b[j] # Globstar, M[<<i, k>>], N[<<j, k>>]
               PROVE  SegmentsIntersect(a[i], b[j], fold)
    BY DEF Meeting
  <2>1. ra[i][<<1, k>>] /\ rb[j][<<1, k>>] BY DEF Begins
  <2>2. /\ InSegment(a[i], file, fold, m, ra[i]) /\ Behind(a, n, file, m, ra)
        /\ InSegment(b[j], file, fold, m, rb[j]) /\ Behind(b, r, file, m, rb)
    BY <1>4, Zenon DEF Reading
  <2>3. Closed(a[i], file, m, ra[i]) /\ Closed(b[j], file, m, rb[j])
    BY <2>2, <1>6, BehindClosed
  <2>4. SlashFree(a[i]) /\ SlashFree(b[j]) /\ m = Len(file) BY <1>1 DEF m
  <2>5. SegGo(a[i], b[j], fold)[<<1, 1>>]
    <3> DEFINE s == a[i]
               t == b[j]
               A == ra[i]
               B == rb[j]
    <3>1. SlashFree(s) /\ SlashFree(t) /\ InSegment(s, file, fold, m, A) /\ InSegment(t, file, fold, m, B)
          /\ Closed(s, file, m, A) /\ Closed(t, file, m, B) /\ A[<<1, k>>] /\ B[<<1, k>>]
      BY <2>1, <2>2, <2>3, <2>4
    <3> HIDE DEF s, t, A, B
    <3>2. SegGo(s, t, fold)[<<1, 1>>] BY <3>1, <2>4, <1>6, SegmentsMeet
    <3> QED BY <3>2 DEF s, t
  <2>6. SegmentsIntersect(a[i], b[j], fold) = SegGo(SegTokens(a[i]), SegTokens(b[j]), fold)[<<1, 1>>]
    BY SegmentsIntersectTable
  <2> QED BY <2>5, <2>6, <1>5
<1> HIDE DEF M, N
<1>10. GlobGo(a, b, fold)[<<1, 1>>]
  BY <1>6, <1>7, <1>8, <1>9, WalksMeet DEF n, r
<1>11. GlobsIntersect(x, y, fold) = GlobGo(a, b, fold)[<<1, 1>>]
  BY GlobsIntersectTable DEF a, b
<1> QED BY <1>10, <1>11

-----------------------------------------------------------------------------
(* What matches a directory matches, with the wildcard behind it, what lies below. *)

\* The first m characters of g are those of d.
Extends(d, m, g, w) == m <= w /\ \A l \in 1..m : g[l] = d[l]

LEMMA SegmentExtends ==
    ASSUME NEW s, Len(s) \in Nat, NEW d, NEW g, NEW m \in Nat, NEW w \in Nat, NEW fold, NEW S, NEW U,
           Extends(d, m, g, w), InSegment(s, d, fold, m, S), InSegment(s, g, fold, w, U),
           \A k \in 1..(m + 1) : S[<<Len(s) + 1, k>>] => U[<<Len(s) + 1, k>>]
    PROVE  \A k \in 1..(m + 1) : S[<<1, k>>] => U[<<1, k>>]
<1> DEFINE n == Len(s)
           T == {at \in Grid(n, m) : S[at] => U[at]}
<1>1. /\ m <= w /\ \A l \in 1..m : g[l] = d[l]
      /\ \A k \in 1..(m + 1) : S[<<n + 1, k>>] => U[<<n + 1, k>>]
      /\ n \in Nat
  BY DEF Extends
<1>2. \A t \in 1..n, k \in 1..(m + 1) :
        /\ s[t] = Star =>
             (S[<<t, k>>] <=> (S[<<t + 1, k>>] \/ (k <= m /\ d[k] # Sep /\ S[<<t, k + 1>>])))
        /\ s[t] # Star =>
             (S[<<t, k>>] <=> (k <= m /\ Accepts(s[t], d[k], fold, FALSE) /\ S[<<t + 1, k + 1>>]))
  BY DEF InSegment
<1>3. \A t \in 1..n, k \in 1..(w + 1) :
        /\ s[t] = Star =>
             (U[<<t, k>>] <=> (U[<<t + 1, k>>] \/ (k <= w /\ g[k] # Sep /\ U[<<t, k + 1>>])))
        /\ s[t] # Star =>
             (U[<<t, k>>] <=> (k <= w /\ Accepts(s[t], g[k], fold, FALSE) /\ U[<<t + 1, k + 1>>]))
  BY DEF InSegment
<1> HIDE DEF n
<1>4. ASSUME NEW at \in Grid(n, m), Beyond(n, m, at) \subseteq T PROVE at \in T
  <2> DEFINE t == at[1]
             k == at[2]
  <2>1. /\ t \in Nat /\ k \in Nat /\ at = <<t, k>> /\ t \in 1..(n + 1) /\ k \in 1..(m + 1)
        /\ ~(t > n) => t \in 1..n /\ <<t + 1, k>> \in T
        /\ ~(k > m) => k \in 1..m /\ <<t, k + 1>> \in T
        /\ ~(t > n) /\ ~(k > m) => <<t + 1, k + 1>> \in T
    <3>1. t \in 1..(n + 1) /\ k \in 1..(m + 1) BY DEF Grid
    <3> QED BY <3>1, <1>1, <1>4, GridNext
  <2>2. \A i, j : <<i, j>> \in T => (S[<<i, j>>] => U[<<i, j>>])
    OBVIOUS
  <2> SUFFICES ASSUME S[<<t, k>>] PROVE U[<<t, k>>]
    BY <2>1
  <2> HIDE DEF t, k, T
  <2>3. CASE t > n
    <3>1. t = n + 1 BY <2>1, <2>3, <1>1
    <3> QED BY <3>1, <2>1, <1>1
  <2>4. CASE ~(t > n) /\ s[t] = Star
    <3>0. t \in 1..n /\ k \in 1..(w + 1) BY <2>1, <2>4, <1>1
    <3>1. S[<<t + 1, k>>] \/ (k <= m /\ d[k] # Sep /\ S[<<t, k + 1>>])
      BY <3>0, <2>1, <2>4, <1>2
    <3>2. U[<<t, k>>] <=> (U[<<t + 1, k>>] \/ (k <= w /\ g[k] # Sep /\ U[<<t, k + 1>>]))
      BY <3>0, <2>4, <1>3
    <3>3. CASE S[<<t + 1, k>>]
      <4>1. U[<<t + 1, k>>] BY <3>3, <2>1, <2>2, <2>4
      <4> QED BY <4>1, <3>2
    <3>4. CASE k <= m /\ d[k] # Sep /\ S[<<t, k + 1>>]
      <4>1. k \in 1..m /\ <<t, k + 1>> \in T BY <3>4, <2>1
      <4>2. U[<<t, k + 1>>] /\ g[k] = d[k] /\ k <= w BY <4>1, <3>4, <2>2, <1>1
      <4> QED BY <4>2, <3>2, <3>4
    <3> QED BY <3>1, <3>3, <3>4
  <2>5. CASE ~(t > n) /\ s[t] # Star
    <3>0. t \in 1..n /\ k \in 1..(w + 1) BY <2>1, <2>5, <1>1
    <3>1. k <= m /\ Accepts(s[t], d[k], fold, FALSE) /\ S[<<t + 1, k + 1>>]
      BY <3>0, <2>1, <2>5, <1>2
    <3>2. k \in 1..m /\ <<t + 1, k + 1>> \in T BY <3>1, <2>1, <2>5
    <3>3. U[<<t + 1, k + 1>>] /\ g[k] = d[k] /\ k <= w BY <3>1, <3>2, <2>2, <1>1
    <3>4. Accepts(s[t], g[k], fold, FALSE) BY <3>1, <3>3
    <3>5. U[<<t, k>>] <=> (k <= w /\ Accepts(s[t], g[k], fold, FALSE) /\ U[<<t + 1, k + 1>>])
      BY <3>0, <2>5, <1>3
    <3> QED BY <3>3, <3>4, <3>5
  <2> QED BY <2>3, <2>4, <2>5
<1>5. T = Grid(n, m)
  <2>1. T \in SUBSET Grid(n, m) OBVIOUS
  <2> HIDE DEF T
  <2> QED BY <2>1, <1>1, <1>4, GridInduction
<1>6. ASSUME NEW k \in 1..(m + 1) PROVE S[<<1, k>>] => U[<<1, k>>]
  <2>1. <<1, k>> \in Grid(n, m) BY <1>1 DEF Grid
  <2> QED BY <2>1, <1>5
<1> QED BY <1>6

\* A reading of d carries over, segment by segment, to what extends d.
LEMMA ReadingExtends ==
    ASSUME NEW a, NEW n \in Nat, n > 0, \A i \in 1..n : Len(a[i]) \in Nat, NEW b, NEW r \in Nat, n <= r,
           \A i \in 1..n : b[i] = a[i], NEW d, NEW m \in Nat, NEW g, NEW w \in Nat, Extends(d, m, g, w), NEW fold,
           NEW read, NEW reads, Reading(a, n, d, m, fold, read), Reading(b, r, g, w, fold, reads),
           \A k \in 1..(m + 1) : read[n][<<1, k>>] => reads[n][<<1, k>>], read[1][<<1, 1>>]
    PROVE  reads[1][<<1, 1>>]
<1> DEFINE T == {i \in 1..n : \A k \in 1..(m + 1) : read[i][<<1, k>>] => reads[i][<<1, k>>]}
<1>0. m <= w /\ \A l \in 1..m : g[l] = d[l]
  BY DEF Extends
<1>1. /\ \A i \in 1..n : a[i] # Globstar => InSegment(a[i], d, fold, m, read[i])
      /\ Behind(a, n, d, m, read) /\ Skips(a, n, d, m, read)
      /\ \A i \in 1..r : b[i] # Globstar => InSegment(b[i], g, fold, w, reads[i])
      /\ Behind(b, r, g, w, reads) /\ Skips(b, r, g, w, reads)
  BY Zenon DEF Reading
<1>2. ASSUME NEW i \in 1..n, \A l \in 1..n : i < l => l \in T PROVE i \in T
  <2>1. CASE i = n BY <2>1
  <2>2. CASE i # n /\ a[i] = Globstar
    <3> SUFFICES ASSUME NEW k \in 1..(m + 1), read[i][<<1, k>>] PROVE reads[i][<<1, k>>]
      OBVIOUS
    <3>1. i + 1 \in 1..n /\ i \in 1..r /\ i # r /\ b[i] = Globstar /\ k \in 1..(w + 1) /\ i < i + 1 BY <2>2, <1>0
    <3>2. i + 1 \in T
      <4> HIDE DEF T
      <4> QED BY <3>1, <1>2
    <3>3. \A p \in 1..(m + 1) : read[i + 1][<<1, p>>] => reads[i + 1][<<1, p>>] BY <3>2
    <3> HIDE DEF T
    <3>4. read[i + 1][<<1, k>>] \/ \E l \in k..m : d[l] = Sep /\ read[i + 1][<<1, l + 1>>]
      BY <2>2, <1>1, Zenon DEF Skips
    <3>5. reads[i][<<1, k>>] <=>
             (reads[i + 1][<<1, k>>] \/ \E l \in k..w : g[l] = Sep /\ reads[i + 1][<<1, l + 1>>])
      BY <3>1, <1>1, Zenon DEF Skips
    <3>6. CASE read[i + 1][<<1, k>>] BY <3>6, <3>3, <3>5
    <3>7. CASE \E l \in k..m : d[l] = Sep /\ read[i + 1][<<1, l + 1>>]
      <4>1. PICK l \in k..m : d[l] = Sep /\ read[i + 1][<<1, l + 1>>] BY <3>7
      <4>2. l \in 1..m /\ l + 1 \in 1..(m + 1) /\ l \in k..w BY <1>0
      <4>3. g[l] = Sep /\ reads[i + 1][<<1, l + 1>>] BY <4>1, <4>2, <3>3, <1>0
      <4> QED BY <4>2, <4>3, <3>5
    <3> QED BY <3>4, <3>6, <3>7
  <2>3. CASE i # n /\ a[i] # Globstar
    <3>1. i + 1 \in 1..n /\ i \in 1..r /\ i # r /\ b[i] = a[i] /\ b[i] # Globstar /\ i < i + 1 BY <2>3
    <3>2. i + 1 \in T
      <4> HIDE DEF T
      <4> QED BY <3>1, <1>2
    <3>3. \A p \in 1..(m + 1) : read[i + 1][<<1, p>>] => reads[i + 1][<<1, p>>] BY <3>2
    <3> DEFINE s == a[i]
               S == read[i]
               U == reads[i]
    <3>4. InSegment(s, d, fold, m, S) /\ Len(s) \in Nat BY <2>3, <1>1
    <3>5. InSegment(s, g, fold, w, U)
      <4>1. InSegment(b[i], g, fold, w, U) BY <3>1, <1>1
      <4> QED BY <4>1, <3>1
    <3>6. ASSUME NEW k \in 1..(m + 1), S[<<Len(s) + 1, k>>] PROVE U[<<Len(s) + 1, k>>]
      <4>1. k <= m /\ d[k] = Sep /\ read[i + 1][<<1, k + 1>>]
        BY <2>3, <3>6, <1>1, Zenon DEF Behind
      <4>2. k \in 1..m /\ k + 1 \in 1..(m + 1) /\ k \in 1..(w + 1) /\ k <= w BY <4>1, <1>0
      <4>3. g[k] = Sep /\ reads[i + 1][<<1, k + 1>>] BY <4>1, <4>2, <3>3, <1>0
      <4>4. reads[i][<<Len(b[i]) + 1, k>>] <=> (k <= w /\ g[k] = Sep /\ reads[i + 1][<<1, k + 1>>])
        BY <4>2, <3>1, <1>1, Zenon DEF Behind
      <4> QED BY <4>2, <4>3, <4>4, <3>1
    <3> HIDE DEF s, S, U, T
    <3>7. \A k \in 1..(m + 1) : S[<<1, k>>] => U[<<1, k>>]
      BY <3>4, <3>5, <3>6, SegmentExtends
    <3> QED BY <3>7 DEF T, S, U
  <2> QED BY <2>1, <2>2, <2>3
<1>3. T = 1..n
  <2>1. T \in SUBSET (1..n) OBVIOUS
  <2> HIDE DEF T
  <2> QED BY <2>1, <1>2, Downward
<1>4. 1 \in T /\ 1 \in 1..(m + 1)
  BY <1>3
<1> QED BY <1>4

LEMMA SubtreePlaces ==
    ASSUME NEW p \in Seq(Symbol)
    PROVE  /\ p \o Subtree \in Seq(Symbol) /\ Len(p \o Subtree) = Len(p) + 3
           /\ \A i \in 1..Len(p) : (p \o Subtree)[i] = p[i]
           /\ (p \o Subtree)[Len(p) + 1] = Slash /\ (p \o Subtree)[Len(p) + 2] = Star
           /\ (p \o Subtree)[Len(p) + 3] = Star
<1> DEFINE u == Subtree
           n == Len(p)
<1>1. u \in Seq(Symbol) /\ Len(u) = 3 /\ u[1] = Slash /\ u[2] = Star /\ u[3] = Star
  BY SubtreeTyped DEF Subtree, Globstar, Pattern
<1> HIDE DEF u
<1>2. /\ p \o u \in Seq(Symbol) /\ Len(p \o u) = Len(p) + Len(u)
      /\ \A i \in 1..(Len(p) + Len(u)) : (p \o u)[i] = IF i <= Len(p) THEN p[i] ELSE u[i - Len(p)]
  BY <1>1, ConcatProperties
<1> DEFINE v == p \o u
<1>3. n \in Nat
  OBVIOUS
<1> HIDE DEF v, n
<1>4. v \in Seq(Symbol) /\ Len(v) = n + 3 /\ \A i \in 1..(n + 3) : v[i] = IF i <= n THEN p[i] ELSE u[i - n]
  BY <1>1, <1>2 DEF v, n
<1>5. \A i \in 1..n : v[i] = p[i]
  BY <1>3, <1>4
<1>6. v[n + 1] = Slash /\ v[n + 2] = Star /\ v[n + 3] = Star
  <2>1. n + 1 \in 1..(n + 3) /\ n + 2 \in 1..(n + 3) /\ n + 3 \in 1..(n + 3) BY <1>3
  <2>2. ~(n + 1 <= n) /\ ~(n + 2 <= n) /\ ~(n + 3 <= n) /\ (n + 1) - n = 1 /\ (n + 2) - n = 2 /\ (n + 3) - n = 3
    BY <1>3
  <2> QED BY <2>1, <2>2, <1>1, <1>4
<1> QED BY <1>4, <1>5, <1>6 DEF v, n, u

Grown(X, s, x, u) ==
    u \in Seq(X) /\ Len(u) = Len(s) + 1 /\ u[Len(s) + 1] = x /\ \A i \in 1..Len(s) : u[i] = s[i]

LEMMA AppendGrows ==
    ASSUME NEW X, NEW s \in Seq(X), NEW x \in X
    PROVE  Grown(X, s, x, Append(s, x))
  BY AppendProperties DEF Grown

LEMMA AppendOne ==
    ASSUME NEW X, NEW x \in X
    PROVE  Append(<<x>>, x) = <<x, x>>
<1>1. <<x>> \in Seq(X) /\ Len(<<x>>) = 1 /\ <<x>>[1] = x
  OBVIOUS
<1>2. \A s \in Seq(X) : Len(s) = 1 /\ s[1] = x => Append(s, x) = <<x, x>>
  <2> SUFFICES ASSUME NEW s \in Seq(X), Len(s) = 1, s[1] = x PROVE Append(s, x) = <<x, x>> OBVIOUS
  <2> DEFINE u == Append(s, x)
  <2>1. Grown(X, s, x, u) BY AppendGrows
  <2> HIDE DEF u
  <2>2. u \in Seq(X) /\ Len(u) = 2 /\ u[1] = x /\ u[2] = x BY <2>1 DEF Grown
  <2>3. u = <<u[1], u[2]>> BY <2>2
  <2> QED BY <2>2, <2>3 DEF u
<1> QED BY <1>1, <1>2

\* The segments of a pattern with the wildcard for all below it.
LEMMA SubtreeSegments ==
    ASSUME NEW p \in Seq(Symbol)
    PROVE  Segments(p \o Subtree) = Append(Segments(p), Globstar)
<1> DEFINE n == Len(p)
           q == p \o Subtree
           V == {segs \in Seq(Seq(Symbol)) : segs # <<>>}
<1>1. /\ n \in Nat /\ DOMAIN p = 1..n /\ \A k \in 1..n : p[k] \in Symbol /\ q[k] = p[k]
      /\ q \in Seq(Symbol) /\ Len(q) = n + 3 /\ DOMAIN q = 1..(n + 3)
      /\ q[n + 1] = Slash /\ q[n + 2] = Star /\ q[n + 3] = Star
  BY SubtreePlaces
<1> HIDE DEF n, q
<1>2. << <<>> >> \in V
  OBVIOUS
<1>3. ASSUME NEW segs \in V, NEW s \in Symbol
      PROVE  /\ Split(segs, s) \in V
             /\ s # Slash => /\ Len(Split(segs, s)) = Len(segs) /\ Len(segs) \in Nat
                             /\ \A i \in 1..Len(segs) :
                                  Split(segs, s)[i] = IF i = Len(segs) THEN Append(segs[i], s) ELSE segs[i]
  <2>1. segs \in Seq(Seq(Symbol)) /\ Len(segs) \in Nat /\ Len(segs) \in 1..Len(segs)
    OBVIOUS
  <2>2. segs[Len(segs)] \in Seq(Symbol)
    BY <2>1
  <2>3. Append(segs[Len(segs)], s) \in Seq(Symbol)
    BY <2>2, AppendProperties
  <2>4. CASE s = Slash
    <3>1. Split(segs, s) = Append(segs, <<>>) BY <2>4 DEF Split
    <3>2. <<>> \in Seq(Symbol) OBVIOUS
    <3> QED BY <2>1, <2>4, <3>1, <3>2, AppendProperties
  <2>5. CASE s # Slash
    <3> DEFINE n1 == Len(segs)
               t == Append(segs[n1], s)
               u == [segs EXCEPT ![n1] = t]
    <3>1. Split(segs, s) = u BY <2>5 DEF Split
    <3>2. u \in Seq(Seq(Symbol)) /\ Len(u) = n1 /\ \A i \in 1..n1 : u[i] = IF i = n1 THEN t ELSE segs[i]
      <4>1. t \in Seq(Symbol) /\ n1 \in 1..Len(segs) BY <2>1, <2>3
      <4> HIDE DEF t
      <4> QED BY <2>1, <4>1, ExceptSeq
    <3>3. u # <<>>
      <4> HIDE DEF u, n1
      <4>1. n1 \in Nat /\ n1 > 0 BY <2>1 DEF n1
      <4> QED BY <4>1, <3>2
    <3> HIDE DEF u
    <3>4. \A i \in 1..n1 : u[i] = IF i = n1 THEN Append(segs[i], s) ELSE segs[i]
      BY <3>2
    <3> QED BY <2>1, <3>1, <3>2, <3>3, <3>4
  <2> QED BY <2>4, <2>5
<1>4. /\ \A segs \in V : \A k \in 1..n : Split(segs, p[k]) \in V
      /\ \A segs \in V : \A k \in 1..(n + 3) : Split(segs, q[k]) \in V
  <2> HIDE DEF V
  <2>1. \A k \in 1..(n + 3) : q[k] \in Symbol BY <1>1
  <2> QED BY <1>1, <1>3, <2>1
<1>5. PICK f : SplitRounds(V, p, n, f)
  <2> HIDE DEF V
  <2> QED BY <1>1, <1>2, <1>4, SplitFold
<1>6. PICK h : SplitRounds(V, q, n + 3, h)
  <2> HIDE DEF V
  <2>1. n + 3 \in Nat BY <1>1
  <2> QED BY <1>1, <1>2, <1>4, <2>1, SplitFold
<1>7. /\ f \in [0..n -> V] /\ f[n] = Segments(p) /\ f[0] = << <<>> >>
      /\ \A k \in 1..n : f[k] = Split(f[k - 1], p[k])
  BY <1>5 DEF SplitRounds, Segments
<1>8. /\ h \in [0..(n + 3) -> V] /\ h[n + 3] = Segments(q) /\ h[0] = << <<>> >>
      /\ \A k \in 1..(n + 3) : h[k] = Split(h[k - 1], q[k])
  BY <1>6 DEF SplitRounds, Segments
<1> DEFINE Same(k) == k <= n => h[k] = f[k]
           S == {k \in Nat : Same(k)}
<1>9. ASSUME NEW k \in Nat, \A l \in Nat : l < k => l \in S PROVE k \in S
  <2>1. CASE k = 0 BY <2>1, <1>7, <1>8
  <2>2. CASE k # 0 /\ k <= n
    <3>1. k \in 1..n /\ k \in 1..(n + 3) /\ k - 1 \in Nat /\ k - 1 < k /\ k - 1 <= n BY <2>2, <1>1
    <3>2. Same(k - 1) BY <3>1, <1>9
    <3>3. f[k] = Split(f[k - 1], p[k]) /\ h[k] = Split(h[k - 1], q[k]) /\ q[k] = p[k]
      BY <3>1, <1>1, <1>7, <1>8
    <3> QED BY <3>1, <3>2, <3>3
  <2>3. CASE ~(k <= n) BY <2>3
  <2> QED BY <2>1, <2>2, <2>3
<1>10. S = Nat
  <2> HIDE DEF S
  <2>1. S \in SUBSET Nat BY DEF S
  <2> QED BY <1>9, <2>1, Induction
<1>11. Same(n)
  <2> HIDE DEF Same
  <2> QED BY <1>1, <1>10
<1> DEFINE a == Segments(p)
           m == Len(a)
           a1 == h[n + 1]
           a2 == h[n + 2]
           a3 == h[n + 3]
<1>12. /\ h[n] = a /\ a \in V /\ a1 \in V /\ a2 \in V /\ a3 = Segments(q) /\ a3 \in V
       /\ a1 = Split(a, Slash) /\ a2 = Split(a1, Star) /\ a3 = Split(a2, Star)
  <2>1. n + 1 \in 0..(n + 3) /\ n + 2 \in 0..(n + 3) /\ n + 3 \in 0..(n + 3) /\ n \in 0..n BY <1>1
  <2>2. n + 1 \in 1..(n + 3) /\ n + 2 \in 1..(n + 3) /\ n + 3 \in 1..(n + 3) BY <1>1
  <2>3. (n + 1) - 1 = n /\ (n + 2) - 1 = n + 1 /\ (n + 3) - 1 = n + 2 /\ n <= n BY <1>1
  <2> HIDE DEF V
  <2>4. h[n] = a BY <1>11, <1>7, <2>3
  <2> QED BY <2>1, <2>2, <2>3, <2>4, <1>1, <1>7, <1>8
<1> HIDE DEF a1, a2, a3, a
<1>13. m \in Nat
  BY <1>12
<1>14. Len(a1) = m + 1 /\ a1[m + 1] = <<>> /\ \A i \in 1..m : a1[i] = a[i]
  <2>1. a1 = Append(a, <<>>) /\ <<>> \in Seq(Symbol) /\ a \in Seq(Seq(Symbol)) BY <1>12 DEF Split
  <2> QED BY <2>1, AppendProperties
<1> HIDE DEF m
<1>15. Star \in Symbol /\ Star # Slash
  BY DEF Star, Slash, Symbol
<1>16. Len(a2) = m + 1 /\ a2[m + 1] = <<Star>> /\ \A i \in 1..m : a2[i] = a[i]
  <2>1. /\ Len(a2) = Len(a1)
        /\ \A i \in 1..Len(a1) : a2[i] = IF i = Len(a1) THEN Append(a1[i], Star) ELSE a1[i]
    <3> HIDE DEF V
    <3> QED BY <1>3, <1>12, <1>15
  <2>2. m + 1 \in 1..(m + 1) /\ \A i \in 1..m : i \in 1..(m + 1) /\ i # m + 1 BY <1>13
  <2>3. Append(<<>>, Star) = <<Star>> OBVIOUS
  <2> QED BY <2>1, <2>2, <2>3, <1>14
<1>17. Len(a3) = m + 1 /\ a3[m + 1] = Globstar /\ \A i \in 1..m : a3[i] = a[i]
  <2>1. /\ Len(a3) = Len(a2)
        /\ \A i \in 1..Len(a2) : a3[i] = IF i = Len(a2) THEN Append(a2[i], Star) ELSE a2[i]
    <3> HIDE DEF V
    <3> QED BY <1>3, <1>12, <1>15
  <2>2. m + 1 \in 1..(m + 1) /\ \A i \in 1..m : i \in 1..(m + 1) /\ i # m + 1 BY <1>13
  <2>3. Append(<<Star>>, Star) = Globstar
    <3>1. Append(<<Star>>, Star) = <<Star, Star>> BY <1>15, AppendOne
    <3> QED BY <3>1, Zenon DEF Globstar
  <2> QED BY <2>1, <2>2, <2>3, <1>16
<1>18. Globstar \in Seq(Symbol)
  BY <1>15 DEF Globstar
<1>19. a \in Seq(Seq(Symbol)) /\ a3 \in Seq(Seq(Symbol)) /\ Len(a) = m
  BY <1>12 DEF m
<1> DEFINE b == Append(a, Globstar)
<1>20. b \in Seq(Seq(Symbol)) /\ Len(b) = m + 1 /\ b[m + 1] = Globstar /\ \A i \in 1..m : b[i] = a[i]
  BY <1>18, <1>19, AppendProperties
<1> HIDE DEF b
<1>21. \A i \in 1..(m + 1) : a3[i] = b[i]
  <2> SUFFICES ASSUME NEW i \in 1..(m + 1) PROVE a3[i] = b[i] OBVIOUS
  <2>1. i \in 1..m \/ i = m + 1 BY <1>13
  <2> QED BY <2>1, <1>17, <1>20
<1>22. a3 = b
  BY <1>17, <1>19, <1>20, <1>21, SeqEqual
<1> QED BY <1>12, <1>22 DEF a, b, q

EndsOpen(x) == Segments(x)[Len(Segments(x))] = Globstar

\* A pattern that ends in "**" and matches a name matches what extends it.
LEMMA Onward ==
    ASSUME NEW x \in Seq(Symbol), EndsOpen(x), NEW d \in Seq(Point), NEW g \in Seq(Point), NEW fold,
           Extends(d, Len(d), g, Len(g)), RegexpMatches(Regexp(x), d, fold, FALSE)
    PROVE  RegexpMatches(Regexp(x), g, fold, FALSE)
<1> DEFINE a == Segments(x)
           n == Len(a)
           m == Len(d)
           w == Len(g)
<1>1. a \in Seq(Seq(Symbol)) /\ a # <<>> /\ \A i \in 1..n : Len(a[i]) \in Nat
  <2>1. a \in Seq(Seq(Symbol)) /\ a # <<>> BY SegmentsTyped
  <2> HIDE DEF a
  <2>2. \A i \in 1..n : a[i] \in Seq(Symbol) BY <2>1
  <2> QED BY <2>1, <2>2
<1>2. PICK read : Reads(x, d, fold, read)
  BY PatternReads
<1>3. PICK reads : Reads(x, g, fold, reads)
  BY PatternReads
<1>4. /\ Reading(a, n, d, m, fold, read) /\ read[1][<<1, 1>>]
      /\ Reading(a, n, g, w, fold, reads)
      /\ RegexpMatches(Regexp(x), g, fold, FALSE) <=> reads[1][<<1, 1>>]
  BY <1>2, <1>3, Zenon DEF Reads
<1>5. a[n] = Globstar
  BY DEF EndsOpen
<1> HIDE DEF a
<1>6. n \in Nat /\ m \in Nat /\ w \in Nat /\ n > 0 /\ n <= n
  BY <1>1, EmptySeq
<1> HIDE DEF n, m, w
<1>7. Extends(d, m, g, w) /\ m <= w
  BY DEF m, w, Extends
<1>8. \A k \in 1..(m + 1) : reads[n][<<1, k>>]
  <2> SUFFICES ASSUME NEW k \in 1..(m + 1) PROVE reads[n][<<1, k>>] OBVIOUS
  <2>1. k \in 1..(w + 1) /\ n \in 1..n BY <1>6, <1>7
  <2>2. Skips(a, n, g, w, reads) BY <1>4, Zenon DEF Reading
  <2> QED BY <2>1, <2>2, <1>5, Zenon DEF Skips
<1>9. reads[1][<<1, 1>>]
  BY <1>1, <1>4, <1>6, <1>7, <1>8, ReadingExtends
<1> QED BY <1>4, <1>9

LEMMA Below ==
    ASSUME NEW z \in Seq(Symbol), NEW d \in Seq(Point), NEW g \in Seq(Point), NEW fold,
           Extends(d, Len(d), g, Len(g)), RegexpMatches(Regexp(z), d, fold, FALSE),
           EndsOpen(z) \/ (Len(d) < Len(g) /\ g[Len(d) + 1] = Sep)
    PROVE  RegexpMatches(Regexp(z \o Subtree), g, fold, FALSE)
<1> DEFINE x == z \o Subtree
           a == Segments(z)
           b == Segments(x)
           n == Len(a)
           m == Len(d)
           w == Len(g)
<1>1. a \in Seq(Seq(Symbol)) /\ a # <<>> /\ \A i \in 1..n : a[i] \in Seq(Symbol) /\ Len(a[i]) \in Nat
  <2>1. a \in Seq(Seq(Symbol)) /\ a # <<>> BY SegmentsTyped
  <2> HIDE DEF a
  <2>2. \A i \in 1..n : a[i] \in Seq(Symbol) BY <2>1
  <2> QED BY <2>1, <2>2
<1>2. x \in Seq(Symbol) /\ b = Append(a, Globstar)
  BY SubtreePlaces, SubtreeSegments
<1>3. PICK read : Reads(z, d, fold, read)
  BY PatternReads
<1> HIDE DEF x
<1>4. PICK reads : Reads(x, g, fold, reads)
  BY <1>2, PatternReads
<1>5. /\ Reading(a, n, d, m, fold, read) /\ read[1][<<1, 1>>]
      /\ Reading(b, Len(b), g, w, fold, reads)
      /\ RegexpMatches(Regexp(x), g, fold, FALSE) <=> reads[1][<<1, 1>>]
  BY <1>3, <1>4, Zenon DEF Reads
<1>6. EndsOpen(z) <=> a[n] = Globstar
  BY DEF EndsOpen
<1> HIDE DEF a, b
<1>7. Len(b) = n + 1 /\ b[n + 1] = Globstar /\ \A i \in 1..n : b[i] = a[i]
  <2>1. Star \in Symbol BY DEF Star, Symbol
  <2>2. Globstar \in Seq(Symbol) BY <2>1 DEF Globstar
  <2> QED BY <2>2, <1>1, <1>2, AppendProperties
<1>8. n \in Nat /\ m \in Nat /\ w \in Nat /\ n > 0
  BY <1>1, EmptySeq
<1> HIDE DEF n
<1>9. a[n] = Globstar \/ (m < w /\ g[m + 1] = Sep)
  BY <1>6
<1> HIDE DEF m, w
<1>10. Extends(d, m, g, w) /\ m <= w
  BY DEF m, w, Extends
<1>11. Behind(b, n + 1, g, w, reads) /\ Skips(b, n + 1, g, w, reads)
       /\ (a[n] # Globstar => InSegment(b[n], g, fold, w, reads[n]))
  <2>1. n \in 1..(n + 1) /\ n \in 1..n BY <1>8
  <2>2. b[n] = a[n] BY <2>1, <1>7
  <2> QED BY <2>1, <2>2, <1>5, <1>7, Zenon DEF Reading
<1>12. \A k \in 1..(w + 1) : reads[n + 1][<<1, k>>]
  <2> SUFFICES ASSUME NEW k \in 1..(w + 1) PROVE reads[n + 1][<<1, k>>] OBVIOUS
  <2>1. n + 1 \in 1..(n + 1) BY <1>8
  <2> QED BY <2>1, <1>7, <1>11, Zenon DEF Skips
<1>13. n \in 1..(n + 1) /\ n # n + 1 /\ n \in 1..n /\ b[n] = a[n]
  BY <1>7, <1>8
<1>14. \A k \in 1..(m + 1) : read[n][<<1, k>>] => reads[n][<<1, k>>]
  <2>1. CASE a[n] = Globstar
    <3> SUFFICES ASSUME NEW k \in 1..(m + 1) PROVE reads[n][<<1, k>>] OBVIOUS
    <3>1. k \in 1..(w + 1) BY <1>8, <1>10
    <3>2. reads[n + 1][<<1, k>>] BY <3>1, <1>12
    <3> QED BY <3>1, <3>2, <2>1, <1>11, <1>13, Zenon DEF Skips
  <2>2. CASE a[n] # Globstar
    <3> DEFINE s == a[n]
               S == read[n]
               U == reads[n]
    <3>1. InSegment(s, d, fold, m, S) /\ InSegment(s, g, fold, w, U)
      <4>1. InSegment(s, d, fold, m, S) BY <2>2, <1>5, <1>13, Zenon DEF Reading
      <4> QED BY <4>1, <2>2, <1>11, <1>13
    <3>2. m < w /\ g[m + 1] = Sep BY <2>2, <1>9
    <3>3. ASSUME NEW k \in 1..(m + 1), S[<<Len(s) + 1, k>>] PROVE U[<<Len(s) + 1, k>>]
      <4>1. Behind(a, n, d, m, read) BY <1>5, Zenon DEF Reading
      <4>2. k = m + 1 BY <4>1, <3>3, <2>2, <1>13, Zenon DEF Behind
      <4>3. k \in 1..(w + 1) /\ k + 1 \in 1..(w + 1) /\ k <= w BY <4>2, <3>2, <1>8
      <4>4. reads[n + 1][<<1, k + 1>>] BY <4>3, <1>12
      <4>5. g[k] = Sep BY <4>2, <3>2
      <4>6. reads[n][<<Len(b[n]) + 1, k>>] <=> (k <= w /\ g[k] = Sep /\ reads[n + 1][<<1, k + 1>>])
        BY <4>3, <2>2, <1>11, <1>13, Zenon DEF Behind
      <4> QED BY <4>3, <4>4, <4>5, <4>6, <1>13
    <3>4. Len(s) \in Nat BY <1>1, <1>13 DEF n
    <3> HIDE DEF s, S, U
    <3>5. \A k \in 1..(m + 1) : S[<<1, k>>] => U[<<1, k>>]
      BY <3>1, <3>3, <3>4, <1>8, <1>10, SegmentExtends
    <3> QED BY <3>5 DEF S, U
  <2> QED BY <2>1, <2>2
<1>15. reads[1][<<1, 1>>]
  <2>1. \A i \in 1..n : Len(a[i]) \in Nat BY <1>1 DEF n
  <2>2. n + 1 \in Nat /\ n <= n + 1 BY <1>8
  <2>3. Reading(b, n + 1, g, w, fold, reads) BY <1>5, <1>7
  <2> QED BY <2>1, <2>2, <2>3, <1>5, <1>7, <1>8, <1>10, <1>14, ReadingExtends
<1> QED BY <1>5, <1>15 DEF x

-----------------------------------------------------------------------------
(* Patterns that end in the wildcard for all below. *)

LEMMA ReverseTyped ==
    ASSUME NEW s \in Seq(Symbol)
    PROVE  /\ Reverse(s) \in Seq(Symbol) /\ Len(Reverse(s)) = Len(s)
           /\ \A i \in 1..Len(s) : Reverse(s)[i] = s[Len(s) - i + 1]
<1> DEFINE n == Len(s)
           u == [i \in 1..n |-> s[(n - i) + 1]]
<1>1. n \in Nat /\ \A i \in 1..n : s[(n - i) + 1] \in Symbol
  <2>1. n \in Nat /\ \A i \in 1..n : (n - i) + 1 \in 1..n OBVIOUS
  <2> QED BY <2>1
<1>2. Reverse(s) = u
  BY DEF Reverse
<1> HIDE DEF n
<1>3. u \in Seq(Symbol) /\ Len(u) = n /\ \A i \in 1..n : u[i] = s[n - i + 1]
  BY <1>1
<1> HIDE DEF u
<1> QED BY <1>2, <1>3 DEF n

LEMMA SubtreeSuffix ==
    ASSUME NEW p \in Seq(Symbol), IsSuffix(Subtree, p)
    PROVE  /\ Len(p) >= 3 /\ Base(p) \in Seq(Symbol) /\ Len(Base(p)) = Len(p) - 3
           /\ p = Base(p) \o Subtree
<1> DEFINE n == Len(p)
           r == Reverse(Subtree)
           u == Reverse(p)
           z == Base(p)
<1>1. /\ Subtree \in Seq(Symbol) /\ Len(Subtree) = 3
      /\ Subtree[1] = Slash /\ Subtree[2] = Star /\ Subtree[3] = Star
  BY SubtreeTyped DEF Pattern
<1>2. r \in Seq(Symbol) /\ Len(r) = 3 /\ \A i \in 1..3 : r[i] = Subtree[3 - i + 1]
  BY <1>1, ReverseTyped
<1>3. r[1] = Star /\ r[2] = Star /\ r[3] = Slash
  <2>1. r[1] = Subtree[3 - 1 + 1] /\ r[2] = Subtree[3 - 2 + 1] /\ r[3] = Subtree[3 - 3 + 1] BY <1>2
  <2>2. 3 - 1 + 1 = 3 /\ 3 - 2 + 1 = 2 /\ 3 - 3 + 1 = 1 OBVIOUS
  <2> QED BY <2>1, <2>2, <1>1
<1>4. u \in Seq(Symbol) /\ Len(u) = n /\ n \in Nat /\ \A i \in 1..n : u[i] = p[n - i + 1]
  BY ReverseTyped
<1> HIDE DEF r, u
<1>5. 3 <= n /\ SubSeq(r, 1, 3) = SubSeq(u, 1, 3)
  <2>1. Len(r) <= Len(u) /\ SubSeq(r, 1, Len(r)) = SubSeq(u, 1, Len(r)) BY DEF IsSuffix, IsPrefix, r, u
  <2> QED BY <2>1, <1>2, <1>4
<1> HIDE DEF n
<1>6. /\ \A i \in 1..(3 - 1 + 1) : SubSeq(r, 1, 3)[i] = r[1 + i - 1]
      /\ \A i \in 1..(3 - 1 + 1) : SubSeq(u, 1, 3)[i] = u[1 + i - 1]
  <2>1. 1 \in Nat /\ 3 \in Int /\ 1 <= 1 /\ 3 <= Len(r) /\ 3 <= Len(u) BY <1>2, <1>4, <1>5
  <2> QED BY <2>1, <1>2, <1>4, SubSeqTyped
<1>7. \A i \in 1..3 : u[i] = r[i]
  <2> SUFFICES ASSUME NEW i \in 1..3 PROVE u[i] = r[i] OBVIOUS
  <2>1. i \in 1..(3 - 1 + 1) /\ 1 + i - 1 = i OBVIOUS
  <2> QED BY <2>1, <1>5, <1>6
<1>8. p[n] = Star /\ p[n - 1] = Star /\ p[n - 2] = Slash
  <2>1. 1 \in 1..n /\ 2 \in 1..n /\ 3 \in 1..n BY <1>4, <1>5
  <2>2. u[1] = p[n - 1 + 1] /\ u[2] = p[n - 2 + 1] /\ u[3] = p[n - 3 + 1] BY <2>1, <1>4
  <2>3. n - 1 + 1 = n /\ n - 2 + 1 = n - 1 /\ n - 3 + 1 = n - 2 BY <1>4
  <2> QED BY <2>2, <2>3, <1>3, <1>7
<1>9. z \in Seq(Symbol) /\ Len(z) = n - 3 /\ \A i \in 1..(n - 3) : z[i] = p[i]
  <2>1. 1 \in Nat /\ n - 3 \in Int /\ 1 <= 1 /\ n - 3 <= Len(p) BY <1>4 DEF n
  <2>2. z = SubSeq(p, 1, n - 3) BY DEF Base, n
  <2>3. /\ z \in Seq(Symbol) /\ Len(z) = IF 1 <= n - 3 THEN (n - 3) - 1 + 1 ELSE 0
        /\ \A i \in 1..((n - 3) - 1 + 1) : z[i] = p[1 + i - 1]
    BY <2>1, <2>2, SubSeqTyped
  <2> HIDE DEF z
  <2>4. Len(z) = n - 3 /\ (n - 3) - 1 + 1 = n - 3 BY <2>3, <1>4, <1>5
  <2>5. \A i \in 1..(n - 3) : 1 + i - 1 = i BY <1>4
  <2> QED BY <2>3, <2>4, <2>5
<1> HIDE DEF z
<1>10. /\ z \o Subtree \in Seq(Symbol) /\ Len(z \o Subtree) = Len(z) + 3
       /\ \A i \in 1..Len(z) : (z \o Subtree)[i] = z[i]
       /\ (z \o Subtree)[Len(z) + 1] = Slash /\ (z \o Subtree)[Len(z) + 2] = Star
       /\ (z \o Subtree)[Len(z) + 3] = Star
  BY <1>9, SubtreePlaces
<1> DEFINE v == z \o Subtree
<1> HIDE DEF v
<1>11. /\ v \in Seq(Symbol) /\ Len(v) = n /\ \A i \in 1..(n - 3) : v[i] = p[i]
       /\ v[n - 2] = Slash /\ v[n - 1] = Star /\ v[n] = Star
  <2>1. Len(z) + 3 = n /\ Len(z) + 2 = n - 1 /\ Len(z) + 1 = n - 2 BY <1>4, <1>9
  <2> QED BY <2>1, <1>9, <1>10 DEF v
<1>12. \A i \in 1..n : v[i] = p[i]
  <2> SUFFICES ASSUME NEW i \in 1..n PROVE v[i] = p[i] OBVIOUS
  <2>1. i \in 1..(n - 3) \/ i = n - 2 \/ i = n - 1 \/ i = n BY <1>4, <1>5
  <2> QED BY <2>1, <1>8, <1>11
<1>13. Len(p) = n
  BY DEF n
<1>14. v = p
  BY <1>11, <1>12, <1>13, SeqEqual
<1> QED BY <1>5, <1>9, <1>13, <1>14 DEF v, z

LEMMA BaseOfSubtree ==
    ASSUME NEW z \in Seq(Symbol)
    PROVE  Base(z \o Subtree) = z
<1> DEFINE v == z \o Subtree
           n == Len(z)
           b == SubSeq(v, 1, n)
<1>1. v \in Seq(Symbol) /\ Len(v) = n + 3 /\ \A i \in 1..n : v[i] = z[i]
  BY SubtreePlaces
<1>2. n \in Nat
  OBVIOUS
<1> HIDE DEF v
<1>3. Base(v) = b
  <2>1. Len(v) - 3 = n BY <1>1, <1>2
  <2> QED BY <2>1 DEF Base
<1> HIDE DEF n
<1>4. /\ b \in Seq(Symbol) /\ Len(b) = IF 1 <= n THEN n - 1 + 1 ELSE 0
      /\ \A i \in 1..(n - 1 + 1) : b[i] = v[1 + i - 1]
  <2>1. 1 \in Nat /\ n \in Int /\ 1 <= 1 /\ n <= Len(v) BY <1>1, <1>2
  <2> QED BY <2>1, <1>1, SubSeqTyped
<1> HIDE DEF b
<1>5. Len(b) = n /\ \A i \in 1..n : b[i] = z[i]
  <2>1. Len(b) = n /\ n - 1 + 1 = n BY <1>2, <1>4
  <2>2. \A i \in 1..n : 1 + i - 1 = i BY <1>2
  <2> QED BY <2>1, <2>2, <1>1, <1>4
<1>6. Len(z) = n
  BY DEF n
<1>7. b = z
  BY <1>4, <1>5, <1>6, SeqEqual
<1> QED BY <1>3, <1>7 DEF v

\* One round of Trimmed.
TrimmedTurn(E, q) == IF IsSuffix(Subtree, q) /\ q # Subtree THEN {q} \cup E[Base(q)] ELSE {q}

LEMMA TrimmedRecursion ==
    \A q \in Seq(Symbol) : Trimmed[q] = TrimmedTurn(Trimmed, q)
<1> DEFINE D == Seq(Symbol)
           V == SUBSET Seq(Symbol)
           rank == [p \in D |-> Len(p)]
           Step == [E \in [D -> V] |-> [p \in D |-> TrimmedTurn(E, p)]]
<1>1. rank \in [D -> Nat]
  OBVIOUS
<1>2. ASSUME NEW p \in D, IsSuffix(Subtree, p) PROVE Base(p) \in D /\ rank[Base(p)] < rank[p]
  <2>1. Len(p) >= 3 /\ Base(p) \in Seq(Symbol) /\ Len(Base(p)) = Len(p) - 3 BY <1>2, SubtreeSuffix
  <2> QED BY <2>1
<1>3. ASSUME NEW E \in [D -> V], NEW p \in D PROVE TrimmedTurn(E, p) \in V
  <2>1. CASE IsSuffix(Subtree, p) /\ p # Subtree
    <3>1. E[Base(p)] \in V
      <4> HIDE DEF V, D, rank
      <4> QED BY <2>1, <1>2
    <3>2. TrimmedTurn(E, p) = {p} \cup E[Base(p)] BY <2>1 DEF TrimmedTurn
    <3> QED BY <3>1, <3>2
  <2>2. CASE ~(IsSuffix(Subtree, p) /\ p # Subtree)
    <3>1. TrimmedTurn(E, p) = {p} BY <2>2 DEF TrimmedTurn
    <3> QED BY <3>1
  <2> QED BY <2>1, <2>2
<1>4. Step \in [[D -> V] -> [D -> V]]
  <2> HIDE DEF D, V
  <2> QED BY <1>3
<1>5. ASSUME NEW g \in [D -> V], NEW h \in [D -> V], NEW p \in D,
             \A q \in D : rank[q] < rank[p] => g[q] = h[q]
      PROVE  Step[g][p] = Step[h][p]
  <2>1. TrimmedTurn(g, p) = TrimmedTurn(h, p)
    <3>1. CASE IsSuffix(Subtree, p) /\ p # Subtree
      <4>1. g[Base(p)] = h[Base(p)]
        <5> HIDE DEF D, V, rank
        <5> QED BY <3>1, <1>2, <1>5
      <4> QED BY <4>1, <3>1 DEF TrimmedTurn
    <3>2. CASE ~(IsSuffix(Subtree, p) /\ p # Subtree)
      BY <3>2 DEF TrimmedTurn
    <3> QED BY <3>1, <3>2
  <2> HIDE DEF D, V
  <2> QED BY <2>1
<1>6. PICK f \in [D -> V] : f = Step[f]
  <2>1. \A g, h \in [D -> V] : \A p \in D :
           (\A q \in D : rank[q] < rank[p] => g[q] = h[q]) => Step[g][p] = Step[h][p]
    <3> HIDE DEF D, V, rank, Step
    <3> QED BY <1>5
  <2>2. PICK v \in V : TRUE OBVIOUS
  <2> HIDE DEF D, V, rank, Step
  <2>3. Ranked(D, V, rank, Step) BY <1>1, <1>4, <2>1 DEF Ranked
  <2> QED BY <2>3, Recursion
<1>7. f = [p \in D |-> TrimmedTurn(f, p)]
  <2> HIDE DEF D, V
  <2> QED BY <1>6
<1>8. Trimmed = CHOOSE E : E = [p \in D |-> TrimmedTurn(E, p)]
  BY DEF Trimmed, TrimmedTurn
<1>9. Trimmed = [p \in D |-> TrimmedTurn(Trimmed, p)]
  <2> HIDE DEF D, V
  <2>1. \E E : E = [p \in D |-> TrimmedTurn(E, p)] BY <1>7
  <2> QED BY <2>1, <1>8, Zenon
<1> HIDE DEF D
<1>10. \A p \in D : Trimmed[p] = TrimmedTurn(Trimmed, p)
  BY <1>9
<1> QED BY <1>10 DEF D

LEMMA SubtreeEndsOpen ==
    ASSUME NEW z \in Seq(Symbol)
    PROVE  EndsOpen(z \o Subtree)
<1> DEFINE a == Segments(z)
           x == z \o Subtree
<1>1. Segments(x) = Append(a, Globstar) /\ a \in Seq(Seq(Symbol))
  BY SubtreeSegments, SegmentsTyped
<1> HIDE DEF a, x
<1>2. Globstar \in Seq(Symbol)
  <2>1. Star \in Symbol BY DEF Star, Symbol
  <2> QED BY <2>1 DEF Globstar
<1>3. Grown(Seq(Symbol), a, Globstar, Append(a, Globstar))
  BY <1>1, <1>2, AppendGrows
<1>4. Len(Segments(x)) = Len(a) + 1 /\ Segments(x)[Len(a) + 1] = Globstar
  BY <1>1, <1>3 DEF Grown
<1> QED BY <1>4 DEF EndsOpen, x

\* d is a directory on the way to what g names.
Inside(d, g) == Extends(d, Len(d), g, Len(g)) /\ Len(d) < Len(g) /\ g[Len(d) + 1] = Sep

LEMMA TrimmedBelow ==
    ASSUME NEW d \in Seq(Point), NEW g \in Seq(Point), Inside(d, g), NEW fold, NEW t,
           RegexpMatches(Regexp(t), d, fold, FALSE), NEW z0 \in Seq(Symbol), z0 # <<>>, t \in Trimmed[z0]
    PROVE  RegexpMatches(Regexp(z0 \o Subtree), g, fold, FALSE)
<1> DEFINE S == {k \in Nat : \A z \in Seq(Symbol) : Len(z) = k /\ z # <<>> /\ t \in Trimmed[z] =>
                               RegexpMatches(Regexp(z \o Subtree), g, fold, FALSE)}
<1>1. ASSUME NEW k \in Nat, \A l \in Nat : l < k => l \in S PROVE k \in S
  <2> SUFFICES ASSUME NEW z \in Seq(Symbol), Len(z) = k, z # <<>>, t \in Trimmed[z]
               PROVE  RegexpMatches(Regexp(z \o Subtree), g, fold, FALSE)
    OBVIOUS
  <2>1. CASE t = z
    BY <2>1, Below DEF Inside
  <2>2. CASE t # z
    <3> DEFINE b == Base(z)
    <3>1. Trimmed[z] = TrimmedTurn(Trimmed, z) BY TrimmedRecursion
    <3>2. IsSuffix(Subtree, z) /\ z # Subtree /\ t \in Trimmed[b]
      <4>1. CASE IsSuffix(Subtree, z) /\ z # Subtree
        <5>1. TrimmedTurn(Trimmed, z) = {z} \cup Trimmed[b] BY <4>1, Zenon DEF TrimmedTurn
        <5> QED BY <5>1, <4>1, <3>1, <2>2
      <4>2. CASE ~(IsSuffix(Subtree, z) /\ z # Subtree)
        <5>1. TrimmedTurn(Trimmed, z) = {z} BY <4>2, Zenon DEF TrimmedTurn
        <5> QED BY <5>1, <3>1, <2>2
      <4> QED BY <4>1, <4>2
    <3>3. Len(z) >= 3 /\ b \in Seq(Symbol) /\ Len(b) = Len(z) - 3 /\ z = b \o Subtree
      BY <3>2, SubtreeSuffix
    <3> HIDE DEF b
    <3>4. b # <<>>
      <4>1. Subtree \in Seq(Symbol) BY SubtreeTyped DEF Pattern
      <4>2. <<>> \o Subtree = Subtree BY <4>1, ConcatEmptySeq
      <4> QED BY <4>2, <3>2, <3>3
    <3>5. Len(b) \in Nat /\ Len(b) < k BY <3>3
    <3>6. Len(b) \in S
      <4> HIDE DEF S
      <4> QED BY <3>5, <1>1
    <3>7. RegexpMatches(Regexp(b \o Subtree), g, fold, FALSE) BY <3>2, <3>3, <3>4, <3>6
    <3>8. RegexpMatches(Regexp(z), g, fold, FALSE) BY <3>3, <3>7, Zenon
    <3>9. EndsOpen(z)
      <4>1. EndsOpen(b \o Subtree) BY <3>3, SubtreeEndsOpen
      <4> QED BY <4>1, <3>3, Zenon
    <3>10. Extends(g, Len(g), g, Len(g)) BY DEF Extends
    <3> QED BY <3>8, <3>9, <3>10, Below
  <2> QED BY <2>1, <2>2
<1>2. S = Nat
  <2> HIDE DEF S
  <2>1. S \in SUBSET Nat BY DEF S
  <2> QED BY <1>1, <2>1, Induction
<1>3. Len(z0) \in S
  <2> HIDE DEF S
  <2>1. Len(z0) \in Nat OBVIOUS
  <2> QED BY <2>1, <1>2
<1> QED BY <1>3

LEMMA TrimmedOnward ==
    ASSUME NEW d \in Seq(Point), NEW g \in Seq(Point), Inside(d, g), NEW fold, NEW t,
           RegexpMatches(Regexp(t), d, fold, FALSE), NEW z \in Seq(Symbol), z # <<>>, t \in Trimmed[z \o Subtree]
    PROVE  RegexpMatches(Regexp(z \o Subtree), g, fold, FALSE)
<1> DEFINE x == z \o Subtree
<1>1. x \in Seq(Symbol) /\ Base(x) = z /\ EndsOpen(x)
  BY SubtreePlaces, BaseOfSubtree, SubtreeEndsOpen
<1>2. t \in Trimmed[x]
  OBVIOUS
<1> HIDE DEF x
<1>3. Trimmed[x] = TrimmedTurn(Trimmed, x)
  BY <1>1, TrimmedRecursion
<1>4. TrimmedTurn(Trimmed, x) \subseteq {x} \cup Trimmed[z]
  <2>1. CASE IsSuffix(Subtree, x) /\ x # Subtree
    <3>1. TrimmedTurn(Trimmed, x) = {x} \cup Trimmed[Base(x)] BY <2>1, Zenon DEF TrimmedTurn
    <3> QED BY <3>1, <1>1
  <2>2. CASE ~(IsSuffix(Subtree, x) /\ x # Subtree)
    <3>1. TrimmedTurn(Trimmed, x) = {x} BY <2>2, Zenon DEF TrimmedTurn
    <3> QED BY <3>1
  <2> QED BY <2>1, <2>2
<1>5. CASE t = x
  BY <1>1, <1>5, Onward DEF Inside, x
<1>6. CASE t \in Trimmed[z]
  BY <1>6, TrimmedBelow
<1> QED BY <1>2, <1>3, <1>4, <1>5, <1>6

-----------------------------------------------------------------------------
(* The wildcard for all below goes with every alternative of a pattern. *)

LEMMA SubSeqOfSubtree ==
    ASSUME NEW p \in Seq(Symbol), NEW a \in Nat, NEW b \in Int, 1 <= a, b <= Len(p)
    PROVE  SubSeq(p \o Subtree, a, b) = SubSeq(p, a, b) /\ SubSeq(p, a, b) \in Seq(Symbol)
<1> DEFINE P == p \o Subtree
           u == SubSeq(p, a, b)
           v == SubSeq(P, a, b)
           n == Len(p)
<1>1. P \in Seq(Symbol) /\ Len(P) = n + 3 /\ \A i \in 1..n : P[i] = p[i]
  BY SubtreePlaces
<1>2. n \in Nat /\ b <= n
  OBVIOUS
<1> HIDE DEF P
<1>3. /\ u \in Seq(Symbol) /\ Len(u) = IF a <= b THEN b - a + 1 ELSE 0
      /\ \A i \in 1..(b - a + 1) : u[i] = p[a + i - 1]
  BY SubSeqTyped
<1> HIDE DEF n
<1>4. /\ v \in Seq(Symbol) /\ Len(v) = IF a <= b THEN b - a + 1 ELSE 0
      /\ \A i \in 1..(b - a + 1) : v[i] = P[a + i - 1]
  <2>1. b <= Len(P) BY <1>1, <1>2
  <2> QED BY <2>1, <1>1, SubSeqTyped
<1> HIDE DEF u, v
<1>5. Len(u) = Len(v)
  BY <1>3, <1>4
<1>6. \A i \in 1..Len(u) : u[i] = v[i]
  <2> SUFFICES ASSUME NEW i \in 1..Len(u) PROVE u[i] = v[i] OBVIOUS
  <2>1. i \in 1..(b - a + 1) /\ a + i - 1 \in 1..n
    <3>1. CASE a <= b
      <4>1. Len(u) = b - a + 1 BY <3>1, <1>3
      <4> QED BY <4>1, <3>1, <1>2
    <3>2. CASE ~(a <= b) BY <3>2, <1>3
    <3> QED BY <3>1, <3>2
  <2> QED BY <2>1, <1>1, <1>3, <1>4
<1>7. u = v
  BY <1>3, <1>4, <1>5, <1>6, SeqEqual
<1> QED BY <1>3, <1>7 DEF u, v, P

LEMMA OpenOfSubtree ==
    ASSUME NEW p \in Seq(Symbol)
    PROVE  FirstOpen(p \o Subtree) = FirstOpen(p)
<1> DEFINE P == p \o Subtree
           n == Len(p)
           j == FirstOpen(p)
           k == FirstOpen(P)
<1>1. /\ P \in Seq(Symbol) /\ Len(P) = n + 3 /\ \A i \in 1..n : P[i] = p[i]
      /\ P[n + 1] = Slash /\ P[n + 2] = Star /\ P[n + 3] = Star
  BY SubtreePlaces
<1>2. n \in Nat /\ Open # Slash /\ Open # Star
  BY DEF Open, Slash, Star
<1> HIDE DEF P
<1>3. /\ j = 0 => \A i \in 1..n : p[i] # Open
      /\ j # 0 => /\ j \in 1..n /\ p[j] = Open
                  /\ \A i \in 1..(j - 1) : p[i] # Open
  BY FirstOpenPlace
<1>4. /\ k = 0 => \A i \in 1..(n + 3) : P[i] # Open
      /\ k # 0 => /\ k \in 1..(n + 3) /\ P[k] = Open
                  /\ \A i \in 1..(k - 1) : P[i] # Open
  <2>1. /\ k = 0 => \A i \in 1..Len(P) : P[i] # Open
        /\ k # 0 => /\ k \in 1..Len(P) /\ P[k] = Open
                    /\ \A i \in 1..(k - 1) : P[i] # Open
    BY <1>1, FirstOpenPlace
  <2> QED BY <2>1, <1>1
<1> HIDE DEF n, j, k
<1>5. CASE k = 0
  <2>1. ASSUME j # 0 PROVE FALSE
    <3>1. j \in 1..n /\ j \in 1..(n + 3) /\ p[j] = Open BY <2>1, <1>2, <1>3
    <3> QED BY <3>1, <1>1, <1>4, <1>5
  <2> QED BY <2>1, <1>5 DEF j, k, P
<1>6. CASE k # 0
  <2>1. k \in 1..n /\ p[k] = Open
    <3>1. k # n + 1 /\ k # n + 2 /\ k # n + 3 BY <1>1, <1>2, <1>4, <1>6
    <3>2. k \in 1..n BY <3>1, <1>2, <1>4, <1>6
    <3> QED BY <3>2, <1>1, <1>4, <1>6
  <2>2. j # 0 BY <2>1, <1>3
  <2>3. ~(j < k)
    <3> SUFFICES ASSUME j < k PROVE FALSE OBVIOUS
    <3>1. j \in 1..(k - 1) /\ j \in 1..n BY <2>1, <2>2, <1>2, <1>3
    <3> QED BY <3>1, <2>2, <1>1, <1>3, <1>4, <1>6
  <2>4. ~(k < j)
    <3> SUFFICES ASSUME k < j PROVE FALSE OBVIOUS
    <3>1. k \in 1..(j - 1) BY <2>1, <2>2, <1>2, <1>3
    <3> QED BY <3>1, <2>1, <2>2, <1>3
  <2>5. j \in Nat /\ k \in Nat BY <2>1, <2>2, <1>2, <1>3
  <2>6. j = k BY <2>3, <2>4, <2>5
  <2> QED BY <2>6 DEF j, k, P
<1> QED BY <1>5, <1>6

LEMMA DepthOfSubtree ==
    ASSUME NEW p \in Seq(Symbol), NEW o \in 1..Len(p)
    PROVE  /\ \A i \in 1..Len(p) : Depth(p \o Subtree, o, i) = Depth(p, o, i)
           /\ \A i \in (Len(p) + 1)..(Len(p) + 3) : Depth(p \o Subtree, o, i) = Depth(p, o, Len(p))
<1> DEFINE P == p \o Subtree
           n == Len(p)
<1>1. /\ P \in Seq(Symbol) /\ Len(P) = n + 3 /\ \A i \in 1..n : P[i] = p[i]
      /\ P[n + 1] = Slash /\ P[n + 2] = Star /\ P[n + 3] = Star
  BY SubtreePlaces
<1>2. n \in Nat /\ Open # Slash /\ Open # Star /\ Close # Slash /\ Close # Star /\ o \in 1..n
  BY DEF Open, Close, Slash, Star
<1> HIDE DEF P, n
<1>3. ASSUME NEW i \in 1..n PROVE Depth(P, o, i) = Depth(p, o, i)
  <2>1. \A k \in o..i : P[k] = p[k] BY <1>1, <1>2
  <2>2. /\ {k \in o..i : P[k] = Open} = {k \in o..i : p[k] = Open}
        /\ {k \in o..i : P[k] = Close} = {k \in o..i : p[k] = Close}
    BY <2>1
  <2> QED BY <2>2, Zenon DEF Depth
<1>4. ASSUME NEW i \in (n + 1)..(n + 3) PROVE Depth(P, o, i) = Depth(p, o, n)
  <2>1. \A k \in o..i : (k \in o..n /\ P[k] = p[k]) \/ P[k] \in {Slash, Star}
    <3> SUFFICES ASSUME NEW k \in o..i PROVE (k \in o..n /\ P[k] = p[k]) \/ P[k] \in {Slash, Star}
      OBVIOUS
    <3>1. (k \in 1..n /\ k \in o..n) \/ k = n + 1 \/ k = n + 2 \/ k = n + 3 BY <1>2
    <3> QED BY <3>1, <1>1
  <2>2. \A k \in o..n : k \in o..i /\ P[k] = p[k] BY <1>1, <1>2
  <2>3. /\ {k \in o..i : P[k] = Open} = {k \in o..n : p[k] = Open}
        /\ {k \in o..i : P[k] = Close} = {k \in o..n : p[k] = Close}
    BY <2>1, <2>2, <1>2
  <2> QED BY <2>3, Zenon DEF Depth
<1> QED BY <1>3, <1>4 DEF P, n

LEMMA EndsOfSubtree ==
    ASSUME NEW p \in Seq(Symbol), FirstOpen(p) # 0
    PROVE  /\ Ends(p) = {} => Ends(p \o Subtree) = {}
           /\ Ends(p) # {} => /\ Ends(p \o Subtree) # {} /\ Min(Ends(p \o Subtree)) = Min(Ends(p))
                              /\ Min(Ends(p)) \in FirstOpen(p)..Len(p)
<1> DEFINE P == p \o Subtree
           n == Len(p)
           o == FirstOpen(p)
           E == Ends(p)
           F == Ends(P)
<1>1. P \in Seq(Symbol) /\ Len(P) = n + 3 /\ FirstOpen(P) = o
  BY SubtreePlaces, OpenOfSubtree
<1>2. n \in Nat /\ o \in 1..n
  BY FirstOpenPlace
<1>3. /\ \A i \in 1..n : Depth(P, o, i) = Depth(p, o, i)
      /\ \A i \in (n + 1)..(n + 3) : Depth(P, o, i) = Depth(p, o, n)
  BY <1>2, DepthOfSubtree
<1>4. E = {i \in o..n : Depth(p, o, i) = 0}
  BY DEF Ends
<1>5. F = {i \in o..(n + 3) : Depth(P, o, i) = 0}
  <2>1. F = {i \in FirstOpen(P)..Len(P) : Depth(P, FirstOpen(P), i) = 0} BY DEF Ends
  <2> HIDE DEF P, F
  <2> QED BY <1>1, <2>1
<1> HIDE DEF P, n, o, E, F
<1>6. E \subseteq F /\ \A i \in F : i \in E \/ (n < i /\ n \in E)
  <2>1. E \subseteq F
    <3>1. \A i \in E : i \in 1..n /\ i \in o..(n + 3) BY <1>2, <1>4
    <3> QED BY <3>1, <1>3, <1>4, <1>5
  <2>2. ASSUME NEW i \in F PROVE i \in E \/ (n < i /\ n \in E)
    <3>1. i \in o..(n + 3) /\ Depth(P, o, i) = 0 BY <1>5
    <3>2. CASE i \in 1..n
      <4>1. i \in o..n BY <3>1, <3>2, <1>2
      <4> QED BY <4>1, <3>1, <3>2, <1>3, <1>4
    <3>3. CASE i \in (n + 1)..(n + 3)
      <4>1. n < i /\ n \in o..n BY <3>3, <1>2
      <4> QED BY <4>1, <3>1, <3>3, <1>3, <1>4
    <3>4. i \in 1..n \/ i \in (n + 1)..(n + 3) BY <3>1, <1>2
    <3> QED BY <3>2, <3>3, <3>4
  <2> QED BY <2>1, <2>2
<1>7. E \in SUBSET Nat /\ F \in SUBSET Nat /\ E \subseteq o..n
  BY <1>2, <1>4, <1>5
<1>8. E = {} => F = {}
  BY <1>6
<1>9. ASSUME E # {} PROVE F # {} /\ Min(F) = Min(E) /\ Min(E) \in o..n
  <2>1. F # {} BY <1>9, <1>6
  <2>2. Min(E) \in E /\ \A k \in E : Min(E) <= k BY <1>7, <1>9, MinOf
  <2>3. Min(F) \in F /\ \A k \in F : Min(F) <= k BY <1>7, <2>1, MinOf
  <2> DEFINE d == Min(E)
             e == Min(F)
  <2>4. d \in Nat /\ e \in Nat /\ d \in E /\ e \in F /\ e <= d
    BY <2>2, <2>3, <1>6, <1>7
  <2>5. e \in E => d <= e BY <2>2
  <2>6. n \in E => d <= n BY <2>2
  <2> HIDE DEF d, e
  <2>7. d <= e
    <3>1. e \in E \/ (n < e /\ n \in E) BY <2>4, <1>6
    <3> QED BY <3>1, <2>4, <2>5, <2>6, <1>2
  <2>8. d = e BY <2>4, <2>7
  <2>9. d \in o..n BY <2>4, <1>7
  <2> QED BY <2>1, <2>8, <2>9 DEF d, e
<1> QED BY <1>8, <1>9 DEF E, F, o, n, P

LEMMA PiecesOfSubtree ==
    ASSUME NEW p \in Seq(Symbol), NEW o \in 1..Len(p), NEW c \in o..Len(p)
    PROVE  /\ Pieces(p \o Subtree, Cuts(p \o Subtree, o, c)) = Pieces(p, Cuts(p, o, c))
           /\ Pieces(p, Cuts(p, o, c)) \subseteq Seq(Symbol)
<1> DEFINE P == p \o Subtree
           n == Len(p)
           K == Cuts(p, o, c)
<1>1. n \in Nat /\ o \in 1..n /\ c \in o..n /\ \A i \in 1..n : P[i] = p[i]
  BY SubtreePlaces
<1>2. \A i \in 1..n : Depth(P, o, i) = Depth(p, o, i)
  BY DepthOfSubtree
<1>3. \A a \in Nat : \A b \in Int : 1 <= a /\ b <= n => SubSeq(P, a, b) = SubSeq(p, a, b) /\ SubSeq(p, a, b) \in Seq(Symbol)
  BY SubSeqOfSubtree
<1> HIDE DEF P, n
<1>4. Cuts(P, o, c) = K /\ K \subseteq o..n
  <2>1. \A i \in (o + 1)..(c - 1) : i \in 1..n /\ i \in o..n BY <1>1
  <2>2. {i \in (o + 1)..(c - 1) : P[i] = Comma /\ Depth(P, o, i) = 1}
          = {i \in (o + 1)..(c - 1) : p[i] = Comma /\ Depth(p, o, i) = 1}
    BY <2>1, <1>1, <1>2
  <2>3. o \in o..n /\ c \in o..n BY <1>1
  <2> QED BY <2>1, <2>2, <2>3 DEF Cuts
<1> HIDE DEF K
<1> DEFINE D == {d \in K \X K : d[1] < d[2] /\ \A k \in K : k <= d[1] \/ d[2] <= k}
<1>5. \A d \in D : SubSeq(P, d[1] + 1, d[2] - 1) = SubSeq(p, d[1] + 1, d[2] - 1)
                   /\ SubSeq(p, d[1] + 1, d[2] - 1) \in Seq(Symbol)
  <2> SUFFICES ASSUME NEW d \in D
               PROVE  SubSeq(P, d[1] + 1, d[2] - 1) = SubSeq(p, d[1] + 1, d[2] - 1)
                      /\ SubSeq(p, d[1] + 1, d[2] - 1) \in Seq(Symbol)
    OBVIOUS
  <2>1. d[1] \in o..n /\ d[2] \in o..n BY <1>4
  <2> DEFINE a == d[1] + 1
             b == d[2] - 1
  <2>2. a \in Nat /\ b \in Int /\ 1 <= a /\ b <= n BY <2>1, <1>1
  <2> HIDE DEF a, b
  <2>3. SubSeq(P, a, b) = SubSeq(p, a, b) /\ SubSeq(p, a, b) \in Seq(Symbol) BY <2>2, <1>3
  <2> QED BY <2>3 DEF a, b
<1> HIDE DEF D
<1>6. {SubSeq(P, d[1] + 1, d[2] - 1) : d \in D} = {SubSeq(p, d[1] + 1, d[2] - 1) : d \in D}
      /\ {SubSeq(p, d[1] + 1, d[2] - 1) : d \in D} \subseteq Seq(Symbol)
  BY <1>5
<1>7. Pieces(P, K) = {SubSeq(P, d[1] + 1, d[2] - 1) : d \in D}
      /\ Pieces(p, K) = {SubSeq(p, d[1] + 1, d[2] - 1) : d \in D}
  BY DEF Pieces, D
<1> QED BY <1>4, <1>6, <1>7 DEF P, K

LEMMA TailOfSubtree ==
    ASSUME NEW p \in Seq(Symbol), NEW c \in 0..Len(p)
    PROVE  /\ SubSeq(p \o Subtree, c + 1, Len(p \o Subtree)) = SubSeq(p, c + 1, Len(p)) \o Subtree
           /\ SubSeq(p, c + 1, Len(p)) \in Seq(Symbol)
<1> DEFINE P == p \o Subtree
           n == Len(p)
           t == SubSeq(p, c + 1, n)
           v == SubSeq(P, c + 1, n + 3)
           u == t \o Subtree
<1>1. /\ P \in Seq(Symbol) /\ Len(P) = n + 3 /\ \A i \in 1..n : P[i] = p[i]
      /\ P[n + 1] = Slash /\ P[n + 2] = Star /\ P[n + 3] = Star
  BY SubtreePlaces
<1>2. n \in Nat /\ c \in 0..n
  OBVIOUS
<1>3. /\ t \in Seq(Symbol) /\ Len(t) = IF c + 1 <= n THEN n - (c + 1) + 1 ELSE 0
      /\ \A i \in 1..(n - (c + 1) + 1) : t[i] = p[(c + 1) + i - 1]
  <2>1. c + 1 \in Nat /\ n \in Int /\ 1 <= c + 1 /\ n <= Len(p) BY <1>2
  <2> HIDE DEF n
  <2> QED BY <2>1, SubSeqTyped
<1> HIDE DEF P, t
<1>4. /\ v \in Seq(Symbol) /\ Len(v) = IF c + 1 <= n + 3 THEN (n + 3) - (c + 1) + 1 ELSE 0
      /\ \A i \in 1..((n + 3) - (c + 1) + 1) : v[i] = P[(c + 1) + i - 1]
  <2>1. c + 1 \in Nat /\ n + 3 \in Int /\ 1 <= c + 1 /\ n + 3 <= Len(P) BY <1>1, <1>2
  <2> HIDE DEF n
  <2> QED BY <2>1, <1>1, SubSeqTyped
<1> DEFINE m == Len(t)
<1>5. /\ u \in Seq(Symbol) /\ Len(u) = m + 3 /\ \A i \in 1..m : u[i] = t[i]
      /\ u[m + 1] = Slash /\ u[m + 2] = Star /\ u[m + 3] = Star
  BY <1>3, SubtreePlaces
<1> HIDE DEF v, u, n
<1>6. m = n - c /\ Len(v) = m + 3 /\ m \in Nat
  BY <1>2, <1>3, <1>4
<1> HIDE DEF m
<1>7. \A i \in 1..m : t[i] = p[c + i] /\ c + i \in 1..n
  <2> SUFFICES ASSUME NEW i \in 1..m PROVE t[i] = p[c + i] /\ c + i \in 1..n OBVIOUS
  <2>1. i \in 1..(n - (c + 1) + 1) /\ (c + 1) + i - 1 = c + i /\ c + i \in 1..n BY <1>2, <1>6
  <2> QED BY <2>1, <1>3
<1>8. \A i \in 1..(m + 3) : v[i] = P[c + i]
  <2> SUFFICES ASSUME NEW i \in 1..(m + 3) PROVE v[i] = P[c + i] OBVIOUS
  <2>1. i \in 1..((n + 3) - (c + 1) + 1) /\ (c + 1) + i - 1 = c + i BY <1>2, <1>6
  <2> QED BY <2>1, <1>4
<1>9. \A i \in 1..(m + 3) : v[i] = u[i]
  <2> SUFFICES ASSUME NEW i \in 1..(m + 3) PROVE v[i] = u[i] OBVIOUS
  <2>1. CASE i \in 1..m BY <2>1, <1>1, <1>5, <1>7, <1>8
  <2>2. CASE i = m + 1
    <3>1. c + i = n + 1 BY <2>2, <1>2, <1>6
    <3> QED BY <3>1, <2>2, <1>1, <1>5, <1>8
  <2>3. CASE i = m + 2
    <3>1. c + i = n + 2 BY <2>3, <1>2, <1>6
    <3> QED BY <3>1, <2>3, <1>1, <1>5, <1>8
  <2>4. CASE i = m + 3
    <3>1. c + i = n + 3 BY <2>4, <1>2, <1>6
    <3> QED BY <3>1, <2>4, <1>1, <1>5, <1>8
  <2>5. i \in 1..m \/ i = m + 1 \/ i = m + 2 \/ i = m + 3 BY <1>6
  <2> QED BY <2>1, <2>2, <2>3, <2>4, <2>5
<1>10. v = u
  <2>1. Len(v) = Len(u) /\ \A i \in 1..Len(v) : v[i] = u[i] BY <1>5, <1>6, <1>9
  <2> QED BY <2>1, <1>4, <1>5, SeqEqual
<1> QED BY <1>1, <1>3, <1>10 DEF v, u, P, n, t

\* The wildcard at the end of the last part is at the end of the whole.
LEMMA ConcatSubtree ==
    ASSUME NEW s \in Seq(Symbol), NEW t \in Seq(Symbol)
    PROVE  s \o (t \o Subtree) = (s \o t) \o Subtree
<1> DEFINE u == Subtree
<1>1. u \in Seq(Symbol)
  BY SubtreeTyped DEF Pattern
<1> HIDE DEF u
<1>2. (s \o t) \o u = s \o (t \o u)
  BY <1>1, ConcatAssociative
<1> QED BY <1>2 DEF u

LEMMA AlternativesOfSubtree ==
    ASSUME NEW p \in Seq(Symbol), FirstOpen(p) # 0, Ends(p) # {}
    PROVE  Alternatives(p \o Subtree) = {z \o Subtree : z \in Alternatives(p)}
<1> DEFINE P == p \o Subtree
           n == Len(p)
           o == FirstOpen(p)
           c == Min(Ends(p))
           B == Pieces(p, Cuts(p, o, c))
           head == SubSeq(p, 1, o - 1)
           tail == SubSeq(p, c + 1, n)
<1>1. FirstOpen(P) = o /\ Min(Ends(P)) = c /\ c \in o..n /\ o \in 1..n /\ n \in Nat
  BY OpenOfSubtree, EndsOfSubtree, FirstOpenPlace
<1>2. Alternatives(p) = {head \o body \o tail : body \in B}
  BY Zenon DEF Alternatives
<1>3. Alternatives(P) = {SubSeq(P, 1, FirstOpen(P) - 1) \o body \o SubSeq(P, Min(Ends(P)) + 1, Len(P)) :
                          body \in Pieces(P, Cuts(P, FirstOpen(P), Min(Ends(P))))}
  BY Zenon DEF Alternatives
<1> HIDE DEF o, c
<1>4. Pieces(P, Cuts(P, o, c)) = B /\ B \subseteq Seq(Symbol)
  BY <1>1, PiecesOfSubtree
<1>5. SubSeq(P, 1, o - 1) = head /\ head \in Seq(Symbol)
  <2>1. 1 \in Nat /\ o - 1 \in Int /\ 1 <= 1 /\ o - 1 <= n BY <1>1
  <2> QED BY <2>1, SubSeqOfSubtree
<1>6. SubSeq(P, c + 1, Len(P)) = tail \o Subtree /\ tail \in Seq(Symbol)
  <2>1. c \in 0..n BY <1>1
  <2> QED BY <2>1, TailOfSubtree
<1> HIDE DEF P, B, head, tail
<1>7. Alternatives(P) = {head \o body \o (tail \o Subtree) : body \in B}
  BY <1>1, <1>3, <1>4, <1>5, <1>6
<1>8. \A body \in B : head \o body \o (tail \o Subtree) = (head \o body \o tail) \o Subtree
  <2> SUFFICES ASSUME NEW body \in B
               PROVE  head \o body \o (tail \o Subtree) = (head \o body \o tail) \o Subtree
    OBVIOUS
  <2> DEFINE hb == head \o body
  <2>1. hb \in Seq(Symbol) BY <1>4, <1>5, ConcatProperties
  <2> HIDE DEF hb
  <2>2. hb \o (tail \o Subtree) = (hb \o tail) \o Subtree BY <2>1, <1>6, ConcatSubtree
  <2> QED BY <2>2 DEF hb
<1>9. {head \o body \o (tail \o Subtree) : body \in B} = {(head \o body \o tail) \o Subtree : body \in B}
  BY <1>8
<1>10. {z \o Subtree : z \in {head \o body \o tail : body \in B}} = {(head \o body \o tail) \o Subtree : body \in B}
  BY Zenon
<1> QED BY <1>2, <1>7, <1>9, <1>10 DEF P

\* The wildcard for all below goes with every alternative.
LEMMA SubtreeBraces ==
    ASSUME NEW r \in Seq(Symbol)
    PROVE  ExpandBraces[r \o Subtree] = {z \o Subtree : z \in ExpandBraces[r]}
<1> DEFINE All(p) == {z \o Subtree : z \in ExpandBraces[p]}
           S == {k \in Nat : \A p \in Seq(Symbol) : Len(p) = k => ExpandBraces[p \o Subtree] = All(p)}
<1>1. ASSUME NEW k \in Nat, \A l \in Nat : l < k => l \in S PROVE k \in S
  <2> SUFFICES ASSUME NEW p \in Seq(Symbol), Len(p) = k PROVE ExpandBraces[p \o Subtree] = All(p)
    OBVIOUS
  <2> DEFINE P == p \o Subtree
  <2>1. P \in Seq(Symbol) /\ FirstOpen(P) = FirstOpen(p)
    BY SubtreePlaces, OpenOfSubtree
  <2> HIDE DEF P
  <2>2. /\ ExpandBraces[p] = Expansion(ExpandBraces, p)
        /\ ExpandBraces[P] = Expansion(ExpandBraces, P)
    BY <2>1, ExpandBracesRecursion
  <2>3. CASE FirstOpen(p) = 0
    <3>1. ExpandBraces[p] = {p} /\ ExpandBraces[P] = {P} BY <2>1, <2>2, <2>3, ExpansionAlternatives
    <3>2. ExpandBraces[P] = All(p) BY <3>1 DEF P
    <3> QED BY <3>2 DEF P
  <2>4. CASE FirstOpen(p) # 0 /\ Ends(p) = {}
    <3>1. Ends(P) = {} BY <2>4, EndsOfSubtree DEF P
    <3>2. ExpandBraces[p] = {} /\ ExpandBraces[P] = {}
      BY <3>1, <2>1, <2>2, <2>4, ExpansionAlternatives
    <3>3. ExpandBraces[P] = All(p) BY <3>2
    <3> QED BY <3>3 DEF P
  <2>5. CASE FirstOpen(p) # 0 /\ Ends(p) # {}
    <3> DEFINE A == Alternatives(p)
    <3>1. Ends(P) # {} /\ Alternatives(P) = {z \o Subtree : z \in A}
      BY <2>5, EndsOfSubtree, AlternativesOfSubtree DEF P
    <3>2. ExpandBraces[p] = UNION {ExpandBraces[q] : q \in A}
      BY <2>2, <2>5, ExpansionAlternatives
    <3>3. ExpandBraces[P] = UNION {ExpandBraces[q] : q \in Alternatives(P)}
      BY <2>1, <2>2, <2>5, <3>1, ExpansionAlternatives
    <3>4. \A q \in A : ExpandBraces[q \o Subtree] = All(q)
      <4> SUFFICES ASSUME NEW q \in A PROVE ExpandBraces[q \o Subtree] = All(q)
        OBVIOUS
      <4>1. q \in Seq(Symbol) /\ Len(q) < Len(p) BY <2>5, AlternativesShorter
      <4>2. Len(q) \in Nat /\ Len(q) < k BY <4>1
      <4>3. Len(q) \in S
        <5> HIDE DEF S
        <5> QED BY <4>2, <1>1
      <4> HIDE DEF All
      <4> QED BY <4>1, <4>3
    <3> HIDE DEF A
    <3>5. UNION {ExpandBraces[q] : q \in {z \o Subtree : z \in A}} = UNION {ExpandBraces[q \o Subtree] : q \in A}
      BY Zenon
    <3>6. UNION {ExpandBraces[q \o Subtree] : q \in A} = UNION {All(q) : q \in A}
      <4> HIDE DEF All
      <4> QED BY <3>4
    <3>7. UNION {All(q) : q \in A} = {z \o Subtree : z \in UNION {ExpandBraces[q] : q \in A}}
      <4> DEFINE L == UNION {All(q) : q \in A}
                 R == {z \o Subtree : z \in UNION {ExpandBraces[q] : q \in A}}
      <4>1. ASSUME NEW x \in L PROVE x \in R
        <5>1. PICK q \in A : x \in All(q) OBVIOUS
        <5>2. PICK z \in ExpandBraces[q] : x = z \o Subtree BY <5>1
        <5> QED BY <5>1, <5>2
      <4>2. ASSUME NEW x \in R PROVE x \in L
        <5>1. PICK z \in UNION {ExpandBraces[q] : q \in A} : x = z \o Subtree OBVIOUS
        <5>2. PICK q \in A : z \in ExpandBraces[q] OBVIOUS
        <5>3. x \in All(q) BY <5>1, <5>2
        <5> QED BY <5>3
      <4> HIDE DEF L, R
      <4>3. L = R BY <4>1, <4>2
      <4> QED BY <4>3 DEF L, R
    <3>8. ExpandBraces[P] = All(p)
      BY <3>1, <3>2, <3>3, <3>5, <3>6, <3>7
    <3> QED BY <3>8 DEF P
  <2> QED BY <2>3, <2>4, <2>5
<1>2. S = Nat
  <2> HIDE DEF S
  <2>1. S \in SUBSET Nat BY DEF S
  <2> QED BY <1>1, <2>1, Induction
<1>3. Len(r) \in S
  <2> HIDE DEF S
  <2>1. Len(r) \in Nat OBVIOUS
  <2> QED BY <2>1, <1>2
<1> HIDE DEF All
<1>4. ExpandBraces[r \o Subtree] = All(r)
  BY <1>3
<1> QED BY <1>4 DEF All

-----------------------------------------------------------------------------
(* What one side owns, its pattern or the pattern with the wildcard behind it matches. *)

LEMMA NothingHasEmptySegment ==
    <<>> \in ToSet(Segments(<<>>)) /\ <<>> \in ToSet(Segments(Subtree))
<1> DEFINE e == << <<>> >>
           a == Segments(<<>>)
           V == {e}
<1>1. PICK f : SplitRounds(V, <<>>, 0, f)
  <2>1. DOMAIN <<>> = 1..0 /\ 0 \in Nat /\ << <<>> >> \in V OBVIOUS
  <2>2. \A out \in V : \A k \in 1..0 : Split(out, <<>>[k]) \in V OBVIOUS
  <2> HIDE DEF V
  <2> QED BY <2>1, <2>2, SplitFold
<1>2. a = e
  BY <1>1 DEF SplitRounds, Segments
<1> HIDE DEF a
<1>3. a \in Seq(Seq(Symbol)) /\ Len(a) = 1 /\ a[1] = <<>> /\ DOMAIN a = 1..1
  BY <1>2
<1>4. <<>> \in ToSet(a)
  BY <1>3 DEF ToSet
<1>5. Subtree = <<>> \o Subtree /\ <<>> \in Seq(Symbol)
  BY SubtreeTyped, ConcatEmptySeq DEF Pattern
<1>6. Segments(Subtree) = Append(a, Globstar)
  <2>1. Segments(<<>> \o Subtree) = Append(Segments(<<>>), Globstar) BY <1>5, SubtreeSegments
  <2> QED BY <2>1, <1>5 DEF a
<1> DEFINE b == Append(a, Globstar)
<1>7. Globstar \in Seq(Symbol)
  <2>1. Star \in Symbol BY DEF Star, Symbol
  <2> QED BY <2>1 DEF Globstar
<1>8. Grown(Seq(Symbol), a, Globstar, b)
  BY <1>3, <1>7, AppendGrows
<1> HIDE DEF b
<1>9. b[1] = <<>> /\ 1 \in DOMAIN b
  BY <1>3, <1>8 DEF Grown
<1>10. <<>> \in ToSet(b)
  BY <1>9 DEF ToSet
<1> QED BY <1>4, <1>6, <1>10 DEF a, b

LEMMA StarsApartSubtree ==
    ASSUME NEW z \in Seq(Symbol), StarsApart(z)
    PROVE  StarsApart(z \o Subtree)
<1> DEFINE a == Segments(z)
           b == Append(a, Globstar)
<1>1. a \in Seq(Seq(Symbol)) /\ Segments(z \o Subtree) = b
  BY SegmentsTyped, SubtreeSegments
<1>2. Globstar \in Seq(Symbol)
  <2>1. Star \in Symbol BY DEF Star, Symbol
  <2> QED BY <2>1 DEF Globstar
<1> HIDE DEF a
<1>3. Grown(Seq(Symbol), a, Globstar, b)
  BY <1>1, <1>2, AppendGrows
<1> HIDE DEF b
<1>4. \A s \in ToSet(b) : s = Globstar \/ s \in ToSet(a)
  <2> SUFFICES ASSUME NEW s \in ToSet(b) PROVE s = Globstar \/ s \in ToSet(a) OBVIOUS
  <2>1. b \in Seq(Seq(Symbol)) /\ Len(b) = Len(a) + 1 /\ b[Len(a) + 1] = Globstar /\ \A i \in 1..Len(a) : b[i] = a[i]
    BY <1>3 DEF Grown
  <2>2. DOMAIN b = 1..(Len(a) + 1) /\ DOMAIN a = 1..Len(a) /\ Len(a) \in Nat BY <1>1, <2>1
  <2>3. PICK i \in 1..(Len(a) + 1) : s = b[i] BY <2>2 DEF ToSet
  <2>4. CASE i = Len(a) + 1 BY <2>1, <2>3, <2>4
  <2>5. CASE i \in 1..Len(a)
    <3>1. s = a[i] /\ i \in DOMAIN a BY <2>1, <2>2, <2>3, <2>5
    <3> QED BY <3>1 DEF ToSet
  <2> QED BY <2>2, <2>3, <2>4, <2>5
<1> QED BY <1>1, <1>4 DEF StarsApart, a

\* What NormalizePattern and PatternToRegExp let through.
Readable(p) == Compiles(p) /\ \A q \in ExpandBraces[p] : <<>> \notin ToSet(Segments(q))

\* The pattern, or the pattern with the wildcard behind it, matches the name.
Reaches(p, g, fold) ==
    \E w \in WithSubtree(p) : \E x \in ExpandBraces[w] :
        x \in Seq(Symbol) /\ StarsApart(x) /\ RegexpMatches(Regexp(x), g, fold, FALSE)

LEMMA ReachesBelow ==
    ASSUME NEW p \in Seq(Symbol), Readable(p), NEW q \in ExpandBraces[p], NEW t \in Trimmed[q],
           NEW d \in Seq(Point), NEW g \in Seq(Point), Inside(d, g), NEW fold,
           RegexpMatches(Regexp(t), d, fold, FALSE)
    PROVE  Reaches(p, g, fold)
<1>1. q \in Seq(Symbol)
  BY ExpandBracesRecursion
<1>2. StarsApart(q) /\ <<>> \notin ToSet(Segments(q))
  BY Zenon DEF Readable, Compiles, StarsApart
<1>3. CASE IsSuffix(Subtree, p)
  <2> DEFINE r == Base(p)
  <2>1. r \in Seq(Symbol) /\ p = r \o Subtree BY <1>3, SubtreeSuffix
  <2> HIDE DEF r
  <2>2. q \in {z \o Subtree : z \in ExpandBraces[r]} BY <2>1, SubtreeBraces
  <2>3. PICK z \in ExpandBraces[r] : q = z \o Subtree BY <2>2
  <2>4. z \in Seq(Symbol) BY <2>1, ExpandBracesRecursion
  <2>5. z # <<>>
    <3> SUFFICES ASSUME z = <<>> PROVE FALSE OBVIOUS
    <3>1. <<>> \o Subtree = Subtree BY SubtreeTyped, ConcatEmptySeq DEF Pattern
    <3>2. q = Subtree BY <2>3, <3>1
    <3> QED BY <3>2, <1>2, NothingHasEmptySegment
  <2>6. RegexpMatches(Regexp(q), g, fold, FALSE)
    BY <2>3, <2>4, <2>5, TrimmedOnward
  <2>7. p \in WithSubtree(p) BY <1>3, Zenon DEF WithSubtree
  <2> QED BY <1>1, <1>2, <2>6, <2>7, Zenon DEF Reaches
<1>4. CASE ~IsSuffix(Subtree, p)
  <2> DEFINE w == p \o Subtree
             x == q \o Subtree
  <2>1. w \in WithSubtree(p) BY <1>4, Zenon DEF WithSubtree
  <2>2. x \in ExpandBraces[w] BY SubtreeBraces
  <2>3. q # <<>> BY <1>2, NothingHasEmptySegment
  <2>4. x \in Seq(Symbol) /\ StarsApart(x) BY <1>1, <1>2, SubtreePlaces, StarsApartSubtree
  <2>5. RegexpMatches(Regexp(x), g, fold, FALSE) BY <1>1, <2>3, TrimmedBelow
  <2> HIDE DEF w, x
  <2> QED BY <2>1, <2>2, <2>4, <2>5, Zenon DEF Reaches
<1> QED BY <1>3, <1>4

\* Two patterns of which both reach one name are found to overlap.
LEMMA ReachersIntersect ==
    ASSUME NEW p, NEW q, NEW g \in Seq(Point), NEW fold \in BOOLEAN,
           Reaches(p, g, fold), Reaches(q, g, fold)
    PROVE  \E w \in WithSubtree(p), v \in WithSubtree(q) : PatternsCanIntersect(w, v, fold)
<1>1. PICK w \in WithSubtree(p) : \E x \in ExpandBraces[w] :
        x \in Seq(Symbol) /\ StarsApart(x) /\ RegexpMatches(Regexp(x), g, fold, FALSE)
  BY Zenon DEF Reaches
<1>2. PICK x \in ExpandBraces[w] :
        x \in Seq(Symbol) /\ StarsApart(x) /\ RegexpMatches(Regexp(x), g, fold, FALSE)
  BY <1>1
<1>3. PICK v \in WithSubtree(q) : \E y \in ExpandBraces[v] :
        y \in Seq(Symbol) /\ StarsApart(y) /\ RegexpMatches(Regexp(y), g, fold, FALSE)
  BY Zenon DEF Reaches
<1>4. PICK y \in ExpandBraces[v] :
        y \in Seq(Symbol) /\ StarsApart(y) /\ RegexpMatches(Regexp(y), g, fold, FALSE)
  BY <1>3
<1>5. GlobsIntersect(x, y, fold)
  BY <1>2, <1>4, MatchersIntersect
<1>6. PatternsCanIntersect(w, v, fold)
  BY <1>5, Zenon DEF PatternsCanIntersect
<1> QED BY <1>6

-----------------------------------------------------------------------------
(* The witness: what would lie in the file that both own, if it were a directory. *)

LEMMA OwnersInside ==
    ASSUME NEW f \in Seq(Point), NEW d \in {f} \cup Above(f)
    PROVE  Append(f, Sep) \in Seq(Point) /\ (d \in Seq(Point) => Inside(d, Append(f, Sep)))
<1> DEFINE g == Append(f, Sep)
           n == Len(f)
<1>1. Grown(Point, f, Sep, g)
  BY LayoutFacts, AppendGrows
<1>2. n \in Nat
  OBVIOUS
<1> HIDE DEF g
<1>3. g \in Seq(Point) /\ Len(g) = n + 1 /\ g[n + 1] = Sep /\ \A i \in 1..n : g[i] = f[i]
  BY <1>1 DEF Grown
<1>4. CASE d = f
  <2>1. Len(d) = n /\ \A l \in 1..n : g[l] = d[l] BY <1>3, <1>4
  <2> HIDE DEF n
  <2> QED BY <2>1, <1>2, <1>3 DEF Inside, Extends, g
<1>5. CASE d \in Above(f)
  <2>1. PICK i \in {k \in 2..n : f[k] = Sep} : d = SubSeq(f, 1, i - 1) BY <1>5 DEF Above
  <2>2. i \in 2..n /\ f[i] = Sep OBVIOUS
  <2>3. 1 \in Nat /\ i - 1 \in Int /\ 1 <= 1 /\ i - 1 <= Len(f) BY <1>2, <2>2
  <2>4. /\ Len(d) = IF 1 <= i - 1 THEN i - 1 - 1 + 1 ELSE 0
        /\ \A l \in 1..(i - 1 - 1 + 1) : d[l] = f[1 + l - 1]
    BY <2>1, <2>3, SubSeqTyped
  <2> HIDE DEF n
  <2>5. Len(d) = i - 1 /\ \A l \in 1..(i - 1) : d[l] = f[l]
    <3>1. i - 1 - 1 + 1 = i - 1 /\ 1 <= i - 1 /\ \A l \in 1..(i - 1) : 1 + l - 1 = l BY <1>2, <2>2
    <3> QED BY <2>4, <3>1
  <2>6. Len(d) <= n + 1 /\ Len(d) < n + 1 /\ Len(d) + 1 = i /\ i \in 1..n BY <1>2, <2>2, <2>5
  <2>7. \A l \in 1..(i - 1) : g[l] = d[l]
    <3>1. \A l \in 1..(i - 1) : l \in 1..n BY <1>2, <2>2
    <3> QED BY <3>1, <2>5, <1>3
  <2>8. g[Len(d) + 1] = Sep BY <2>2, <2>6, <1>3
  <2>9. Extends(d, Len(d), g, Len(g)) BY <2>5, <2>6, <2>7, <1>3 DEF Extends
  <2> QED BY <1>3, <2>6, <2>8, <2>9 DEF Inside, g
<1> QED BY <1>3, <1>4, <1>5 DEF g

\* What one side's pattern owns, it reaches.
LEMMA OwnersReach ==
    ASSUME insensitive \in BOOLEAN, NEW p \in Pattern, Readable(p), NEW f \in Owned({p})
    PROVE  f \in Seq(Point) /\ Append(f, Sep) \in Seq(Point) /\ Reaches(p, Append(f, Sep), insensitive)
<1>1. f \in File /\ ({f} \cup Above(f)) \cap Named(p) # {}
  <2>1. UNION {Named(q) : q \in {p}} = Named(p) OBVIOUS
  <2> QED BY <2>1 DEF Owned
<1>2. PICK d \in {f} \cup Above(f) : d \in Named(p)
  BY <1>1
<1>3. PICK re \in {Regexp(t) : t \in UNION {Trimmed[q] : q \in ExpandBraces[p]}} :
         RegexpMatches(re, d, insensitive, FALSE)
  BY <1>2, Zenon DEF Named
<1>4. PICK q \in ExpandBraces[p] : \E t \in Trimmed[q] : re = Regexp(t)
  BY Zenon
<1>5. PICK t \in Trimmed[q] : re = Regexp(t)
  BY <1>4
<1>6. f \in Seq(Point) /\ d \in Seq(Point)
  <2>1. d \in File BY <1>2, Zenon DEF Named
  <2> QED BY <2>1, <1>1, FileAssumption
<1>7. Append(f, Sep) \in Seq(Point) /\ Inside(d, Append(f, Sep))
  BY <1>2, <1>6, OwnersInside
<1>8. p \in Seq(Symbol) /\ RegexpMatches(Regexp(t), d, insensitive, FALSE)
  BY <1>3, <1>5 DEF Pattern
<1>9. Reaches(p, Append(f, Sep), insensitive)
  BY <1>6, <1>7, <1>8, ReachesBelow
<1> QED BY <1>6, <1>7, <1>9

\* Invariant I3, for every pair of patterns and every set of names: a name that the
\* request and the card both own, be it there or not, makes them overlap (ScopesOverlap
\* and all that it compares with).
THEOREM OverlapIsNeverMissed == Spec => []OverlapNeverMissed
<1>1. TypedWords => OverlapNeverMissed
  <2> SUFFICES ASSUME TypedWords, Complete, exclude = <<>>,
                      NEW f \in Owned(Request.include) \cap Owned(Card.include)
               PROVE  ScopesOverlap(Request, Card, insensitive)
    BY Zenon DEF OverlapNeverMissed
  <2> DEFINE p == PatternOf(include)
             q == PatternOf(card)
  <2>1. Given(include) /\ Given(card)
    BY DEF Complete
  <2>2. Request.include = {p} /\ Card.include = {q} /\ Request.exclude = {} /\ Card.exclude = {}
    BY <2>1 DEF Request, Card, PatternsOf, Given
  <2>3. p \in Pattern /\ q \in Pattern
    BY <2>2, IncludesTyped
  <2>4. Readable(p) /\ Readable(q)
    BY <2>1, Zenon DEF Given, Valid, Readable, PatternOf
  <2>5. insensitive \in BOOLEAN
    BY DEF TypedWords
  <2> HIDE DEF p, q
  <2> DEFINE g == Append(f, Sep)
  <2>6. g \in Seq(Point) /\ Reaches(p, g, insensitive) /\ Reaches(q, g, insensitive)
    BY <2>2, <2>3, <2>4, <2>5, OwnersReach
  <2> HIDE DEF g
  <2>7. \E w \in WithSubtree(p), v \in WithSubtree(q) : PatternsCanIntersect(w, v, insensitive)
    BY <2>5, <2>6, ReachersIntersect
  <2>8. \A r : ~ExcludedBy(Request, r, insensitive) /\ ~ExcludedBy(Card, r, insensitive)
    BY <2>2 DEF ExcludedBy
  <2>9. p \in Request.include /\ q \in Card.include
    BY <2>2
  <2> QED BY <2>7, <2>8, <2>9, Zenon DEF ScopesOverlap
<1> QED BY <1>1, WordsTyped, PTL

-----------------------------------------------------------------------------
(* What an exclude covers: patterns that are one with cases folded. *)

\* CaseFold, for one symbol.
FoldSymbol(s, fold) ==
    IF ~fold THEN s
    ELSE CASE s.kind = "lit"   -> Lit(Lower[s.ch])
           [] s.kind = "class" ->
                Class(s.neg, [k \in 1..Len(s.ranges) |->
                    [lo |-> Lower[s.ranges[k].lo], hi |-> Lower[s.ranges[k].hi]]])
           [] OTHER -> s

LEMMA CaseFoldPlaces ==
    ASSUME NEW p \in Seq(Symbol), NEW fold
    PROVE  /\ CaseFold(p, fold) \in Seq({FoldSymbol(s, fold) : s \in Symbol})
           /\ Len(CaseFold(p, fold)) = Len(p)
           /\ \A i \in 1..Len(p) : CaseFold(p, fold)[i] = FoldSymbol(p[i], fold)
<1> DEFINE n == Len(p)
           G(s) == FoldSymbol(s, fold)
           X == {G(s) : s \in Symbol}
           u == [i \in 1..n |-> G(p[i])]
<1>1. CaseFold(p, fold) = u
  BY Zenon DEF CaseFold, FoldSymbol
<1>2. n \in Nat /\ \A i \in 1..n : p[i] \in Symbol
  OBVIOUS
<1> HIDE DEF n, G
<1>3. u \in Seq(X) /\ Len(u) = n /\ \A i \in 1..n : u[i] = G(p[i])
  <2>1. \A i \in 1..n : G(p[i]) \in X BY <1>2
  <2> HIDE DEF X
  <2>2. u \in [1..n -> X] BY <2>1
  <2>3. u \in Seq(X) /\ Len(u) = n BY <2>2, <1>2
  <2> QED BY <2>3
<1> HIDE DEF u
<1> QED BY <1>1, <1>3 DEF n, G

\* Whether the ends of r are two letters of one case, or no letters of ASCII at all.
OneCase(r) ==
    /\ r.hi <= MaxASCII
    /\ \/ {r.lo, r.hi} \subseteq UpperA..UpperZ
       \/ {r.lo, r.hi} \subseteq LowerA..(UpperZ + Shift)
       \/ {r.lo, r.hi} \cap (UpperA..UpperZ \cup LowerA..(UpperZ + Shift)) = {}

LEMMA RangeMoves ==
    ASSUME NEW r \in CharRange, NEW w \in CharRange, OneCase(r), OneCase(w),
           Lower[r.lo] = Lower[w.lo], Lower[r.hi] = Lower[w.hi], NEW d \in Point, r.lo <= d, d <= r.hi
    PROVE  \E e \in Point : Lower[e] = Lower[d] /\ w.lo <= e /\ e <= w.hi
<1>1. /\ MaxRune \in Nat /\ MaxASCII \in Nat /\ MaxASCII <= MaxRune /\ UpperA \in Nat /\ UpperZ \in Nat
      /\ UpperA <= UpperZ /\ LowerA \in Nat /\ UpperZ < LowerA /\ Shift = LowerA - UpperA
      /\ UpperZ + Shift <= MaxASCII /\ Point = 0..MaxRune
  BY LayoutAssumption, LayoutFacts DEF Shift, Point
<1>2. \A c \in 0..MaxASCII : Lower[c] = IF c \in UpperA..UpperZ THEN c + Shift ELSE c
  <2>1. \A c \in 0..MaxASCII : Lower[c] = Fold[c] BY NamesAssumption
  <2> QED BY <2>1, LayoutAssumption
<1>3. /\ r.lo \in Nat /\ r.hi \in Nat /\ r.lo <= r.hi /\ r.hi <= MaxASCII
      /\ w.lo \in Nat /\ w.hi \in Nat /\ w.lo <= w.hi /\ w.hi <= MaxASCII
  BY <1>1 DEF CharRange, OneCase
<1> DEFINE a == r.lo
           b == r.hi
           x == w.lo
           y == w.hi
           Upper(c) == UpperA <= c /\ c <= UpperZ
           Small(c) == LowerA <= c /\ c <= UpperZ + Shift
<1>4. /\ \/ Upper(a) /\ Upper(b)
         \/ Small(a) /\ Small(b)
         \/ ~Upper(a) /\ ~Small(a) /\ ~Upper(b) /\ ~Small(b)
      /\ \/ Upper(x) /\ Upper(y)
         \/ Small(x) /\ Small(y)
         \/ ~Upper(x) /\ ~Small(x) /\ ~Upper(y) /\ ~Small(y)
  <2> DEFINE U == UpperA..UpperZ
             L == LowerA..(UpperZ + Shift)
  <2>1. \A c \in Nat : (c \in U <=> Upper(c)) /\ (c \in L <=> Small(c)) BY <1>1
  <2>2. /\ \/ a \in U /\ b \in U
           \/ a \in L /\ b \in L
           \/ a \notin U /\ a \notin L /\ b \notin U /\ b \notin L
        /\ \/ x \in U /\ y \in U
           \/ x \in L /\ y \in L
           \/ x \notin U /\ x \notin L /\ y \notin U /\ y \notin L
    <3> HIDE DEF U, L
    <3> QED BY DEF OneCase, U, L
  <2> HIDE DEF U, L, Upper, Small, a, b, x, y
  <2>3. a \in Nat /\ b \in Nat /\ x \in Nat /\ y \in Nat BY <1>3 DEF a, b, x, y
  <2> QED BY <2>1, <2>2, <2>3
<1>5. \A c \in 0..MaxASCII : Lower[c] = IF Upper(c) THEN c + Shift ELSE c
  BY <1>1, <1>2
<1>6. /\ a \in 0..MaxASCII /\ b \in 0..MaxASCII /\ x \in 0..MaxASCII /\ y \in 0..MaxASCII
      /\ d \in 0..MaxASCII
      /\ a <= d /\ d <= b /\ Lower[a] = Lower[x] /\ Lower[b] = Lower[y]
  BY <1>1, <1>3
<1> HIDE DEF a, b, x, y
<1>7. CASE Upper(a) /\ Upper(b) /\ Small(x) /\ Small(y)
  <2> DEFINE e == d + Shift
  <2>1. Upper(d) /\ x = a + Shift /\ y = b + Shift BY <1>1, <1>5, <1>6, <1>7
  <2>2. e \in 0..MaxASCII /\ ~Upper(e) /\ x <= e /\ e <= y BY <2>1, <1>1, <1>6
  <2>3. Lower[e] = e /\ Lower[d] = e BY <2>1, <2>2, <1>5, <1>6
  <2>4. e \in Point BY <2>2, <1>1
  <2> QED BY <2>2, <2>3, <2>4 DEF x, y
<1>8. CASE Small(a) /\ Small(b) /\ Upper(x) /\ Upper(y)
  <2> DEFINE e == d - Shift
  <2>1. Small(d) /\ a = x + Shift /\ b = y + Shift BY <1>1, <1>5, <1>6, <1>8
  <2>2. e \in 0..MaxASCII /\ Upper(e) /\ x <= e /\ e <= y /\ ~Upper(d) BY <2>1, <1>1, <1>6, <1>8
  <2>3. Lower[e] = d /\ Lower[d] = d BY <2>1, <2>2, <1>1, <1>5, <1>6
  <2>4. e \in Point BY <2>2, <1>1
  <2> QED BY <2>2, <2>3, <2>4 DEF x, y
<1>9. CASE a = x /\ b = y
  BY <1>6, <1>9 DEF x, y
<1>10. (a = x /\ b = y) \/ (Upper(a) /\ Upper(b) /\ Small(x) /\ Small(y))
         \/ (Small(a) /\ Small(b) /\ Upper(x) /\ Upper(y))
  BY <1>1, <1>4, <1>5, <1>6
<1> QED BY <1>7, <1>8, <1>9, <1>10

\* The ranges of two classes with the same lower-case bounds.
LEMMA NamesMove ==
    ASSUME NEW s \in Seq(CharRange), NEW u \in Seq(CharRange), Len(s) = Len(u),
           \A k \in 1..Len(u) : /\ OneCase(s[k]) /\ OneCase(u[k])
                                /\ Lower[s[k].lo] = Lower[u[k].lo] /\ Lower[s[k].hi] = Lower[u[k].hi],
           NEW c \in Point, Names(s, c, TRUE)
    PROVE  Names(u, c, TRUE)
<1>1. PICK d \in Point : SameChar(c, d, TRUE) /\ RangeHas(s, d)
  BY DEF Names
<1>2. Fold[c] = Fold[d]
  BY <1>1 DEF SameChar
<1>3. PICK k \in 1..Len(s) : s[k].lo <= d /\ d <= s[k].hi
  <2>1. PICK r \in ToSet(s) : d \in r.lo..r.hi BY <1>1 DEF RangeHas
  <2>2. PICK k \in 1..Len(s) : r = s[k]
    <3>1. DOMAIN s = 1..Len(s) OBVIOUS
    <3> QED BY <3>1 DEF ToSet
  <2>3. r.lo \in Int /\ r.hi \in Int /\ d \in Int
    <3>1. r \in CharRange BY <2>2
    <3> HIDE DEF RangeHas
    <3>2. MaxRune \in Nat BY LayoutAssumption
    <3> QED BY <3>1, <3>2 DEF CharRange, Point
  <2>4. s[k].lo <= d /\ d <= s[k].hi BY <2>1, <2>2, <2>3
  <2> QED BY <2>4
<1> DEFINE r == s[k]
           w == u[k]
<1>4. /\ r \in CharRange /\ w \in CharRange /\ OneCase(r) /\ OneCase(w)
      /\ Lower[r.lo] = Lower[w.lo] /\ Lower[r.hi] = Lower[w.hi] /\ r.lo <= d /\ d <= r.hi
  BY <1>3
<1>5. w \in ToSet(u)
  <2>1. k \in DOMAIN u OBVIOUS
  <2> QED BY <2>1 DEF ToSet
<1> HIDE DEF r, w
<1>6. PICK e \in Point : Lower[e] = Lower[d] /\ w.lo <= e /\ e <= w.hi
  BY <1>4, RangeMoves
<1>7. e \in w.lo..w.hi
  BY <1>4, <1>6, LayoutAssumption DEF CharRange, Point
<1>8. RangeHas(u, e)
  BY <1>5, <1>7 DEF RangeHas
<1>9. SameChar(c, e, TRUE)
  <2>1. /\ MaxASCII \in Nat /\ Point = 0..MaxRune /\ MaxRune \in Nat /\ r.hi <= MaxASCII /\ w.hi <= MaxASCII
        /\ r.hi \in Int /\ w.hi \in Int
    BY <1>4, LayoutAssumption, LayoutFacts DEF OneCase, Point, CharRange
  <2>2. d \in 0..MaxASCII /\ e \in 0..MaxASCII
    BY <1>4, <1>6, <2>1
  <2>3. Fold[e] = Fold[d]
    BY <1>6, <2>2, NamesAssumption
  <2> QED BY <1>2, <2>3 DEF SameChar
<1> QED BY <1>8, <1>9 DEF Names

\* u may stand where s does: what s accepts it accepts.
Stands(s, u, fold) ==
    /\ s = Slash <=> u = Slash
    /\ s = Star <=> u = Star
    /\ \A c \in Point : Accepts(s, c, fold, FALSE) => Accepts(u, c, fold, FALSE)

\* Where both are classes, no range of theirs reaches from one case into another one; where
\* both are characters, those with one lower-case form are one character.
KeepCase(s, u) ==
    /\ s.kind = "class" /\ u.kind = "class" =>
          \A r \in ToSet(s.ranges) \cup ToSet(u.ranges) : OneCase(r)
    /\ s.kind = "lit" /\ u.kind = "lit" /\ Lower[s.ch] = Lower[u.ch] => Fold[s.ch] = Fold[u.ch]

\* Two classes with the same folded bounds.
LEMMA ClassStands ==
    ASSUME NEW s \in Symbol, NEW u \in Symbol, s.kind = "class", u.kind = "class",
           FoldSymbol(s, TRUE) = FoldSymbol(u, TRUE), KeepCase(s, u)
    PROVE  Stands(s, u, TRUE)
<1> DEFINE a == s.ranges
           b == u.ranges
           Low(r) == [lo |-> Lower[r.lo], hi |-> Lower[r.hi]]
           v == [k \in 1..Len(a) |-> Low(a[k])]
           w == [k \in 1..Len(b) |-> Low(b[k])]
<1>1. a \in Seq(CharRange) /\ b \in Seq(CharRange) /\ s.neg \in BOOLEAN /\ u.neg \in BOOLEAN
  BY DEF Symbol
<1>2. FoldSymbol(s, TRUE) = Class(s.neg, v) /\ FoldSymbol(u, TRUE) = Class(u.neg, w)
  BY DEF FoldSymbol
<1> HIDE DEF v, w
<1>3. s.neg = u.neg /\ v = w
  <2>1. Class(s.neg, v) = Class(u.neg, w) BY <1>2, Zenon
  <2>2. Class(s.neg, v).neg = s.neg /\ Class(u.neg, w).neg = u.neg BY DEF Class
  <2>3. Class(s.neg, v).ranges = v /\ Class(u.neg, w).ranges = w BY DEF Class
  <2> QED BY <2>1, <2>2, <2>3
<1> HIDE DEF a, b
<1>4. Len(a) \in Nat /\ Len(b) \in Nat /\ DOMAIN a = 1..Len(a) /\ DOMAIN b = 1..Len(b)
  BY <1>1
<1>5. Len(a) = Len(b)
  <2>1. DOMAIN v = 1..Len(a) /\ DOMAIN w = 1..Len(b) BY DEF v, w
  <2>2. 1..Len(a) = 1..Len(b) BY <2>1, <1>3
  <2> DEFINE m == Len(a)
             n == Len(b)
  <2>3. m \in Nat /\ n \in Nat /\ 1..m = 1..n BY <2>2, <1>4
  <2> HIDE DEF m, n
  <2>4. m <= n
    <3> SUFFICES ASSUME ~(m <= n) PROVE FALSE OBVIOUS
    <3>1. m \in 1..m /\ m \notin 1..n BY <2>3
    <3> QED BY <3>1, <2>3
  <2>5. n <= m
    <3> SUFFICES ASSUME ~(n <= m) PROVE FALSE OBVIOUS
    <3>1. n \in 1..n /\ n \notin 1..m BY <2>3
    <3> QED BY <3>1, <2>3
  <2> QED BY <2>3, <2>4, <2>5 DEF m, n
<1>6. \A k \in 1..Len(b) : Low(a[k]) = Low(b[k])
  <2>1. \A k \in 1..Len(b) : v[k] = Low(a[k]) /\ w[k] = Low(b[k]) BY <1>5 DEF v, w
  <2> QED BY <2>1, <1>3
<1>7. \A k \in 1..Len(b) : Lower[a[k].lo] = Lower[b[k].lo] /\ Lower[a[k].hi] = Lower[b[k].hi]
  BY <1>6
<1>8. \A k \in 1..Len(b) : OneCase(a[k]) /\ OneCase(b[k])
  <2>1. \A r \in ToSet(a) \cup ToSet(b) : OneCase(r) BY DEF KeepCase, a, b
  <2>2. \A k \in 1..Len(b) : a[k] \in ToSet(a) /\ b[k] \in ToSet(b) BY <1>4, <1>5 DEF ToSet
  <2> QED BY <2>1, <2>2
<1>9. ASSUME NEW c \in Point PROVE Names(a, c, TRUE) <=> Names(b, c, TRUE)
  <2>1. Names(a, c, TRUE) => Names(b, c, TRUE) BY <1>1, <1>5, <1>7, <1>8, NamesMove
  <2>2. Names(b, c, TRUE) => Names(a, c, TRUE) BY <1>1, <1>5, <1>7, <1>8, NamesMove
  <2> QED BY <2>1, <2>2
<1>10. ASSUME NEW c \in Point PROVE Accepts(s, c, TRUE, FALSE) => Accepts(u, c, TRUE, FALSE)
  <2>1. ClassHas(s, c, TRUE) <=> (Names(a, c, TRUE) # s.neg) BY Zenon DEF ClassHas, Names, a
  <2>2. ClassHas(u, c, TRUE) <=> (Names(b, c, TRUE) # u.neg) BY Zenon DEF ClassHas, Names, b
  <2>3. ClassHas(s, c, TRUE) => ClassHas(u, c, TRUE)
    <3>1. Names(a, c, TRUE) = Names(b, c, TRUE) BY <1>9 DEF Names
    <3> QED BY <3>1, <1>3, <2>1, <2>2
  <2>4. Accepts(s, c, TRUE, FALSE) <=> c # Sep /\ ClassHas(s, c, TRUE) BY DEF Accepts
  <2>5. Accepts(u, c, TRUE, FALSE) <=> c # Sep /\ ClassHas(u, c, TRUE) BY DEF Accepts
  <2> QED BY <2>3, <2>4, <2>5
<1>11. s # Slash /\ u # Slash /\ s # Star /\ u # Star
  BY DEF Slash, Star
<1> QED BY <1>10, <1>11, Zenon DEF Stands

LEMMA FoldedStands ==
    ASSUME NEW s \in Symbol, NEW u \in Symbol, NEW fold \in BOOLEAN,
           FoldSymbol(s, fold) = FoldSymbol(u, fold), fold => KeepCase(s, u)
    PROVE  Stands(s, u, fold)
<1>1. CASE ~fold
  <2>1. s = u BY <1>1, Zenon DEF FoldSymbol
  <2> QED BY <2>1, Zenon DEF Stands
<1>2. CASE fold
  <2>1. \A t \in Symbol : t.kind = "lit" => FoldSymbol(t, fold).kind = "lit" /\ FoldSymbol(t, fold).ch = Lower[t.ch]
    BY <1>2 DEF FoldSymbol, Lit
  <2>2. \A t \in Symbol : t.kind = "class" => FoldSymbol(t, fold).kind = "class"
    BY <1>2 DEF FoldSymbol, Class
  <2>3. \A t \in Symbol : t.kind \notin {"lit", "class"} => FoldSymbol(t, fold) = t
    BY <1>2, Zenon DEF FoldSymbol
  <2>4. CASE u.kind = "lit"
    <3>1. s.kind = "lit"
      <4>1. FoldSymbol(s, fold).kind = "lit" BY <2>1, <2>4
      <4> QED BY <4>1, <2>2, <2>3
    <3>2. Fold[s.ch] = Fold[u.ch]
      <4>1. Lower[s.ch] = Lower[u.ch] BY <2>1, <2>4, <3>1
      <4> QED BY <4>1, <1>2, <2>4, <3>1 DEF KeepCase
    <3>3. s # Slash /\ u # Slash /\ s # Star /\ u # Star BY <2>4, <3>1 DEF Slash, Star
    <3>4. \A c \in Point : Accepts(s, c, fold, FALSE) => Accepts(u, c, fold, FALSE)
      <4> SUFFICES ASSUME NEW c \in Point, SameChar(s.ch, c, fold) PROVE SameChar(u.ch, c, fold)
        BY <2>4, <3>1, LitAccepts
      <4> QED BY <1>2, <3>2 DEF SameChar
    <3> QED BY <3>3, <3>4, Zenon DEF Stands
  <2>5. CASE u.kind = "class"
    <3>1. s.kind = "class"
      <4>1. FoldSymbol(s, fold).kind = "class" BY <2>2, <2>5
      <4> QED BY <4>1, <2>1, <2>3
    <3>2. FoldSymbol(s, TRUE) = FoldSymbol(u, TRUE) /\ KeepCase(s, u) /\ fold = TRUE BY <1>2
    <3>3. Stands(s, u, TRUE) BY <3>1, <3>2, <2>5, ClassStands
    <3> QED BY <3>2, <3>3
  <2>6. CASE u.kind # "lit" /\ u.kind # "class"
    <3>1. u.kind # "class" BY <2>6
    <3>2. FoldSymbol(u, fold) = u BY <2>3, <2>6, <3>1
    <3>3. s.kind # "lit" /\ s.kind # "class" BY <2>1, <2>2, <2>6, <3>1, <3>2
    <3>4. s = u BY <2>3, <3>2, <3>3
    <3> QED BY <3>4, Zenon DEF Stands
  <2> QED BY <2>4, <2>5, <2>6
<1> QED BY <1>1, <1>2

\* One segment stands for another one.
SegmentStands(s, u, fold) ==
    Len(s) = Len(u) /\ \A t \in 1..Len(u) : Stands(s[t], u[t], fold)

LEMMA GlobstarStands ==
    ASSUME NEW s \in Seq(Symbol), NEW u \in Seq(Symbol), NEW fold, SegmentStands(s, u, fold)
    PROVE  s = Globstar <=> u = Globstar
<1>1. \A w \in Seq(Symbol) : w = Globstar <=> Len(w) = 2 /\ w[1] = Star /\ w[2] = Star
  <2> SUFFICES ASSUME NEW w \in Seq(Symbol) PROVE w = Globstar <=> Len(w) = 2 /\ w[1] = Star /\ w[2] = Star
    OBVIOUS
  <2>1. w = Globstar => Len(w) = 2 /\ w[1] = Star /\ w[2] = Star BY DEF Globstar
  <2>2. ASSUME Len(w) = 2, w[1] = Star, w[2] = Star PROVE w = Globstar
    <3>1. w = <<w[1], w[2]>> BY <2>2
    <3> QED BY <3>1, <2>2 DEF Globstar
  <2> QED BY <2>1, <2>2
<1>2. Len(s) = Len(u) /\ \A t \in 1..Len(u) : s[t] = Star <=> u[t] = Star
  BY Zenon DEF SegmentStands, Stands
<1>3. Len(u) = 2 => 1 \in 1..Len(u) /\ 2 \in 1..Len(u)
  OBVIOUS
<1> QED BY <1>1, <1>2, <1>3

\* p begins like b, up to a separator or to its end.
Leads(p, b, fold) ==
    /\ Len(b) <= Len(p) /\ \A k \in 1..Len(b) : Stands(p[k], b[k], fold)
    /\ Len(b) = Len(p) \/ p[Len(b) + 1] = Slash

SegmentLists == {segs \in Seq(Seq(Symbol)) : segs # <<>>}

\* One round of Segments.
LEMMA SplitPlaces ==
    ASSUME NEW segs \in SegmentLists, NEW s \in Symbol
    PROVE  /\ Split(segs, s) \in SegmentLists /\ Len(segs) \in Nat \ {0}
           /\ \A i \in 1..Len(segs) : segs[i] \in Seq(Symbol)
           /\ s = Slash => /\ Len(Split(segs, s)) = Len(segs) + 1 /\ Split(segs, s)[Len(segs) + 1] = <<>>
                           /\ \A i \in 1..Len(segs) : Split(segs, s)[i] = segs[i]
           /\ s # Slash => /\ Len(Split(segs, s)) = Len(segs)
                           /\ Split(segs, s)[Len(segs)] = Append(segs[Len(segs)], s)
                           /\ \A i \in 1..Len(segs) : i # Len(segs) => Split(segs, s)[i] = segs[i]
<1> DEFINE n == Len(segs)
           last == segs[n]
           v == Split(segs, s)
<1>1. segs \in Seq(Seq(Symbol)) /\ n \in Nat /\ n \in 1..n /\ n # 0 /\ \A i \in 1..n : segs[i] \in Seq(Symbol)
  <2>1. segs \in Seq(Seq(Symbol)) /\ segs # <<>> BY DEF SegmentLists
  <2> QED BY <2>1
<1> DEFINE t == Append(last, s)
<1>2. t \in Seq(Symbol)
  <2>1. last \in Seq(Symbol) BY <1>1
  <2> HIDE DEF last
  <2> QED BY <2>1, AppendProperties
<1> HIDE DEF n, t
<1>3. CASE s = Slash
  <2>1. v = Append(segs, <<>>) BY <1>3 DEF Split
  <2>2. <<>> \in Seq(Symbol) OBVIOUS
  <2>3. v \in Seq(Seq(Symbol)) /\ Len(v) = n + 1 /\ v[n + 1] = <<>> /\ \A i \in 1..n : v[i] = segs[i]
    BY <1>1, <2>1, <2>2, AppendProperties DEF n
  <2> HIDE DEF v
  <2>4. v # <<>> BY <1>1, <2>3
  <2> QED BY <1>1, <1>3, <2>3, <2>4 DEF v, n, SegmentLists
<1>4. CASE s # Slash
  <2> DEFINE u == [segs EXCEPT ![n] = t]
  <2>1. v = u BY <1>4 DEF Split, n, t
  <2>2. u \in Seq(Seq(Symbol)) /\ Len(u) = n /\ \A i \in 1..n : u[i] = IF i = n THEN t ELSE segs[i]
    <3>1. n \in 1..Len(segs) BY <1>1 DEF n
    <3>2. u \in Seq(Seq(Symbol)) /\ Len(u) = Len(segs) /\ \A i \in 1..Len(segs) : u[i] = IF i = n THEN t ELSE segs[i]
      BY <1>1, <1>2, <3>1, ExceptSeq
    <3> HIDE DEF u
    <3> QED BY <3>2 DEF n
  <2> HIDE DEF u, v
  <2>3. u # <<>> BY <1>1, <2>2
  <2>4. u[n] = t /\ \A i \in 1..n : i # n => u[i] = segs[i] BY <1>1, <2>2
  <2> QED BY <1>1, <1>4, <2>1, <2>2, <2>3, <2>4 DEF v, n, t, SegmentLists
<1> QED BY <1>3, <1>4

\* The segments of the one pattern stand for the first segments of the other.
Heads(a, b, fold) ==
    Len(b) <= Len(a) /\ \A i \in 1..Len(b) : SegmentStands(a[i], b[i], fold)

LEMMA AppendStands ==
    ASSUME NEW x \in Seq(Symbol), NEW y \in Seq(Symbol), NEW s \in Symbol, NEW u \in Symbol, NEW fold,
           SegmentStands(x, y, fold), Stands(s, u, fold)
    PROVE  SegmentStands(Append(x, s), Append(y, u), fold)
<1> DEFINE v == Append(x, s)
           w == Append(y, u)
           n == Len(y)
<1>1. Grown(Symbol, x, s, v) /\ Grown(Symbol, y, u, w)
  BY AppendGrows
<1>2. Len(x) = n /\ n \in Nat /\ \A t \in 1..n : Stands(x[t], y[t], fold)
  BY DEF SegmentStands
<1> HIDE DEF v, w, n
<1>3. /\ Len(v) = n + 1 /\ Len(w) = n + 1 /\ v[n + 1] = s /\ w[n + 1] = u
      /\ \A i \in 1..n : v[i] = x[i] /\ w[i] = y[i]
  BY <1>1, <1>2 DEF Grown, n
<1>4. ASSUME NEW t \in 1..(n + 1) PROVE Stands(v[t], w[t], fold)
  <2>1. t \in 1..n \/ t = n + 1 BY <1>2
  <2> QED BY <2>1, <1>2, <1>3
<1> QED BY <1>3, <1>4, Zenon DEF SegmentStands, v, w

LEMMA SplitStands ==
    ASSUME NEW a \in SegmentLists, NEW b \in SegmentLists, Len(a) = Len(b), NEW fold, Heads(a, b, fold),
           NEW s \in Symbol, NEW u \in Symbol, Stands(s, u, fold)
    PROVE  Len(Split(a, s)) = Len(Split(b, u)) /\ Heads(Split(a, s), Split(b, u), fold)
<1> DEFINE n == Len(b)
           v == Split(a, s)
           w == Split(b, u)
<1>1. /\ n \in Nat /\ n # 0
      /\ s = Slash => Len(v) = n + 1 /\ v[n + 1] = <<>> /\ \A i \in 1..n : v[i] = a[i]
      /\ s # Slash => Len(v) = n /\ v[n] = Append(a[n], s) /\ \A i \in 1..n : i # n => v[i] = a[i]
      /\ \A i \in 1..n : a[i] \in Seq(Symbol)
  <2> DEFINE l == Len(a)
  <2>1. /\ l \in Nat /\ l # 0
        /\ s = Slash => Len(v) = l + 1 /\ v[l + 1] = <<>> /\ \A i \in 1..l : v[i] = a[i]
        /\ s # Slash => Len(v) = l /\ v[l] = Append(a[l], s) /\ \A i \in 1..l : i # l => v[i] = a[i]
        /\ \A i \in 1..l : a[i] \in Seq(Symbol)
    BY SplitPlaces
  <2>2. l = n OBVIOUS
  <2> HIDE DEF l, n, v
  <2> QED BY <2>1, <2>2
<1>2. /\ u = Slash => Len(w) = n + 1 /\ w[n + 1] = <<>> /\ \A i \in 1..n : w[i] = b[i]
      /\ u # Slash => Len(w) = n /\ w[n] = Append(b[n], u) /\ \A i \in 1..n : i # n => w[i] = b[i]
      /\ \A i \in 1..n : b[i] \in Seq(Symbol)
  BY SplitPlaces
<1>3. \A i \in 1..n : SegmentStands(a[i], b[i], fold)
  BY DEF Heads
<1>4. s = Slash <=> u = Slash
  BY Zenon DEF Stands
<1> HIDE DEF n, v, w
<1>5. CASE s = Slash
  <2>1. SegmentStands(<<>>, <<>>, fold) BY DEF SegmentStands
  <2>2. ASSUME NEW i \in 1..(n + 1) PROVE SegmentStands(v[i], w[i], fold)
    <3>1. CASE i = n + 1 BY <3>1, <2>1, <1>1, <1>2, <1>4, <1>5
    <3>2. CASE i \in 1..n
      <4>1. v[i] = a[i] /\ w[i] = b[i] BY <3>2, <1>1, <1>2, <1>4, <1>5
      <4> QED BY <4>1, <3>2, <1>3
    <3> QED BY <3>1, <3>2, <1>1
  <2>3. Len(v) = n + 1 /\ Len(w) = n + 1 /\ n + 1 <= n + 1 BY <1>1, <1>2, <1>4, <1>5
  <2> QED BY <2>2, <2>3, Zenon DEF Heads, v, w
<1>6. CASE s # Slash
  <2>1. Len(v) = n /\ Len(w) = n /\ n <= n /\ n \in 1..n BY <1>1, <1>2, <1>4, <1>6
  <2>2. ASSUME NEW i \in 1..n PROVE SegmentStands(v[i], w[i], fold)
    <3>1. CASE i = n
      <4>1. v[i] = Append(a[n], s) /\ w[i] = Append(b[n], u) BY <3>1, <1>1, <1>2, <1>4, <1>6
      <4>2. a[n] \in Seq(Symbol) /\ b[n] \in Seq(Symbol) /\ SegmentStands(a[n], b[n], fold)
        BY <2>1, <1>1, <1>2, <1>3
      <4>3. SegmentStands(Append(a[n], s), Append(b[n], u), fold) BY <4>2, AppendStands
      <4> QED BY <4>1, <4>3
    <3>2. CASE i # n
      <4>1. v[i] = a[i] /\ w[i] = b[i] BY <3>2, <1>1, <1>2, <1>4, <1>6
      <4> QED BY <4>1, <1>3
    <3> QED BY <3>1, <3>2
  <2> QED BY <2>1, <2>2, Zenon DEF Heads, v, w
<1> QED BY <1>5, <1>6

LEMMA SegmentRounds ==
    ASSUME NEW p \in Seq(Symbol)
    PROVE  \E f : SplitRounds(SegmentLists, p, Len(p), f)
<1> DEFINE n == Len(p)
           V == SegmentLists
<1>1. n \in Nat /\ DOMAIN p = 1..n /\ \A k \in 1..n : p[k] \in Symbol
  OBVIOUS
<1> HIDE DEF n
<1>2. << <<>> >> \in V
  BY DEF SegmentLists
<1>3. \A segs \in V : \A k \in 1..n : Split(segs, p[k]) \in V
  BY <1>1, SplitPlaces
<1> HIDE DEF V
<1>4. \E f : SplitRounds(V, p, n, f)
  BY <1>1, <1>2, <1>3, SplitFold
<1> QED BY <1>4 DEF V, n

\* Where p begins like b, its segments begin like those of b.
LEMMA SegmentsLead ==
    ASSUME NEW p \in Seq(Symbol), NEW b \in Seq(Symbol), NEW fold, Leads(p, b, fold)
    PROVE  /\ Heads(Segments(p), Segments(b), fold)
           /\ Len(p) = Len(b) => Len(Segments(p)) = Len(Segments(b))
           /\ Len(p) # Len(b) => Len(Segments(b)) < Len(Segments(p))
<1> DEFINE n == Len(p)
           m == Len(b)
<1>1. PICK f : SplitRounds(SegmentLists, p, n, f)
  BY SegmentRounds
<1>2. PICK h : SplitRounds(SegmentLists, b, m, h)
  BY SegmentRounds
<1>3. /\ n \in Nat /\ m \in Nat /\ m <= n /\ \A k \in 1..m : Stands(p[k], b[k], fold)
      /\ m = n \/ p[m + 1] = Slash
      /\ \A k \in 1..n : p[k] \in Symbol
      /\ \A k \in 1..m : b[k] \in Symbol
  BY DEF Leads
<1> HIDE DEF n, m
<1>4. /\ \A k \in 0..n : f[k] \in SegmentLists
      /\ f[n] = Segments(p) /\ f[0] = << <<>> >>
      /\ \A k \in 1..n : f[k] = Split(f[k - 1], p[k])
  BY <1>1 DEF SplitRounds, Segments
<1>5. /\ \A k \in 0..m : h[k] \in SegmentLists
      /\ h[m] = Segments(b) /\ h[0] = << <<>> >>
      /\ \A k \in 1..m : h[k] = Split(h[k - 1], b[k])
  BY <1>2 DEF SplitRounds, Segments
<1> DEFINE Same(k) == k <= m => Len(f[k]) = Len(h[k]) /\ Heads(f[k], h[k], fold)
           S == {k \in Nat : Same(k)}
<1>6. ASSUME NEW k \in Nat, \A l \in Nat : l < k => l \in S PROVE k \in S
  <2>1. CASE k = 0
    <3> DEFINE e == << <<>> >>
    <3>1. Len(e) = 1 /\ e[1] = <<>> OBVIOUS
    <3> HIDE DEF e
    <3>2. SegmentStands(<<>>, <<>>, fold) BY DEF SegmentStands
    <3>3. \A i \in 1..1 : SegmentStands(e[i], e[i], fold) BY <3>1, <3>2
    <3>4. Heads(e, e, fold) BY <3>1, <3>3 DEF Heads
    <3>5. f[k] = e /\ h[k] = e BY <2>1, <1>4, <1>5 DEF e
    <3> QED BY <3>4, <3>5
  <2>2. CASE k # 0 /\ k <= m
    <3>1. k \in 1..n /\ k \in 1..m /\ k - 1 \in Nat /\ k - 1 < k /\ k - 1 <= m /\ k - 1 \in 0..n /\ k - 1 \in 0..m
      BY <2>2, <1>3
    <3>2. Same(k - 1) BY <3>1, <1>6
    <3> DEFINE x == f[k - 1]
               y == h[k - 1]
    <3>3. Len(x) = Len(y) /\ Heads(x, y, fold) BY <3>1, <3>2
    <3>4. x \in SegmentLists /\ y \in SegmentLists /\ f[k] = Split(x, p[k]) /\ h[k] = Split(y, b[k])
      BY <3>1, <1>4, <1>5
    <3>5. p[k] \in Symbol /\ b[k] \in Symbol /\ Stands(p[k], b[k], fold) BY <3>1, <1>3
    <3> HIDE DEF x, y
    <3>6. Len(Split(x, p[k])) = Len(Split(y, b[k])) /\ Heads(Split(x, p[k]), Split(y, b[k]), fold)
      BY <3>3, <3>4, <3>5, SplitStands
    <3> QED BY <3>4, <3>6
  <2>3. CASE ~(k <= m) BY <2>3
  <2> QED BY <2>1, <2>2, <2>3
<1>7. S = Nat
  <2> HIDE DEF S
  <2>1. S \in SUBSET Nat BY DEF S
  <2> QED BY <1>6, <2>1, Induction
<1>8. Same(m)
  <2> HIDE DEF Same
  <2> QED BY <1>3, <1>7
<1> DEFINE r == Len(h[m])
           Keeps(k) == m < k /\ k <= n => r < Len(f[k]) /\ \A i \in 1..r : f[k][i] = f[m][i]
           R == {k \in Nat : Keeps(k)}
<1>9. r \in Nat /\ r = Len(f[m]) /\ Heads(f[m], h[m], fold) /\ \A i \in 1..r : i \in Nat
  <2>1. m \in 0..m BY <1>3
  <2>2. h[m] \in SegmentLists BY <2>1, <1>5
  <2> QED BY <2>2, <1>3, <1>8 DEF SegmentLists
<1>10. ASSUME NEW k \in Nat, \A l \in Nat : l < k => l \in R PROVE k \in R
  <2>1. CASE ~(m < k /\ k <= n) BY <2>1
  <2>2. CASE m < k /\ k <= n
    <3>1. k \in 1..n /\ k - 1 \in 0..n /\ k - 1 \in Nat /\ k - 1 < k BY <2>2, <1>3
    <3> DEFINE x == f[k - 1]
               l == Len(x)
               v == f[k]
    <3>2. x \in SegmentLists /\ v = Split(x, p[k]) /\ p[k] \in Symbol BY <3>1, <1>3, <1>4
    <3>3. l \in Nat /\ l # 0
          /\ (p[k] = Slash => Len(v) = l + 1 /\ \A i \in 1..l : v[i] = x[i])
          /\ (p[k] # Slash => Len(v) = l /\ \A i \in 1..l : i # l => v[i] = x[i])
      <4> HIDE DEF x, l, v
      <4> DEFINE s == p[k]
                 y == Split(x, s)
      <4>1. s \in Symbol /\ v = y BY <3>2
      <4> HIDE DEF s
      <4>2. /\ Len(x) \in Nat \ {0}
            /\ s = Slash => /\ Len(y) = Len(x) + 1 /\ y[Len(x) + 1] = <<>> /\ \A i \in 1..Len(x) : y[i] = x[i]
            /\ s # Slash => /\ Len(y) = Len(x) /\ y[Len(x)] = Append(x[Len(x)], s)
                            /\ \A i \in 1..Len(x) : i # Len(x) => y[i] = x[i]
        BY <3>2, <4>1, SplitPlaces
      <4> HIDE DEF y
      <4> QED BY <4>1, <4>2 DEF l, s
    <3>4. CASE k = m + 1
      <4>1. x = f[m] /\ p[k] = Slash BY <3>4, <2>2, <1>3
      <4>2. l = r BY <4>1, <1>9
      <4> HIDE DEF v, x, l, r
      <4>3. r < Len(v) /\ \A i \in 1..r : v[i] = x[i] BY <4>1, <4>2, <3>3, <1>9
      <4>4. Keeps(k) BY <4>1, <4>3 DEF v
      <4> QED BY <4>4
    <3>5. CASE k # m + 1
      <4>1. k - 1 \in R BY <3>1, <1>10
      <4>2. m < k - 1 /\ k - 1 <= n BY <3>5, <2>2, <1>3
      <4>3. r < l /\ \A i \in 1..r : x[i] = f[m][i] BY <4>1, <4>2
      <4> HIDE DEF v, x, l, r
      <4>4. \A i \in 1..r : i \in 1..l /\ i # l BY <4>3, <3>3, <1>9
      <4>5. r < Len(v) /\ \A i \in 1..r : v[i] = x[i] BY <4>3, <4>4, <3>3, <1>9
      <4>6. Keeps(k) BY <4>3, <4>5 DEF v
      <4> QED BY <4>6
    <3> QED BY <3>4, <3>5
  <2> QED BY <2>1, <2>2
<1>11. R = Nat
  <2> HIDE DEF R
  <2>1. R \in SUBSET Nat BY DEF R
  <2> QED BY <1>10, <2>1, Induction
<1>12. Keeps(n)
  <2> HIDE DEF Keeps
  <2> QED BY <1>3, <1>11
<1> DEFINE a == Segments(p)
           c == Segments(b)
<1>13. f[n] = a /\ h[m] = c /\ r = Len(c)
  BY <1>4, <1>5
<1>14. CASE n = m
  <2>1. Len(a) = Len(c) /\ Heads(a, c, fold) BY <1>14, <1>9, <1>13
  <2> HIDE DEF a, c
  <2> QED BY <2>1, <1>14 DEF n, m, a, c
<1>15. CASE n # m
  <2>1. r < Len(a) /\ \A i \in 1..r : a[i] = f[m][i] BY <1>15, <1>3, <1>12, <1>13
  <2>2. \A i \in 1..r : SegmentStands(f[m][i], c[i], fold) BY <1>9, <1>13 DEF Heads
  <2>3. Len(a) \in Nat
    <3>1. a \in Seq(Seq(Symbol)) BY SegmentsTyped
    <3> HIDE DEF a
    <3> QED BY <3>1
  <2> HIDE DEF a, c, r
  <2>4. Len(c) <= Len(a) BY <2>1, <2>3, <1>9, <1>13
  <2>5. \A i \in 1..Len(c) : SegmentStands(a[i], c[i], fold) BY <2>1, <2>2, <1>13
  <2>6. Heads(a, c, fold) BY <2>4, <2>5 DEF Heads
  <2> QED BY <2>1, <2>6, <1>13, <1>15 DEF n, m, a, c
<1> QED BY <1>14, <1>15

-----------------------------------------------------------------------------
(* A name that a pattern matches, and the cuts of it that what stands for its first *)
(* segments matches.                                                                *)

\* G[w] is d cut off behind its w-th character.
CutsOf(d, m, W, G) ==
    W \subseteq 0..m /\ \A w \in W : \A l \in 1..w : G[w][l] = d[l]

\* What S reads from the k-th character on, U reads in some cut.
Kept(S, U, W, m, t) ==
    \A k \in 1..(m + 1) : S[<<t, k>>] => \E w \in W : k <= w + 1 /\ U[w][<<t, k>>]

LEMMA CutPlaces ==
    ASSUME NEW m \in Nat, NEW d, NEW W, NEW G, CutsOf(d, m, W, G), NEW w \in W
    PROVE  w \in Nat /\ w <= m /\ \A l \in 1..w : G[w][l] = d[l]
  BY DEF CutsOf

LEMMA SegmentCut ==
    ASSUME NEW s, NEW u, Len(u) \in Nat, NEW fold, SegmentStands(s, u, fold), NEW d \in Seq(Point),
           NEW m \in Nat, m = Len(d), NEW W, NEW G, CutsOf(d, m, W, G), NEW S, NEW U,
           InSegment(s, d, fold, m, S), \A w \in W : InSegment(u, G[w], fold, w, U[w]),
           Kept(S, U, W, m, Len(u) + 1)
    PROVE  Kept(S, U, W, m, 1)
<1> DEFINE n == Len(u)
           Cut(t, k) == \E w \in W : k <= w + 1 /\ U[w][<<t, k>>]
           T == {at \in Grid(n, m) : S[at] => Cut(at[1], at[2])}
<1>1. /\ n \in Nat /\ W \subseteq 0..m
      /\ \A w \in W : w \in Nat /\ \A l \in 1..w : G[w][l] = d[l]
      /\ \A k \in 1..(m + 1) : S[<<n + 1, k>>] => Cut(n + 1, k)
      /\ \A k \in 1..m : d[k] \in Point
  BY DEF CutsOf, Kept
<1>2. \A t \in 1..n : Stands(s[t], u[t], fold)
  BY DEF SegmentStands
<1>3. \A t \in 1..n, k \in 1..(m + 1) :
        /\ s[t] = Star =>
             (S[<<t, k>>] <=> (S[<<t + 1, k>>] \/ (k <= m /\ d[k] # Sep /\ S[<<t, k + 1>>])))
        /\ s[t] # Star =>
             (S[<<t, k>>] <=> (k <= m /\ Accepts(s[t], d[k], fold, FALSE) /\ S[<<t + 1, k + 1>>]))
  <2>1. Len(s) = n BY DEF SegmentStands
  <2> QED BY <2>1 DEF InSegment
<1>4. \A w \in W : \A t \in 1..n, k \in 1..(w + 1) :
        /\ u[t] = Star =>
             (U[w][<<t, k>>] <=> (U[w][<<t + 1, k>>] \/ (k <= w /\ G[w][k] # Sep /\ U[w][<<t, k + 1>>])))
        /\ u[t] # Star =>
             (U[w][<<t, k>>] <=> (k <= w /\ Accepts(u[t], G[w][k], fold, FALSE) /\ U[w][<<t + 1, k + 1>>]))
  BY DEF InSegment
<1> HIDE DEF n
<1>5. ASSUME NEW at \in Grid(n, m), Beyond(n, m, at) \subseteq T PROVE at \in T
  <2> DEFINE t == at[1]
             k == at[2]
  <2>1. /\ t \in Nat /\ k \in Nat /\ at = <<t, k>> /\ t \in 1..(n + 1) /\ k \in 1..(m + 1)
        /\ ~(t > n) => t \in 1..n /\ <<t + 1, k>> \in T
        /\ ~(k > m) => k \in 1..m /\ <<t, k + 1>> \in T
        /\ ~(t > n) /\ ~(k > m) => <<t + 1, k + 1>> \in T
    <3>1. t \in 1..(n + 1) /\ k \in 1..(m + 1) BY DEF Grid
    <3> HIDE DEF Cut
    <3> QED BY <3>1, <1>1, <1>5, GridNext
  <2>2. \A i, j : <<i, j>> \in T => (S[<<i, j>>] => Cut(i, j))
    OBVIOUS
  <2> HIDE DEF Cut
  <2> SUFFICES ASSUME S[<<t, k>>] PROVE Cut(t, k)
    BY <2>1
  <2> HIDE DEF t, k, T
  <2>3. CASE t > n
    <3>1. t = n + 1 BY <2>1, <2>3, <1>1
    <3> QED BY <3>1, <2>1, <1>1
  <2>4. CASE ~(t > n) /\ s[t] = Star
    <3>0. t \in 1..n BY <2>1, <2>4, <1>1
    <3>1. S[<<t + 1, k>>] \/ (k <= m /\ d[k] # Sep /\ S[<<t, k + 1>>])
      BY <3>0, <2>1, <2>4, <1>3
    <3>2. u[t] = Star BY <3>0, <2>4, <1>2, Zenon DEF Stands
    <3>3. CASE S[<<t + 1, k>>]
      <4>1. Cut(t + 1, k) BY <3>3, <2>1, <2>2, <2>4
      <4>2. PICK w \in W : k <= w + 1 /\ U[w][<<t + 1, k>>] BY <4>1 DEF Cut
      <4>3. w \in Nat /\ k \in 1..(w + 1) BY <4>2, <2>1, <1>1
      <4>4. U[w][<<t, k>>] BY <4>2, <4>3, <3>0, <3>2, <1>4
      <4> QED BY <4>2, <4>4 DEF Cut
    <3>4. CASE k <= m /\ d[k] # Sep /\ S[<<t, k + 1>>]
      <4>1. k \in 1..m /\ <<t, k + 1>> \in T BY <3>4, <2>1
      <4>2. Cut(t, k + 1) BY <4>1, <3>4, <2>2
      <4>3. PICK w \in W : k + 1 <= w + 1 /\ U[w][<<t, k + 1>>] BY <4>2 DEF Cut
      <4>4. w \in Nat /\ k \in 1..(w + 1) /\ k <= w /\ k \in 1..w /\ k <= w + 1 BY <4>3, <2>1, <1>1
      <4>5. G[w][k] # Sep BY <4>4, <3>4, <1>1
      <4>6. U[w][<<t, k>>] BY <4>3, <4>4, <4>5, <3>0, <3>2, <1>4
      <4> QED BY <4>4, <4>6 DEF Cut
    <3> QED BY <3>1, <3>3, <3>4
  <2>5. CASE ~(t > n) /\ s[t] # Star
    <3>0. t \in 1..n BY <2>1, <2>5, <1>1
    <3>1. k <= m /\ Accepts(s[t], d[k], fold, FALSE) /\ S[<<t + 1, k + 1>>]
      BY <3>0, <2>1, <2>5, <1>3
    <3>2. k \in 1..m /\ <<t + 1, k + 1>> \in T /\ d[k] \in Point BY <3>1, <2>1, <2>5, <1>1
    <3>3. u[t] # Star /\ Accepts(u[t], d[k], fold, FALSE)
      <4>1. Stands(s[t], u[t], fold) BY <3>0, <1>2
      <4> QED BY <4>1, <3>1, <3>2, <2>5, Zenon DEF Stands
    <3>4. Cut(t + 1, k + 1) BY <3>1, <3>2, <2>2
    <3>5. PICK w \in W : k + 1 <= w + 1 /\ U[w][<<t + 1, k + 1>>] BY <3>4 DEF Cut
    <3>6. w \in Nat /\ k \in 1..(w + 1) /\ k <= w /\ k \in 1..w /\ k <= w + 1 BY <3>5, <2>1, <1>1
    <3>7. Accepts(u[t], G[w][k], fold, FALSE) BY <3>3, <3>6, <1>1
    <3>8. U[w][<<t, k>>] BY <3>3, <3>5, <3>6, <3>7, <3>0, <1>4
    <3> QED BY <3>6, <3>8 DEF Cut
  <2> QED BY <2>3, <2>4, <2>5
<1>6. T = Grid(n, m)
  <2>1. T \in SUBSET Grid(n, m) OBVIOUS
  <2> HIDE DEF T
  <2> QED BY <2>1, <1>1, <1>5, GridInduction
<1>7. ASSUME NEW k \in 1..(m + 1), S[<<1, k>>] PROVE Cut(1, k)
  <2>1. <<1, k>> \in Grid(n, m) BY <1>1 DEF Grid
  <2>2. <<1, k>> \in T BY <2>1, <1>6
  <2> HIDE DEF Cut
  <2> QED BY <2>2, <1>7
<1> QED BY <1>7 DEF Kept

\* A reading of d carries over, segment by segment, to one of its cuts.
LEMMA ReadingCut ==
    ASSUME NEW a, NEW n \in Nat, NEW b, NEW r \in Nat, r > 0, r <= n, NEW fold,
           \A i \in 1..r : a[i] \in Seq(Symbol) /\ b[i] \in Seq(Symbol) /\ SegmentStands(a[i], b[i], fold),
           NEW d \in Seq(Point), NEW m \in Nat, m = Len(d), NEW W, NEW G, CutsOf(d, m, W, G),
           NEW read, NEW reads, Reading(a, n, d, m, fold, read),
           \A w \in W : Reading(b, r, G[w], w, fold, reads[w]),
           \/ b[r] = Globstar /\ m \in W
           \/ b[r] # Globstar /\ \A k \in 1..(m + 1) : read[r][<<Len(b[r]) + 1, k>>] => k - 1 \in W,
           read[1][<<1, 1>>]
    PROVE  \E w \in W : reads[w][1][<<1, 1>>]
<1> DEFINE Us(i) == [w \in W |-> reads[w][i]]
           T == {i \in 1..r : Kept(read[i], Us(i), W, m, 1)}
<1>0. /\ W \subseteq 0..m
      /\ \A w \in W : w \in Nat /\ w <= m /\ \A l \in 1..w : G[w][l] = d[l]
  <2>1. W \subseteq 0..m BY DEF CutsOf
  <2>2. ASSUME NEW w \in W PROVE w \in Nat /\ w <= m /\ \A l \in 1..w : G[w][l] = d[l]
    BY CutPlaces
  <2> QED BY <2>1, <2>2
<1>1. /\ \A i \in 1..n : a[i] # Globstar => InSegment(a[i], d, fold, m, read[i])
      /\ Behind(a, n, d, m, read) /\ Skips(a, n, d, m, read)
      /\ \A w \in W : /\ \A i \in 1..r : b[i] # Globstar => InSegment(b[i], G[w], fold, w, reads[w][i])
                      /\ Behind(b, r, G[w], w, reads[w]) /\ Skips(b, r, G[w], w, reads[w])
  BY Zenon DEF Reading
<1>2. \A i \in 1..r : /\ a[i] = Globstar <=> b[i] = Globstar
                      /\ Len(a[i]) = Len(b[i]) /\ Len(b[i]) \in Nat
  <2> SUFFICES ASSUME NEW i \in 1..r
               PROVE  (a[i] = Globstar <=> b[i] = Globstar) /\ Len(a[i]) = Len(b[i]) /\ Len(b[i]) \in Nat
    OBVIOUS
  <2>1. a[i] \in Seq(Symbol) /\ b[i] \in Seq(Symbol) /\ SegmentStands(a[i], b[i], fold) OBVIOUS
  <2>2. a[i] = Globstar <=> b[i] = Globstar BY <2>1, GlobstarStands
  <2>3. Len(b[i]) \in Nat BY <2>1
  <2> QED BY <2>1, <2>2, <2>3 DEF SegmentStands
<1>3. \A i : \A w \in W : Us(i)[w] = reads[w][i]
  OBVIOUS
<1> HIDE DEF Us
<1>4. ASSUME NEW i \in 1..r, b[i] # Globstar, Kept(read[i], Us(i), W, m, Len(b[i]) + 1)
      PROVE  i \in T
  <2> DEFINE s == a[i]
             u == b[i]
             S == read[i]
             U == Us(i)
  <2>1. SegmentStands(s, u, fold) /\ Len(u) \in Nat BY <1>2
  <2>2. i \in 1..n OBVIOUS
  <2>3. InSegment(s, d, fold, m, S) BY <2>2, <1>1, <1>2, <1>4
  <2>4. \A w \in W : InSegment(u, G[w], fold, w, U[w]) BY <1>1, <1>3, <1>4
  <2>5. Kept(S, U, W, m, Len(u) + 1) BY <1>4
  <2> HIDE DEF s, u, S, U
  <2>6. Kept(S, U, W, m, 1) BY <2>1, <2>3, <2>4, <2>5, SegmentCut
  <2> QED BY <2>6 DEF S, U
<1>5. ASSUME NEW i \in 1..r, \A l \in 1..r : i < l => l \in T PROVE i \in T
  <2>1. CASE i = r /\ b[i] = Globstar
    <3>1. m \in W /\ m \in Nat BY <2>1
    <3>2. ASSUME NEW k \in 1..(m + 1) PROVE k <= m + 1 /\ Us(i)[m][<<1, k>>]
      <4>1. k <= m + 1 OBVIOUS
      <4>2. Skips(b, r, G[m], m, reads[m]) BY <3>1, <1>1
      <4>3. reads[m][i][<<1, k>>] BY <4>2, <2>1, Zenon DEF Skips
      <4> QED BY <4>1, <4>3, <3>1, <1>3
    <3>3. Kept(read[i], Us(i), W, m, 1) BY <3>1, <3>2, Zenon DEF Kept
    <3> QED BY <3>3
  <2>2. CASE i = r /\ b[i] # Globstar
    <3> DEFINE L == Len(b[i])
    <3>1. ASSUME NEW k \in 1..(m + 1), read[i][<<L + 1, k>>]
          PROVE  \E w \in W : k <= w + 1 /\ Us(i)[w][<<L + 1, k>>]
      <4> DEFINE w == k - 1
      <4>1. w \in W BY <3>1, <2>2
      <4>2. k = w + 1 /\ k <= w + 1 /\ k \in 1..(w + 1) /\ w \in Nat OBVIOUS
      <4> HIDE DEF w
      <4>3. Behind(b, r, G[w], w, reads[w]) BY <4>1, <1>1
      <4>4. reads[w][i][<<L + 1, k>>] BY <4>2, <4>3, <2>2, Zenon DEF Behind
      <4> QED BY <4>1, <4>2, <4>4, <1>3
    <3>2. Kept(read[i], Us(i), W, m, Len(b[i]) + 1) BY <3>1, Zenon DEF Kept
    <3> HIDE DEF T
    <3> QED BY <3>2, <2>2, <1>4
  <2>3. CASE i # r
    <3>1. i + 1 \in 1..r /\ i < i + 1 /\ i \in 1..n /\ i # n BY <2>3
    <3>2. i + 1 \in T
      <4> HIDE DEF T
      <4> QED BY <3>1, <1>5
    <3>3. \A p \in 1..(m + 1) : read[i + 1][<<1, p>>] => \E w \in W : p <= w + 1 /\ reads[w][i + 1][<<1, p>>]
      <4>1. Kept(read[i + 1], Us(i + 1), W, m, 1) BY <3>2
      <4> QED BY <4>1, <1>3 DEF Kept
    <3> HIDE DEF T
    <3>4. CASE b[i] = Globstar
      <4>1. ASSUME NEW k \in 1..(m + 1), read[i][<<1, k>>]
            PROVE  \E w \in W : k <= w + 1 /\ Us(i)[w][<<1, k>>]
        <5>1. read[i + 1][<<1, k>>] \/ \E l \in k..m : d[l] = Sep /\ read[i + 1][<<1, l + 1>>]
          BY <4>1, <3>1, <3>4, <1>1, <1>2, Zenon DEF Skips
        <5>2. ASSUME NEW w \in W, k <= w + 1
              PROVE  reads[w][i][<<1, k>>] <=>
                        (reads[w][i + 1][<<1, k>>] \/ \E l \in k..w : G[w][l] = Sep /\ reads[w][i + 1][<<1, l + 1>>])
          <6> DEFINE g == G[w]
                     rd == reads[w]
          <6>1. k \in 1..(w + 1) BY <5>2, <1>0
          <6>2. Skips(b, r, g, w, rd) BY <1>1
          <6> HIDE DEF g, rd
          <6>3. rd[i][<<1, k>>] <=> (rd[i + 1][<<1, k>>] \/ \E l \in k..w : g[l] = Sep /\ rd[i + 1][<<1, l + 1>>])
            BY <6>1, <6>2, <2>3, <3>4, Zenon DEF Skips
          <6> QED BY <6>3 DEF g, rd
        <5>3. CASE read[i + 1][<<1, k>>]
          <6>1. PICK w \in W : k <= w + 1 /\ reads[w][i + 1][<<1, k>>] BY <5>3, <3>3
          <6>2. reads[w][i][<<1, k>>] BY <6>1, <5>2
          <6> QED BY <6>1, <6>2, <1>3
        <5>4. CASE \E l \in k..m : d[l] = Sep /\ read[i + 1][<<1, l + 1>>]
          <6>1. PICK l \in k..m : d[l] = Sep /\ read[i + 1][<<1, l + 1>>] BY <5>4
          <6>2. l + 1 \in 1..(m + 1) /\ l \in Nat BY <6>1
          <6>3. PICK w \in W : l + 1 <= w + 1 /\ reads[w][i + 1][<<1, l + 1>>] BY <6>1, <6>2, <3>3
          <6>4. w \in Nat /\ l \in k..w /\ l \in 1..w /\ k <= w + 1 BY <6>2, <6>3, <1>0
          <6>5. G[w][l] = Sep BY <6>1, <6>4, <1>0
          <6>6. reads[w][i][<<1, k>>] BY <6>3, <6>4, <6>5, <5>2
          <6> QED BY <6>4, <6>6, <1>3
        <5> QED BY <5>1, <5>3, <5>4
      <4>2. Kept(read[i], Us(i), W, m, 1) BY <4>1, Zenon DEF Kept
      <4> QED BY <4>2 DEF T
    <3>5. CASE b[i] # Globstar
      <4> DEFINE L == Len(b[i])
      <4>1. ASSUME NEW k \in 1..(m + 1), read[i][<<L + 1, k>>]
            PROVE  \E w \in W : k <= w + 1 /\ Us(i)[w][<<L + 1, k>>]
        <5>1. read[i][<<Len(a[i]) + 1, k>>] /\ a[i] # Globstar BY <4>1, <3>5, <1>2
        <5>2. k <= m /\ d[k] = Sep /\ read[i + 1][<<1, k + 1>>]
          BY <5>1, <3>1, <1>1, Zenon DEF Behind
        <5>3. k + 1 \in 1..(m + 1) BY <5>2
        <5>4. PICK w \in W : k + 1 <= w + 1 /\ reads[w][i + 1][<<1, k + 1>>] BY <5>2, <5>3, <3>3
        <5>5. w \in Nat /\ k \in 1..(w + 1) /\ k <= w /\ k \in 1..w /\ k <= w + 1 BY <5>4, <1>0
        <5>6. G[w][k] = Sep BY <5>2, <5>5, <1>0
        <5>7. Behind(b, r, G[w], w, reads[w]) BY <1>1
        <5>8. reads[w][i][<<L + 1, k>>]
          BY <5>4, <5>5, <5>6, <5>7, <2>3, <3>5, Zenon DEF Behind
        <5> QED BY <5>5, <5>8, <1>3
      <4>2. Kept(read[i], Us(i), W, m, Len(b[i]) + 1) BY <4>1, Zenon DEF Kept
      <4> QED BY <4>2, <3>5, <1>4
    <3> QED BY <3>4, <3>5
  <2> QED BY <2>1, <2>2, <2>3
<1>6. T = 1..r
  <2>1. T \in SUBSET (1..r) OBVIOUS
  <2> HIDE DEF T
  <2> QED BY <2>1, <1>5, Downward
<1>7. Kept(read[1], Us(1), W, m, 1) /\ 1 \in 1..(m + 1)
  BY <1>6
<1> QED BY <1>3, <1>7 DEF Kept

\* Of the two patterns, as far as the cuts need them.
LEMMA LeadFacts ==
    ASSUME NEW t \in Seq(Symbol), NEW z \in Seq(Symbol), NEW fold, Leads(t, z, fold)
    PROVE  LET a == Segments(t)
               b == Segments(z)
           IN /\ Len(a) \in Nat /\ Len(b) \in Nat /\ Len(b) > 0 /\ Len(b) <= Len(a)
              /\ \A i \in 1..Len(b) : /\ a[i] \in Seq(Symbol) /\ b[i] \in Seq(Symbol)
                                      /\ SegmentStands(a[i], b[i], fold)
<1> DEFINE a == Segments(t)
           b == Segments(z)
<1>1. Heads(a, b, fold)
  BY SegmentsLead
<1>2. a \in Seq(Seq(Symbol)) /\ b \in Seq(Seq(Symbol)) /\ b # <<>>
  BY SegmentsTyped
<1> HIDE DEF a, b
<1>3. Len(b) <= Len(a) /\ \A i \in 1..Len(b) : SegmentStands(a[i], b[i], fold)
  BY <1>1 DEF Heads
<1>4. Len(a) \in Nat /\ Len(b) \in Nat /\ Len(b) > 0
  BY <1>2, EmptySeq
<1>5. \A i \in 1..Len(b) : a[i] \in Seq(Symbol) /\ b[i] \in Seq(Symbol)
  <2> SUFFICES ASSUME NEW i \in 1..Len(b) PROVE a[i] \in Seq(Symbol) /\ b[i] \in Seq(Symbol)
    OBVIOUS
  <2>1. i \in 1..Len(a) BY <1>3, <1>4
  <2> QED BY <2>1, <1>2
<1> QED BY <1>3, <1>4, <1>5 DEF a, b

\* A pattern that stands for another one, symbol by symbol, is matched by what matches that.
LEMMA MatchSame ==
    ASSUME NEW t \in Seq(Symbol), NEW z \in Seq(Symbol), NEW fold, SegmentStands(t, z, fold),
           NEW d \in Seq(Point), RegexpMatches(Regexp(t), d, fold, FALSE)
    PROVE  RegexpMatches(Regexp(z), d, fold, FALSE)
<1> DEFINE a == Segments(t)
           b == Segments(z)
           n == Len(a)
           r == Len(b)
           m == Len(d)
           W == {m}
           G == [w \in W |-> d]
<1>1. Leads(t, z, fold) /\ Len(t) = Len(z)
  <2>1. Len(t) = Len(z) /\ Len(z) \in Nat BY DEF SegmentStands
  <2> QED BY <2>1 DEF SegmentStands, Leads
<1>2. /\ n \in Nat /\ r \in Nat /\ r > 0 /\ r <= n
      /\ \A i \in 1..r : a[i] \in Seq(Symbol) /\ b[i] \in Seq(Symbol) /\ SegmentStands(a[i], b[i], fold)
  BY <1>1, LeadFacts
<1>3. n = r
  BY <1>1, SegmentsLead
<1>4. PICK read : Reads(t, d, fold, read)
  BY PatternReads
<1>5. PICK rd : Reads(z, d, fold, rd)
  BY PatternReads
<1> DEFINE reads == [w \in W |-> rd]
<1>6. /\ Reading(a, n, d, m, fold, read) /\ read[1][<<1, 1>>]
      /\ Reading(b, r, d, m, fold, rd)
      /\ RegexpMatches(Regexp(z), d, fold, FALSE) <=> rd[1][<<1, 1>>]
  BY <1>4, <1>5, Zenon DEF Reads
<1> HIDE DEF a, b, n, r
<1>7. m \in Nat /\ m \in W /\ \A w \in W : w = m /\ G[w] = d /\ reads[w] = rd
  OBVIOUS
<1>8. CutsOf(d, m, W, G)
  <2>1. W \subseteq 0..m BY <1>7
  <2> HIDE DEF G, W
  <2>2. \A w \in W : \A l \in 1..w : G[w][l] = d[l] BY <1>7
  <2> QED BY <2>1, <2>2 DEF CutsOf
<1> HIDE DEF m
<1>9. m = Len(d)
  BY DEF m
<1> HIDE DEF W, G, reads
<1>10. \A w \in W : Reading(b, r, G[w], w, fold, reads[w])
  BY <1>6, <1>7
<1>11. \A k \in 1..(m + 1) : b[r] # Globstar /\ read[r][<<Len(b[r]) + 1, k>>] => k - 1 \in W
  <2> SUFFICES ASSUME NEW k \in 1..(m + 1), b[r] # Globstar, read[r][<<Len(b[r]) + 1, k>>] PROVE k - 1 \in W
    OBVIOUS
  <2>1. r \in 1..r BY <1>2
  <2>2. Len(a[r]) = Len(b[r]) /\ a[r] # Globstar
    <3>1. a[r] \in Seq(Symbol) /\ b[r] \in Seq(Symbol) /\ SegmentStands(a[r], b[r], fold) BY <2>1, <1>2
    <3>2. a[r] = Globstar <=> b[r] = Globstar BY <3>1, GlobstarStands
    <3> QED BY <3>1, <3>2 DEF SegmentStands
  <2>3. read[r][<<Len(a[r]) + 1, k>>] BY <2>2
  <2>4. Behind(a, n, d, m, read) BY <1>6, Zenon DEF Reading
  <2>5. k = m + 1 BY <2>1, <2>2, <2>3, <2>4, <1>3, Zenon DEF Behind
  <2>6. k - 1 = m BY <2>5, <1>7
  <2> QED BY <2>6, <1>7
<1>12. \E w \in W : reads[w][1][<<1, 1>>]
  <2>1. m \in Nat BY <1>7
  <2>2. \/ b[r] = Globstar /\ m \in W
        \/ b[r] # Globstar /\ \A k \in 1..(m + 1) : read[r][<<Len(b[r]) + 1, k>>] => k - 1 \in W
    BY <1>7, <1>11
  <2>3. Reading(a, n, d, m, fold, read) /\ read[1][<<1, 1>>] BY <1>6
  <2> QED BY <2>1, <2>2, <2>3, <1>2, <1>8, <1>9, <1>10, ReadingCut
<1> QED BY <1>6, <1>7, <1>12

\* Where the cuts of a name are: at its end and before its separators.
Bounds(d) == {w \in 0..Len(d) : w = Len(d) \/ d[w + 1] = Sep}

LEMMA MatchCut ==
    ASSUME NEW t \in Seq(Symbol), NEW z \in Seq(Symbol), NEW fold, Leads(t, z, fold), ~EndsOpen(z),
           NEW d \in Seq(Point), RegexpMatches(Regexp(t), d, fold, FALSE)
    PROVE  \E w \in Bounds(d) : RegexpMatches(Regexp(z), SubSeq(d, 1, w), fold, FALSE)
<1> DEFINE a == Segments(t)
           b == Segments(z)
           n == Len(a)
           r == Len(b)
           m == Len(d)
           W == Bounds(d)
           G == [w \in W |-> SubSeq(d, 1, w)]
           reads == [w \in W |-> CHOOSE rd : Reads(z, SubSeq(d, 1, w), fold, rd)]
<1>1. b[r] # Globstar
  BY DEF EndsOpen
<1>2. /\ n \in Nat /\ r \in Nat /\ r > 0 /\ r <= n
      /\ \A i \in 1..r : a[i] \in Seq(Symbol) /\ b[i] \in Seq(Symbol) /\ SegmentStands(a[i], b[i], fold)
  BY LeadFacts
<1>3. m \in Nat /\ W \subseteq 0..m /\ \A w \in 0..m : w = m \/ d[w + 1] = Sep => w \in W
  BY DEF Bounds
<1>4. ASSUME NEW w \in W
      PROVE  G[w] \in Seq(Point) /\ Len(G[w]) = w /\ \A l \in 1..w : G[w][l] = d[l]
  <2> DEFINE u == SubSeq(d, 1, w)
  <2>1. w \in Nat /\ w <= m BY <1>3
  <2>2. 1 \in Nat /\ w \in Int /\ 1 <= 1 /\ w <= Len(d) BY <2>1
  <2>3. /\ u \in Seq(Point) /\ Len(u) = IF 1 <= w THEN w - 1 + 1 ELSE 0
        /\ \A i \in 1..(w - 1 + 1) : u[i] = d[1 + i - 1]
    BY <2>2, SubSeqTyped
  <2>4. G[w] = u OBVIOUS
  <2> HIDE DEF u, G, W, m
  <2>5. Len(u) = w /\ w - 1 + 1 = w /\ \A i \in 1..w : 1 + i - 1 = i BY <2>1, <2>3
  <2> QED BY <2>3, <2>4, <2>5
<1>5. ASSUME NEW w \in W PROVE Reads(z, G[w], fold, reads[w])
  <2>1. G[w] = SubSeq(d, 1, w) /\ reads[w] = CHOOSE rd : Reads(z, SubSeq(d, 1, w), fold, rd) OBVIOUS
  <2> HIDE DEF G, W, reads
  <2>2. \E rd : Reads(z, G[w], fold, rd) BY <1>4, PatternReads
  <2> QED BY <2>1, <2>2, Zenon
<1>6. PICK read : Reads(t, d, fold, read)
  BY PatternReads
<1>7. Reading(a, n, d, m, fold, read) /\ read[1][<<1, 1>>]
  BY <1>6, Zenon DEF Reads
<1> HIDE DEF G, W, reads
<1>8. ASSUME NEW w \in W
      PROVE  /\ Reading(b, r, G[w], w, fold, reads[w])
             /\ RegexpMatches(Regexp(z), G[w], fold, FALSE) <=> reads[w][1][<<1, 1>>]
  <2>1. Reads(z, G[w], fold, reads[w]) /\ Len(G[w]) = w BY <1>4, <1>5
  <2> HIDE DEF b, r
  <2>2. /\ Reading(b, r, G[w], Len(G[w]), fold, reads[w])
        /\ RegexpMatches(Regexp(z), G[w], fold, FALSE) <=> reads[w][1][<<1, 1>>]
    BY <2>1, Zenon DEF Reads, b, r
  <2> QED BY <2>1, <2>2
<1> HIDE DEF a, b, n, r, m
<1>9. CutsOf(d, m, W, G)
  BY <1>3, <1>4 DEF CutsOf
<1>10. \A k \in 1..(m + 1) : read[r][<<Len(b[r]) + 1, k>>] => k - 1 \in W
  <2> SUFFICES ASSUME NEW k \in 1..(m + 1), read[r][<<Len(b[r]) + 1, k>>] PROVE k - 1 \in W
    OBVIOUS
  <2>1. r \in 1..r /\ r \in 1..n BY <1>2
  <2>2. Len(a[r]) = Len(b[r]) /\ a[r] # Globstar
    <3>1. a[r] \in Seq(Symbol) /\ b[r] \in Seq(Symbol) /\ SegmentStands(a[r], b[r], fold) BY <2>1, <1>2
    <3>2. a[r] = Globstar <=> b[r] = Globstar BY <3>1, GlobstarStands
    <3> QED BY <3>1, <3>2, <1>1 DEF SegmentStands
  <2>3. read[r][<<Len(a[r]) + 1, k>>] BY <2>2
  <2>4. Behind(a, n, d, m, read) BY <1>7, Zenon DEF Reading
  <2>5. k = m + 1 \/ (k <= m /\ d[k] = Sep) BY <2>1, <2>2, <2>3, <2>4, Zenon DEF Behind
  <2>6. k - 1 \in 0..m /\ (k - 1) + 1 = k /\ (k = m + 1 => k - 1 = m) BY <1>3
  <2> QED BY <2>5, <2>6, <1>3
<1>11. m = Len(d)
  BY DEF m
<1>12. \A w \in W : Reading(b, r, G[w], w, fold, reads[w])
  BY <1>8
<1>13. \E w \in W : reads[w][1][<<1, 1>>]
  <2>1. m \in Nat BY <1>3
  <2>2. \/ b[r] = Globstar /\ m \in W
        \/ b[r] # Globstar /\ \A k \in 1..(m + 1) : read[r][<<Len(b[r]) + 1, k>>] => k - 1 \in W
    BY <1>1, <1>10
  <2> QED BY <2>1, <2>2, <1>2, <1>7, <1>9, <1>11, <1>12, ReadingCut
<1>14. PICK w \in W : reads[w][1][<<1, 1>>]
  BY <1>13
<1>15. RegexpMatches(Regexp(z), G[w], fold, FALSE)
  BY <1>8, <1>14
<1>16. G[w] = SubSeq(d, 1, w)
  BY DEF G
<1> QED BY <1>15, <1>16 DEF W

-----------------------------------------------------------------------------
(* Patterns without wildcards. *)

StarFree(s) == \A t \in 1..Len(s) : s[t] # Star

LEMMA SegmentsStarFree ==
    ASSUME NEW z \in Seq(Symbol), StarFree(z)
    PROVE  \A i \in 1..Len(Segments(z)) : StarFree(Segments(z)[i])
<1> DEFINE n == Len(z)
           V == {segs \in SegmentLists : \A i \in 1..Len(segs) : StarFree(segs[i])}
<1>1. n \in Nat /\ DOMAIN z = 1..n /\ \A k \in 1..n : z[k] \in Symbol /\ z[k] # Star
  BY DEF StarFree
<1> HIDE DEF n
<1>2. << <<>> >> \in V
  <2> DEFINE e == << <<>> >>
  <2>1. e \in SegmentLists /\ Len(e) = 1 /\ e[1] = <<>> BY DEF SegmentLists
  <2>2. StarFree(<<>>) BY DEF StarFree
  <2> HIDE DEF e
  <2>3. \A i \in 1..Len(e) : StarFree(e[i]) BY <2>1, <2>2
  <2> QED BY <2>1, <2>3 DEF e
<1>3. ASSUME NEW segs \in V, NEW k \in 1..n PROVE Split(segs, z[k]) \in V
  <2> DEFINE s == z[k]
             v == Split(segs, s)
             l == Len(segs)
  <2>1. segs \in SegmentLists /\ \A i \in 1..l : StarFree(segs[i]) OBVIOUS
  <2>2. s \in Symbol /\ s # Star BY <1>1
  <2> HIDE DEF V, s
  <2>3. /\ v \in SegmentLists /\ l \in Nat \ {0}
        /\ \A i \in 1..l : segs[i] \in Seq(Symbol)
        /\ s = Slash => Len(v) = l + 1 /\ v[l + 1] = <<>> /\ \A i \in 1..l : v[i] = segs[i]
        /\ s # Slash => Len(v) = l /\ v[l] = Append(segs[l], s) /\ \A i \in 1..l : i # l => v[i] = segs[i]
    BY <2>1, <2>2, SplitPlaces
  <2> HIDE DEF v, l
  <2>4. ASSUME NEW i \in 1..Len(v) PROVE StarFree(v[i])
    <3>1. CASE s = Slash
      <4>1. i \in 1..l \/ i = l + 1 BY <3>1, <2>3
      <4>2. CASE i \in 1..l BY <4>2, <3>1, <2>1, <2>3
      <4>3. CASE i = l + 1
        <5>1. v[i] = <<>> BY <4>3, <3>1, <2>3
        <5> QED BY <5>1 DEF StarFree
      <4> QED BY <4>1, <4>2, <4>3
    <3>2. CASE s # Slash
      <4>1. i \in 1..l /\ l \in 1..l BY <3>2, <2>3
      <4>2. CASE i # l BY <4>1, <4>2, <3>2, <2>1, <2>3
      <4>3. CASE i = l
        <5> DEFINE x == segs[l]
                   u == Append(x, s)
        <5>1. x \in Seq(Symbol) /\ StarFree(x) /\ v[i] = u BY <4>1, <4>3, <3>2, <2>1, <2>3
        <5> HIDE DEF x
        <5>2. Grown(Symbol, x, s, u) BY <5>1, <2>2, AppendGrows
        <5> HIDE DEF u
        <5>3. Len(u) = Len(x) + 1 /\ u[Len(x) + 1] = s /\ \A t \in 1..Len(x) : u[t] = x[t] BY <5>2 DEF Grown
        <5>4. Len(x) \in Nat BY <5>1
        <5>5. ASSUME NEW t \in 1..Len(u) PROVE u[t] # Star
          <6>1. t \in 1..Len(x) \/ t = Len(x) + 1 BY <5>3, <5>4
          <6> QED BY <6>1, <5>1, <5>3, <2>2 DEF StarFree
        <5> QED BY <5>1, <5>5 DEF StarFree
      <4> QED BY <4>2, <4>3
    <3> QED BY <3>1, <3>2
  <2>5. v \in V BY <2>3, <2>4 DEF V
  <2> QED BY <2>5 DEF v, s
<1> HIDE DEF V
<1>4. \E f : SplitRounds(V, z, n, f)
  BY <1>1, <1>2, <1>3, SplitFold
<1>5. PICK f : SplitRounds(V, z, n, f)
  BY <1>4
<1>6. Segments(z) \in V
  <2>1. f[n] \in V BY <1>1, <1>5 DEF SplitRounds
  <2>2. f[n] = Segments(z) BY <1>5 DEF SplitRounds, Segments
  <2> QED BY <2>1, <2>2
<1> QED BY <1>6 DEF V

LEMMA LiteralStarFree ==
    ASSUME NEW z \in Seq(Symbol), Literal(z)
    PROVE  StarFree(z)
<1>1. Star.kind = "star"
  BY DEF Star
<1> QED BY <1>1 DEF Literal, StarFree

LEMMA StarFreeOpen ==
    ASSUME NEW z \in Seq(Symbol), StarFree(z)
    PROVE  \A i \in 1..Len(Segments(z)) : Segments(z)[i] # Globstar
<1> DEFINE a == Segments(z)
<1>1. \A i \in 1..Len(a) : StarFree(a[i])
  BY SegmentsStarFree
<1>2. ~StarFree(Globstar)
  <2>1. 1 \in 1..Len(Globstar) /\ Globstar[1] = Star BY DEF Globstar
  <2> QED BY <2>1 DEF StarFree
<1> HIDE DEF a
<1>3. \A i \in 1..Len(a) : a[i] # Globstar
  BY <1>1, <1>2
<1> QED BY <1>3 DEF a

\* What has no wildcards and is not empty does not match the empty name.
LEMMA NothingUnmatched ==
    ASSUME NEW z \in Seq(Symbol), StarFree(z), <<>> \notin ToSet(Segments(z)), NEW fold,
           NEW d \in Seq(Point), Len(d) = 0
    PROVE  ~RegexpMatches(Regexp(z), d, fold, FALSE)
<1> DEFINE a == Segments(z)
           n == Len(a)
           s == a[1]
<1>1. a \in Seq(Seq(Symbol)) /\ a # <<>>
  BY SegmentsTyped
<1>2. PICK read : Reads(z, d, fold, read)
  BY PatternReads
<1>3. Reading(a, n, d, 0, fold, read) /\ (RegexpMatches(Regexp(z), d, fold, FALSE) <=> read[1][<<1, 1>>])
  BY <1>2, Zenon DEF Reads
<1>4. \A i \in 1..n : StarFree(a[i]) /\ a[i] # Globstar
  BY SegmentsStarFree, StarFreeOpen
<1>5. <<>> \notin ToSet(a)
  OBVIOUS
<1> HIDE DEF a
<1>6. n \in Nat /\ n > 0 /\ 1 \in 1..n /\ s \in Seq(Symbol) /\ s # <<>>
  <2>1. n \in Nat /\ n > 0 BY <1>1, EmptySeq
  <2>2. 1 \in 1..n /\ 1 \in DOMAIN a BY <2>1, <1>1
  <2>3. s \in Seq(Symbol) BY <2>2, <1>1
  <2>4. s \in ToSet(a) BY <2>2 DEF ToSet
  <2> QED BY <2>1, <2>2, <2>3, <2>4, <1>5
<1>7. StarFree(s) /\ s # Globstar
  BY <1>4, <1>6
<1>8. InSegment(s, d, fold, 0, read[1])
  BY <1>3, <1>6, <1>7, Zenon DEF Reading
<1> HIDE DEF s
<1>9. 1 \in 1..Len(s)
  <2>1. Len(s) \in Nat /\ Len(s) > 0 BY <1>6, EmptySeq
  <2> QED BY <2>1
<1>10. s[1] # Star
  BY <1>7, <1>9 DEF StarFree
<1>11. ~read[1][<<1, 1>>]
  <2>1. 1 \in 1..(0 + 1) /\ ~(1 <= 0) OBVIOUS
  <2> DEFINE S == read[1]
  <2> HIDE DEF S
  <2>2. S[<<1, 1>>] <=> (1 <= 0 /\ Accepts(s[1], d[1], fold, FALSE) /\ S[<<1 + 1, 1 + 1>>])
    BY <2>1, <1>8, <1>9, <1>10 DEF InSegment, S
  <2> QED BY <2>1, <2>2 DEF S
<1> QED BY <1>3, <1>11

-----------------------------------------------------------------------------
(* The forms of a pattern without the "/**" it ends in. *)

LEMMA SuffixOfSubtree ==
    ASSUME NEW z \in Seq(Symbol)
    PROVE  IsSuffix(Subtree, z \o Subtree)
<1> DEFINE n == Len(z)
           v == z \o Subtree
           r == Reverse(Subtree)
           u == Reverse(v)
<1>1. /\ Subtree \in Seq(Symbol) /\ Len(Subtree) = 3
      /\ Subtree[1] = Slash /\ Subtree[2] = Star /\ Subtree[3] = Star
  BY SubtreeTyped DEF Pattern
<1>2. /\ v \in Seq(Symbol) /\ Len(v) = n + 3
      /\ v[n + 1] = Slash /\ v[n + 2] = Star /\ v[n + 3] = Star
  BY SubtreePlaces
<1>3. n \in Nat
  OBVIOUS
<1> HIDE DEF v, n
<1>4. r \in Seq(Symbol) /\ Len(r) = 3 /\ \A i \in 1..3 : r[i] = Subtree[3 - i + 1]
  BY <1>1, ReverseTyped
<1>5. u \in Seq(Symbol) /\ Len(u) = Len(v) /\ \A i \in 1..Len(v) : u[i] = v[Len(v) - i + 1]
  BY <1>2, ReverseTyped
<1> HIDE DEF r, u
<1>6. /\ r[1] = Subtree[3 - 1 + 1] /\ r[2] = Subtree[3 - 2 + 1] /\ r[3] = Subtree[3 - 3 + 1]
      /\ u[1] = v[(n + 3) - 1 + 1] /\ u[2] = v[(n + 3) - 2 + 1] /\ u[3] = v[(n + 3) - 3 + 1]
  <2>1. 1 \in 1..(n + 3) /\ 2 \in 1..(n + 3) /\ 3 \in 1..(n + 3) BY <1>3
  <2> QED BY <2>1, <1>2, <1>4, <1>5
<1>7. /\ 3 - 1 + 1 = 3 /\ 3 - 2 + 1 = 2 /\ 3 - 3 + 1 = 1
      /\ (n + 3) - 1 + 1 = n + 3 /\ (n + 3) - 2 + 1 = n + 2 /\ (n + 3) - 3 + 1 = n + 1
  BY <1>3
<1>8. \A i \in 1..3 : r[i] = u[i]
  <2>1. r[1] = u[1] /\ r[2] = u[2] /\ r[3] = u[3] BY <1>1, <1>2, <1>6, <1>7
  <2> SUFFICES ASSUME NEW i \in 1..3 PROVE r[i] = u[i] OBVIOUS
  <2>2. i = 1 \/ i = 2 \/ i = 3 OBVIOUS
  <2> QED BY <2>1, <2>2
<1> DEFINE x == SubSeq(r, 1, 3)
           y == SubSeq(u, 1, 3)
<1>9. /\ x \in Seq(Symbol) /\ Len(x) = 3 /\ \A i \in 1..3 : x[i] = r[i]
      /\ y \in Seq(Symbol) /\ Len(y) = 3 /\ \A i \in 1..3 : y[i] = u[i]
  <2> DEFINE k == 3
  <2>1. 1 \in Nat /\ k \in Int /\ 1 <= 1 /\ k <= Len(r) /\ k <= Len(u) BY <1>2, <1>3, <1>4, <1>5
  <2>2. x = SubSeq(r, 1, k) /\ y = SubSeq(u, 1, k) OBVIOUS
  <2>3. k = 3 OBVIOUS
  <2> HIDE DEF r, u, x, y, k
  <2>4. ASSUME NEW w \in Seq(Symbol), k <= Len(w)
        PROVE  LET part == SubSeq(w, 1, k)
               IN part \in Seq(Symbol) /\ Len(part) = k /\ \A i \in 1..k : part[i] = w[i]
    <3> DEFINE part == SubSeq(w, 1, k)
    <3>1. part \in Seq(Symbol) /\ Len(part) = (IF 1 <= k THEN k - 1 + 1 ELSE 0)
          /\ \A i \in 1..(k - 1 + 1) : part[i] = w[1 + i - 1]
      BY <2>1, <2>4, SubSeqTyped
    <3> HIDE DEF part
    <3>2. k - 1 + 1 = k /\ 1 <= k /\ \A i \in 1..k : 1 + i - 1 = i BY <2>3
    <3>3. part \in Seq(Symbol) /\ Len(part) = k /\ \A i \in 1..k : part[i] = w[i] BY <3>1, <3>2
    <3> QED BY <3>3 DEF part
  <2>5. /\ x \in Seq(Symbol) /\ Len(x) = k /\ \A i \in 1..k : x[i] = r[i]
        /\ y \in Seq(Symbol) /\ Len(y) = k /\ \A i \in 1..k : y[i] = u[i]
    BY <2>1, <2>2, <2>4, <1>4, <1>5
  <2> QED BY <2>3, <2>5
<1> HIDE DEF x, y
<1>10. x = y
  <2>1. x \in Seq(Symbol) /\ y \in Seq(Symbol) /\ Len(x) = Len(y) BY <1>9
  <2>2. Len(x) = 3 /\ \A i \in 1..3 : x[i] = y[i] BY <1>8, <1>9
  <2>3. \A i \in 1..Len(x) : x[i] = y[i] BY <2>2
  <2> QED BY <2>1, <2>3, SeqEqual
<1>11. Len(r) <= Len(u) /\ SubSeq(r, 1, Len(r)) = SubSeq(u, 1, Len(r))
  <2>1. Len(r) = 3 /\ 3 <= Len(u) BY <1>2, <1>3, <1>4, <1>5
  <2> QED BY <2>1, <1>10 DEF x, y
<1> QED BY <1>11 DEF IsSuffix, IsPrefix, r, u, v

LEMMA TrimmedCases ==
    ASSUME NEW x \in Seq(Symbol), NEW t \in Trimmed[x]
    PROVE  \/ t = x
           \/ \E z \in Seq(Symbol) : z # <<>> /\ x = z \o Subtree /\ Len(x) = Len(z) + 3 /\ t \in Trimmed[z]
<1> DEFINE b == Base(x)
<1>1. Trimmed[x] = TrimmedTurn(Trimmed, x)
  BY TrimmedRecursion
<1>2. CASE IsSuffix(Subtree, x) /\ x # Subtree
  <2>1. TrimmedTurn(Trimmed, x) = {x} \cup Trimmed[b] BY <1>2, Zenon DEF TrimmedTurn
  <2>2. Len(x) >= 3 /\ b \in Seq(Symbol) /\ Len(b) = Len(x) - 3 /\ x = b \o Subtree
    BY <1>2, SubtreeSuffix
  <2> HIDE DEF b
  <2>3. b # <<>>
    <3>1. Subtree \in Seq(Symbol) BY SubtreeTyped DEF Pattern
    <3>2. <<>> \o Subtree = Subtree BY <3>1, ConcatEmptySeq
    <3> QED BY <3>2, <1>2, <2>2
  <2>4. Len(x) = Len(b) + 3
    <3>1. Len(x) \in Nat OBVIOUS
    <3> QED BY <3>1, <2>2
  <2>5. t = x \/ t \in Trimmed[b] BY <1>1, <2>1
  <2> QED BY <2>2, <2>3, <2>4, <2>5
<1>3. CASE ~(IsSuffix(Subtree, x) /\ x # Subtree)
  <2>1. TrimmedTurn(Trimmed, x) = {x} BY <1>3, Zenon DEF TrimmedTurn
  <2> QED BY <2>1, <1>1
<1> QED BY <1>2, <1>3

LEMMA TrimmedSelf ==
    ASSUME NEW x \in Seq(Symbol)
    PROVE  x \in Trimmed[x]
<1>1. Trimmed[x] = TrimmedTurn(Trimmed, x)
  BY TrimmedRecursion
<1>2. x \in TrimmedTurn(Trimmed, x)
  <2>1. CASE IsSuffix(Subtree, x) /\ x # Subtree
    <3>1. TrimmedTurn(Trimmed, x) = {x} \cup Trimmed[Base(x)] BY <2>1, Zenon DEF TrimmedTurn
    <3> QED BY <3>1
  <2>2. CASE ~(IsSuffix(Subtree, x) /\ x # Subtree)
    <3>1. TrimmedTurn(Trimmed, x) = {x} BY <2>2, Zenon DEF TrimmedTurn
    <3> QED BY <3>1
  <2> QED BY <2>1, <2>2
<1> QED BY <1>1, <1>2

LEMMA TrimmedOfSubtree ==
    ASSUME NEW z \in Seq(Symbol), z # <<>>
    PROVE  Trimmed[z] \subseteq Trimmed[z \o Subtree]
<1> DEFINE x == z \o Subtree
<1>1. x \in Seq(Symbol) /\ Len(x) = Len(z) + 3 /\ Base(x) = z /\ IsSuffix(Subtree, x)
  BY SubtreePlaces, BaseOfSubtree, SuffixOfSubtree
<1>2. x # Subtree
  <2>1. Len(Subtree) = 3 BY SubtreeTyped
  <2>2. Len(z) \in Nat /\ Len(z) > 0 BY EmptySeq
  <2>3. Len(x) # 3
    <3> DEFINE n == Len(z)
               k == Len(x)
    <3>1. k = n + 3 /\ n \in Nat /\ n > 0 BY <2>2, <1>1
    <3> HIDE DEF n, k
    <3>2. k # 3 BY <3>1
    <3> QED BY <3>2 DEF k
  <2> HIDE DEF x
  <2> QED BY <2>1, <2>3
<1> HIDE DEF x
<1>3. Trimmed[x] = TrimmedTurn(Trimmed, x)
  BY <1>1, TrimmedRecursion
<1>4. TrimmedTurn(Trimmed, x) = {x} \cup Trimmed[Base(x)]
  BY <1>1, <1>2, Zenon DEF TrimmedTurn
<1>5. Trimmed[z] \subseteq Trimmed[x]
  BY <1>1, <1>3, <1>4
<1> QED BY <1>5 DEF x

\* What a pattern that ends in "/**" stands for ends in it too.
LEMMA SubtreeStands ==
    ASSUME NEW z \in Seq(Symbol), NEW y \in Seq(Symbol), NEW fold, SegmentStands(z \o Subtree, y, fold)
    PROVE  \E c \in Seq(Symbol) : y = c \o Subtree /\ SegmentStands(z, c, fold)
<1> DEFINE n == Len(z)
           x == z \o Subtree
           c == SubSeq(y, 1, n)
           v == c \o Subtree
<1>1. /\ Len(x) = n + 3 /\ \A i \in 1..n : x[i] = z[i]
      /\ x[n + 1] = Slash /\ x[n + 2] = Star /\ x[n + 3] = Star
  BY SubtreePlaces
<1>2. n \in Nat
  OBVIOUS
<1>3. Len(x) = Len(y) /\ \A i \in 1..Len(y) : Stands(x[i], y[i], fold)
  BY DEF SegmentStands
<1> HIDE DEF x
<1>4. Len(y) = n + 3 /\ \A i \in 1..(n + 3) : Stands(x[i], y[i], fold)
  BY <1>1, <1>3
<1>5. n + 1 \in 1..(n + 3) /\ n + 2 \in 1..(n + 3) /\ n + 3 \in 1..(n + 3) /\ \A i \in 1..n : i \in 1..(n + 3)
  BY <1>2
<1>6. Len(z) = n
  OBVIOUS
<1> HIDE DEF n
<1>7. y[n + 1] = Slash /\ y[n + 2] = Star /\ y[n + 3] = Star
  <2>1. Stands(x[n + 1], y[n + 1], fold) /\ Stands(x[n + 2], y[n + 2], fold) /\ Stands(x[n + 3], y[n + 3], fold)
    BY <1>4, <1>5
  <2> QED BY <2>1, <1>1, Zenon DEF Stands
<1>8. c \in Seq(Symbol) /\ Len(c) = n /\ \A i \in 1..n : c[i] = y[i]
  <2>1. 1 \in Nat /\ n \in Int /\ 1 <= 1 /\ n <= Len(y) BY <1>2, <1>4
  <2>2. /\ c \in Seq(Symbol) /\ Len(c) = IF 1 <= n THEN n - 1 + 1 ELSE 0
        /\ \A i \in 1..(n - 1 + 1) : c[i] = y[1 + i - 1]
    BY <2>1, SubSeqTyped
  <2> HIDE DEF c
  <2>3. Len(c) = n /\ n - 1 + 1 = n /\ \A i \in 1..n : 1 + i - 1 = i BY <2>2, <1>2
  <2> QED BY <2>2, <2>3
<1> HIDE DEF c
<1>9. /\ v \in Seq(Symbol) /\ Len(v) = Len(c) + 3 /\ \A i \in 1..Len(c) : v[i] = c[i]
      /\ v[Len(c) + 1] = Slash /\ v[Len(c) + 2] = Star /\ v[Len(c) + 3] = Star
  BY <1>8, SubtreePlaces
<1> HIDE DEF v
<1>10. Len(v) = n + 3 /\ \A i \in 1..(n + 3) : v[i] = y[i]
  <2>1. Len(v) = n + 3 BY <1>8, <1>9
  <2> SUFFICES ASSUME NEW i \in 1..(n + 3) PROVE v[i] = y[i] BY <2>1
  <2>2. i \in 1..n \/ i = n + 1 \/ i = n + 2 \/ i = n + 3 BY <1>2
  <2> QED BY <2>2, <1>7, <1>8, <1>9
<1>11. v = y
  BY <1>4, <1>9, <1>10, SeqEqual
<1>12. SegmentStands(z, c, fold)
  <2>1. \A i \in 1..n : Stands(z[i], c[i], fold)
    <3> SUFFICES ASSUME NEW i \in 1..n PROVE Stands(z[i], c[i], fold) OBVIOUS
    <3>1. Stands(x[i], y[i], fold) BY <1>4, <1>5
    <3> QED BY <3>1, <1>1, <1>8
  <2> QED BY <2>1, <1>6, <1>8 DEF SegmentStands
<1> QED BY <1>8, <1>11, <1>12 DEF v

\* Of two patterns of which one stands for the other, so do the trimmed forms.
LEMMA TrimmedSame ==
    ASSUME NEW x0 \in Seq(Symbol), NEW y0 \in Seq(Symbol), NEW fold, SegmentStands(x0, y0, fold),
           NEW t \in Trimmed[x0]
    PROVE  t \in Seq(Symbol) /\ \E u \in Trimmed[y0] : u \in Seq(Symbol) /\ SegmentStands(t, u, fold)
<1> DEFINE Good(y) == t \in Seq(Symbol) /\ \E u \in Trimmed[y] : u \in Seq(Symbol) /\ SegmentStands(t, u, fold)
           S == {k \in Nat : \A x, y \in Seq(Symbol) :
                    Len(x) = k /\ SegmentStands(x, y, fold) /\ t \in Trimmed[x] => Good(y)}
<1>1. ASSUME NEW k \in Nat, \A l \in Nat : l < k => l \in S PROVE k \in S
  <2> SUFFICES ASSUME NEW x \in Seq(Symbol), NEW y \in Seq(Symbol), Len(x) = k, SegmentStands(x, y, fold),
                      t \in Trimmed[x]
               PROVE  Good(y)
    OBVIOUS
  <2>1. CASE t = x
    BY <2>1, TrimmedSelf
  <2>2. CASE t # x
    <3>1. PICK z \in Seq(Symbol) : z # <<>> /\ x = z \o Subtree /\ Len(x) = Len(z) + 3 /\ t \in Trimmed[z]
      BY <2>2, TrimmedCases
    <3>2. PICK c \in Seq(Symbol) : y = c \o Subtree /\ SegmentStands(z, c, fold)
      BY <3>1, SubtreeStands
    <3>3. Len(z) \in Nat /\ Len(z) < k BY <3>1
    <3>4. Len(z) \in S
      <4> HIDE DEF S
      <4> QED BY <3>3, <1>1
    <3>5. Good(c) BY <3>1, <3>2, <3>4
    <3>6. c # <<>>
      <4>1. Len(z) = Len(c) BY <3>2 DEF SegmentStands
      <4> QED BY <4>1, <3>1, EmptySeq
    <3>7. Trimmed[c] \subseteq Trimmed[y] BY <3>2, <3>6, TrimmedOfSubtree
    <3> QED BY <3>5, <3>7
  <2> QED BY <2>1, <2>2
<1>2. S = Nat
  <2> HIDE DEF S
  <2>1. S \in SUBSET Nat BY DEF S
  <2> QED BY <1>1, <2>1, Induction
<1>3. Len(x0) \in S
  <2> HIDE DEF S
  <2>1. Len(x0) \in Nat OBVIOUS
  <2> QED BY <2>1, <1>2
<1> QED BY <1>3

\* What begins like a pattern without wildcards still does when it is trimmed.
LEMMA BaseLeads ==
    ASSUME NEW x \in Seq(Symbol), NEW z \in Seq(Symbol), StarFree(z), NEW fold, Leads(x \o Subtree, z, fold)
    PROVE  Leads(x, z, fold)
<1> DEFINE n == Len(x)
           m == Len(z)
           v == x \o Subtree
<1>1. /\ Len(v) = n + 3 /\ \A i \in 1..n : v[i] = x[i]
      /\ v[n + 1] = Slash /\ v[n + 2] = Star /\ v[n + 3] = Star
  BY SubtreePlaces
<1>2. n \in Nat /\ m \in Nat
  OBVIOUS
<1>3. /\ m <= Len(v) /\ \A k \in 1..m : Stands(v[k], z[k], fold)
      /\ m = Len(v) \/ v[m + 1] = Slash
  BY DEF Leads
<1>4. \A k \in 1..m : z[k] # Star
  BY DEF StarFree
<1> HIDE DEF n, m, v
<1>5. \A k \in 1..m : v[k] # Star
  BY <1>3, <1>4, Zenon DEF Stands
<1>6. Star # Slash
  BY DEF Star, Slash
<1>7. m <= n
  <2>1. ~(n + 2 <= m) BY <1>1, <1>2, <1>5
  <2>2. m # n + 1
    <3> SUFFICES ASSUME m = n + 1 PROVE FALSE OBVIOUS
    <3>1. m + 1 = n + 2 /\ m # n + 3 BY <1>2
    <3> QED BY <3>1, <1>1, <1>3, <1>6
  <2> QED BY <2>1, <2>2, <1>2
<1>8. \A k \in 1..m : Stands(x[k], z[k], fold)
  <2> SUFFICES ASSUME NEW k \in 1..m PROVE Stands(x[k], z[k], fold) OBVIOUS
  <2>1. k \in 1..n BY <1>2, <1>7
  <2>2. v[k] = x[k] BY <2>1, <1>1
  <2>3. Stands(v[k], z[k], fold) BY <1>3
  <2> QED BY <2>2, <2>3
<1>9. m = n \/ x[m + 1] = Slash
  <2> SUFFICES ASSUME m # n PROVE x[m + 1] = Slash OBVIOUS
  <2>1. m + 1 \in 1..n /\ m # n + 3 BY <1>2, <1>7
  <2> QED BY <2>1, <1>1, <1>3
<1> QED BY <1>7, <1>8, <1>9 DEF Leads, n, m

LEMMA TrimmedLeads ==
    ASSUME NEW x0 \in Seq(Symbol), NEW z \in Seq(Symbol), StarFree(z), NEW fold, Leads(x0, z, fold),
           NEW t \in Trimmed[x0]
    PROVE  t \in Seq(Symbol) /\ Leads(t, z, fold)
<1> DEFINE S == {k \in Nat : \A x \in Seq(Symbol) :
                    Len(x) = k /\ Leads(x, z, fold) /\ t \in Trimmed[x] => t \in Seq(Symbol) /\ Leads(t, z, fold)}
<1>1. ASSUME NEW k \in Nat, \A l \in Nat : l < k => l \in S PROVE k \in S
  <2> SUFFICES ASSUME NEW x \in Seq(Symbol), Len(x) = k, Leads(x, z, fold), t \in Trimmed[x]
               PROVE  t \in Seq(Symbol) /\ Leads(t, z, fold)
    OBVIOUS
  <2>1. CASE t = x
    BY <2>1
  <2>2. CASE t # x
    <3>1. PICK c \in Seq(Symbol) : c # <<>> /\ x = c \o Subtree /\ Len(x) = Len(c) + 3 /\ t \in Trimmed[c]
      BY <2>2, TrimmedCases
    <3>2. Leads(c, z, fold) BY <3>1, BaseLeads
    <3>3. Len(c) \in Nat /\ Len(c) < k BY <3>1
    <3>4. Len(c) \in S
      <4> HIDE DEF S
      <4> QED BY <3>3, <1>1
    <3> QED BY <3>1, <3>2, <3>4
  <2> QED BY <2>1, <2>2
<1>2. S = Nat
  <2> HIDE DEF S
  <2>1. S \in SUBSET Nat BY DEF S
  <2> QED BY <1>1, <2>1, Induction
<1>3. Len(x0) \in S
  <2> HIDE DEF S
  <2>1. Len(x0) \in Nat OBVIOUS
  <2> QED BY <2>1, <1>2
<1> QED BY <1>3

-----------------------------------------------------------------------------
(* What PatternCovers compares. *)

\* Every symbol of the one pattern with every symbol of the other.
PatternsKeepCase(x, y) == \A i \in 1..Len(x), k \in 1..Len(y) : KeepCase(x[i], y[k])

\* The same pattern but for its cases.
LEMMA FoldedSame ==
    ASSUME NEW x \in Seq(Symbol), NEW y \in Seq(Symbol), NEW fold \in BOOLEAN,
           CaseFold(y, fold) = CaseFold(x, fold), fold => PatternsKeepCase(x, y)
    PROVE  SegmentStands(x, y, fold)
<1> DEFINE u == CaseFold(x, fold)
           v == CaseFold(y, fold)
           n == Len(y)
<1>1. Len(u) = Len(x) /\ \A i \in 1..Len(x) : u[i] = FoldSymbol(x[i], fold)
  BY CaseFoldPlaces
<1>2. Len(v) = n /\ \A i \in 1..n : v[i] = FoldSymbol(y[i], fold)
  BY CaseFoldPlaces
<1>3. u = v
  OBVIOUS
<1> HIDE DEF u, v
<1>4. Len(x) = n /\ \A i \in 1..n : FoldSymbol(x[i], fold) = FoldSymbol(y[i], fold)
  BY <1>1, <1>2, <1>3
<1>5. ASSUME NEW i \in 1..n PROVE Stands(x[i], y[i], fold)
  <2> DEFINE s == x[i]
             t == y[i]
  <2>1. s \in Symbol /\ t \in Symbol BY <1>4
  <2>2. FoldSymbol(s, fold) = FoldSymbol(t, fold) BY <1>4
  <2>3. fold => KeepCase(s, t) BY <1>4, Zenon DEF PatternsKeepCase
  <2> HIDE DEF s, t
  <2>4. Stands(s, t, fold) BY <2>1, <2>2, <2>3, FoldedStands
  <2> QED BY <2>4 DEF s, t
<1> QED BY <1>4, <1>5 DEF SegmentStands

\* A pattern below a literal one, but for its cases.
LEMMA UnderLeads ==
    ASSUME NEW x \in Seq(Symbol), NEW z \in Seq(Symbol), Literal(z), NEW fold \in BOOLEAN,
           fold => PatternsKeepCase(x, z),
           Under(CaseFold(z, fold), CaseFold(x, fold))
    PROVE  Leads(x, z, fold)
<1> DEFINE u == CaseFold(x, fold)
           v == CaseFold(z, fold)
           n == Len(x)
           m == Len(z)
           F == {FoldSymbol(s, fold) : s \in Symbol}
<1>1. u \in Seq(F) /\ Len(u) = n /\ \A i \in 1..n : u[i] = FoldSymbol(x[i], fold)
  BY CaseFoldPlaces
<1>2. v \in Seq(F) /\ Len(v) = m /\ \A i \in 1..m : v[i] = FoldSymbol(z[i], fold)
  BY CaseFoldPlaces
<1>3. u = v \/ IsPrefix(Append(v, Slash), u)
  BY DEF Under
<1>4. n \in Nat /\ m \in Nat /\ \A i \in 1..n : x[i] \in Symbol
  OBVIOUS
<1>5. \A i \in 1..m : z[i] \in Symbol /\ z[i].kind # "class"
  BY DEF Literal
<1>6. Slash \in F /\ \A s \in Symbol : FoldSymbol(s, fold) = Slash => s = Slash
  <2>1. Slash \in Symbol /\ Slash.kind = "slash" BY DEF Slash, Symbol
  <2>2. FoldSymbol(Slash, fold) = Slash BY <2>1, Zenon DEF FoldSymbol
  <2>3. ASSUME NEW s \in Symbol, FoldSymbol(s, fold) = Slash PROVE s = Slash
    <3>1. s.kind = "lit" => FoldSymbol(s, fold) = s \/ FoldSymbol(s, fold).kind = "lit" BY DEF FoldSymbol, Lit
    <3>2. s.kind = "class" => FoldSymbol(s, fold) = s \/ FoldSymbol(s, fold).kind = "class" BY DEF FoldSymbol, Class
    <3>3. s.kind \notin {"lit", "class"} => FoldSymbol(s, fold) = s BY Zenon DEF FoldSymbol
    <3> QED BY <3>1, <3>2, <3>3, <2>1, <2>3
  <2> QED BY <2>1, <2>2, <2>3
<1> HIDE DEF u, v, n, m, F
<1>7. m <= n /\ (\A i \in 1..m : u[i] = v[i]) /\ (m = n \/ u[m + 1] = Slash)
  <2>1. CASE u = v BY <2>1, <1>1, <1>2, <1>4
  <2>2. CASE IsPrefix(Append(v, Slash), u)
    <3> DEFINE w == Append(v, Slash)
    <3>1. Grown(F, v, Slash, w) BY <1>2, <1>6, AppendGrows
    <3> HIDE DEF w
    <3>2. w \in Seq(F) /\ Len(w) = m + 1 /\ w[m + 1] = Slash /\ \A i \in 1..m : w[i] = v[i]
      BY <3>1, <1>2 DEF Grown
    <3>3. Len(w) <= Len(u) /\ SubSeq(w, 1, Len(w)) = SubSeq(u, 1, Len(w)) BY <2>2 DEF IsPrefix, w
    <3> DEFINE l == m + 1
               a == SubSeq(w, 1, l)
               b == SubSeq(u, 1, l)
    <3>4. l \in Nat /\ 1 <= l /\ l <= n /\ a = b /\ l \in Int /\ l <= Len(w) /\ l <= Len(u) /\ 1 \in Nat /\ 1 <= 1
      BY <3>2, <3>3, <1>1, <1>4
    <3>5. \A i \in 1..l : i \in 1..m \/ i = l
      BY <1>4
    <3>6. m + 1 = l /\ m <= n /\ l \in 1..l /\ \A i \in 1..m : i \in 1..l
      BY <3>4, <1>4
    <3> HIDE DEF l
    <3>7. \A i \in 1..(l - 1 + 1) : a[i] = w[1 + i - 1] BY <3>2, <3>4, SubSeqTyped
    <3>8. \A i \in 1..(l - 1 + 1) : b[i] = u[1 + i - 1] BY <1>1, <3>4, SubSeqTyped
    <3> HIDE DEF a, b
    <3>9. \A i \in 1..l : w[i] = u[i]
      <4>1. l - 1 + 1 = l /\ \A i \in 1..l : 1 + i - 1 = i BY <3>4
      <4> QED BY <4>1, <3>4, <3>7, <3>8
    <3>10. u[m + 1] = Slash BY <3>2, <3>6, <3>9
    <3>11. \A i \in 1..m : u[i] = v[i] BY <3>2, <3>6, <3>9
    <3> QED BY <3>6, <3>10, <3>11
  <2> QED BY <2>1, <2>2, <1>3
<1>8. ASSUME NEW i \in 1..m PROVE Stands(x[i], z[i], fold)
  <2> DEFINE s == x[i]
             t == z[i]
  <2>1. i \in 1..n BY <1>4, <1>7
  <2>2. s \in Symbol /\ t \in Symbol /\ t.kind # "class" BY <2>1, <1>4, <1>5
  <2>3. FoldSymbol(s, fold) = FoldSymbol(t, fold) BY <2>1, <1>1, <1>2, <1>7
  <2>4. fold => KeepCase(s, t) BY <2>1, Zenon DEF PatternsKeepCase, m, n
  <2> HIDE DEF s, t
  <2>5. Stands(s, t, fold) BY <2>2, <2>3, <2>4, FoldedStands
  <2> QED BY <2>5 DEF s, t
<1>9. m = n \/ x[m + 1] = Slash
  <2> SUFFICES ASSUME m # n PROVE x[m + 1] = Slash OBVIOUS
  <2>1. m + 1 \in 1..n BY <1>4, <1>7
  <2> QED BY <2>1, <1>1, <1>4, <1>6, <1>7
<1> QED BY <1>7, <1>8, <1>9 DEF Leads, n, m

-----------------------------------------------------------------------------
(* What is covered is owned by what covers it. *)

LEMMA WholeCut ==
    ASSUME NEW d \in Seq(Point)
    PROVE  SubSeq(d, 1, Len(d)) = d
<1> DEFINE n == Len(d)
           u == SubSeq(d, 1, n)
<1>1. n \in Nat
  OBVIOUS
<1>2. /\ u \in Seq(Point) /\ Len(u) = IF 1 <= n THEN n - 1 + 1 ELSE 0
      /\ \A i \in 1..(n - 1 + 1) : u[i] = d[1 + i - 1]
  <2>1. 1 \in Nat /\ n \in Int /\ 1 <= 1 /\ n <= Len(d) BY <1>1
  <2> QED BY <2>1, SubSeqTyped
<1>3. Len(d) = n
  OBVIOUS
<1> HIDE DEF n, u
<1>4. Len(u) = n /\ \A i \in 1..n : u[i] = d[i]
  <2>1. Len(u) = n /\ n - 1 + 1 = n /\ \A i \in 1..n : 1 + i - 1 = i BY <1>1, <1>2
  <2> QED BY <2>1, <1>2
<1>5. u = d
  BY <1>2, <1>3, <1>4, SeqEqual
<1> QED BY <1>5 DEF u, n

LEMMA BoundAbove ==
    ASSUME NEW d \in Seq(Point), NEW w \in Bounds(d), w # 0
    PROVE  SubSeq(d, 1, w) \in {d} \cup Above(d)
<1>1. w \in 0..Len(d) /\ (w = Len(d) \/ d[w + 1] = Sep) /\ Len(d) \in Nat
  BY DEF Bounds
<1>2. CASE w = Len(d)
  BY <1>2, WholeCut
<1>3. CASE w # Len(d)
  <2> DEFINE i == w + 1
  <2>1. i \in 2..Len(d) /\ d[i] = Sep /\ i - 1 = w BY <1>1, <1>3
  <2> HIDE DEF i
  <2>2. SubSeq(d, 1, w) = SubSeq(d, 1, i - 1) BY <2>1
  <2> QED BY <2>1, <2>2 DEF Above
<1> QED BY <1>2, <1>3

LEMMA AboveAbove ==
    ASSUME NEW f \in Seq(Point), NEW d \in {f} \cup Above(f), NEW e \in {d} \cup Above(d)
    PROVE  e \in {f} \cup Above(f)
<1>1. CASE d = f
  BY <1>1
<1>2. CASE e = d
  BY <1>2
<1>3. CASE d # f /\ e # d
  <2>1. d \in Above(f) /\ e \in Above(d) BY <1>3
  <2>2. PICK i \in 2..Len(f) : f[i] = Sep /\ d = SubSeq(f, 1, i - 1) BY <2>1 DEF Above
  <2>3. PICK j \in 2..Len(d) : d[j] = Sep /\ e = SubSeq(d, 1, j - 1) BY <2>1 DEF Above
  <2> DEFINE n == Len(f)
             a == i - 1
             b == j - 1
             h == SubSeq(f, 1, b)
  <2>4. n \in Nat /\ a \in Nat /\ 1 <= a /\ a <= n /\ 1 \in Nat /\ 1 <= 1 /\ a \in Int BY <2>2
  <2>5. d = SubSeq(f, 1, a) /\ e = SubSeq(d, 1, b) BY <2>2, <2>3
  <2>6. Len(f) = n OBVIOUS
  <2> HIDE DEF n, a
  <2>7. /\ d \in Seq(Point) /\ Len(d) = a /\ \A l \in 1..a : d[l] = f[l]
    <3>1. /\ d \in Seq(Point) /\ Len(d) = IF 1 <= a THEN a - 1 + 1 ELSE 0
          /\ \A l \in 1..(a - 1 + 1) : d[l] = f[1 + l - 1]
      BY <2>4, <2>5, <2>6, SubSeqTyped
    <3>2. Len(d) = a /\ a - 1 + 1 = a /\ \A l \in 1..a : 1 + l - 1 = l BY <3>1, <2>4
    <3> QED BY <3>1, <3>2
  <2>8. b \in Nat /\ 1 <= b /\ b <= a /\ b <= n /\ b \in Int /\ j \in 1..a /\ j \in 2..n
    BY <2>3, <2>4, <2>7
  <2>9. j - 1 = b OBVIOUS
  <2> HIDE DEF b, h
  <2>10. /\ e \in Seq(Point) /\ Len(e) = b /\ \A l \in 1..b : e[l] = d[l]
    <3>1. /\ e \in Seq(Point) /\ Len(e) = IF 1 <= b THEN b - 1 + 1 ELSE 0
          /\ \A l \in 1..(b - 1 + 1) : e[l] = d[1 + l - 1]
      BY <2>4, <2>5, <2>7, <2>8, SubSeqTyped
    <3>2. Len(e) = b /\ b - 1 + 1 = b /\ \A l \in 1..b : 1 + l - 1 = l BY <3>1, <2>8
    <3> QED BY <3>1, <3>2
  <2>11. /\ h \in Seq(Point) /\ Len(h) = b /\ \A l \in 1..b : h[l] = f[l]
    <3>1. /\ h \in Seq(Point) /\ Len(h) = IF 1 <= b THEN b - 1 + 1 ELSE 0
          /\ \A l \in 1..(b - 1 + 1) : h[l] = f[1 + l - 1]
      BY <2>4, <2>6, <2>8, SubSeqTyped DEF h
    <3>2. Len(h) = b /\ b - 1 + 1 = b /\ \A l \in 1..b : 1 + l - 1 = l BY <3>1, <2>8
    <3> QED BY <3>1, <3>2
  <2>12. e = h
    <3>1. \A l \in 1..b : e[l] = h[l]
      <4>1. \A l \in 1..b : l \in 1..a BY <2>4, <2>8
      <4> QED BY <4>1, <2>7, <2>10, <2>11
    <3> QED BY <3>1, <2>10, <2>11, SeqEqual
  <2>13. f[j] = Sep BY <2>3, <2>7, <2>8
  <2>14. j \in 2..Len(f) /\ e = SubSeq(f, 1, j - 1) BY <2>6, <2>8, <2>9, <2>12 DEF h
  <2> QED BY <2>13, <2>14 DEF Above
<1> QED BY <1>1, <1>2, <1>3

\* One brace-free pattern covers another one: the body of PatternCovers.
Covers(y, x, fold) ==
    \/ CaseFold(y, fold) = CaseFold(x, fold)
    \/ /\ IsSuffix(Subtree, y) /\ Literal(Base(y))
       /\ Under(CaseFold(Base(y), fold), CaseFold(x, fold))

LEMMA CoveredMatches ==
    ASSUME NEW x \in Seq(Symbol), NEW y \in Seq(Symbol), NEW fold \in BOOLEAN, Covers(y, x, fold),
           fold => PatternsKeepCase(x, y), <<>> \notin ToSet(Segments(y)),
           NEW t \in Trimmed[x], NEW d \in Seq(Point), RegexpMatches(Regexp(t), d, fold, FALSE)
    PROVE  \E e \in {d} \cup Above(d) : \E u \in Trimmed[y] : RegexpMatches(Regexp(u), e, fold, FALSE)
<1>1. CASE CaseFold(y, fold) = CaseFold(x, fold)
  <2>1. SegmentStands(x, y, fold) BY <1>1, FoldedSame
  <2>2. t \in Seq(Symbol) /\ \E u \in Trimmed[y] : u \in Seq(Symbol) /\ SegmentStands(t, u, fold)
    BY <2>1, TrimmedSame
  <2>3. PICK u \in Trimmed[y] : u \in Seq(Symbol) /\ SegmentStands(t, u, fold) BY <2>2
  <2>4. RegexpMatches(Regexp(u), d, fold, FALSE) BY <2>2, <2>3, MatchSame
  <2> QED BY <2>4
<1>2. CASE /\ IsSuffix(Subtree, y) /\ Literal(Base(y))
           /\ Under(CaseFold(Base(y), fold), CaseFold(x, fold))
  <2> DEFINE z == Base(y)
             a == Segments(z)
             b == Append(a, Globstar)
  <2>1. z \in Seq(Symbol) /\ y = z \o Subtree BY <1>2, SubtreeSuffix
  <2>2. Literal(z) /\ Under(CaseFold(z, fold), CaseFold(x, fold)) BY <1>2
  <2> HIDE DEF z
  <2>3. StarFree(z) BY <2>1, <2>2, LiteralStarFree
  <2>15. fold => PatternsKeepCase(x, z)
    <3>1. \A k \in 1..Len(z) : k \in 1..Len(y) /\ y[k] = z[k]
      <4>1. Subtree \in Seq(Symbol) BY SubtreeTyped DEF Pattern
      <4> QED BY <2>1, <4>1
    <3> QED BY <3>1 DEF PatternsKeepCase
  <2>4. Leads(x, z, fold) BY <2>1, <2>2, <2>15, UnderLeads
  <2>5. t \in Seq(Symbol) /\ Leads(t, z, fold) BY <2>1, <2>3, <2>4, TrimmedLeads
  <2>6. a \in Seq(Seq(Symbol)) /\ a # <<>> /\ Segments(y) = b
    BY <2>1, SegmentsTyped, SubtreeSegments
  <2>7. ~EndsOpen(z)
    <3>1. \A i \in 1..Len(a) : a[i] # Globstar BY <2>1, <2>3, StarFreeOpen
    <3>2. Len(a) \in 1..Len(a)
      <4> HIDE DEF a
      <4> QED BY <2>6, EmptySeq
    <3> QED BY <3>1, <3>2 DEF EndsOpen
  <2>8. <<>> \notin ToSet(a)
    <3> HIDE DEF a
    <3> SUFFICES ASSUME <<>> \in ToSet(a) PROVE <<>> \in ToSet(b) BY <2>6
    <3>1. PICK i \in DOMAIN a : a[i] = <<>> BY DEF ToSet
    <3>2. Globstar \in Seq(Symbol)
      <4>1. Star \in Symbol BY DEF Star, Symbol
      <4> QED BY <4>1 DEF Globstar
    <3>3. Grown(Seq(Symbol), a, Globstar, b) BY <2>6, <3>2, AppendGrows
    <3> HIDE DEF b
    <3>4. i \in 1..Len(a) /\ i \in DOMAIN b /\ b[i] = a[i]
      <4>1. b \in Seq(Seq(Symbol)) /\ Len(b) = Len(a) + 1 /\ \A k \in 1..Len(a) : b[k] = a[k]
        BY <3>3 DEF Grown
      <4>2. i \in 1..Len(a) /\ Len(a) \in Nat BY <2>6, <3>1
      <4>3. i \in 1..Len(b) BY <4>1, <4>2
      <4>4. i \in DOMAIN b
        <5> HIDE DEF a
        <5> QED BY <4>1, <4>3
      <4> QED BY <4>1, <4>2, <4>4
    <3> QED BY <3>1, <3>4 DEF ToSet
  <2>9. PICK w \in Bounds(d) : RegexpMatches(Regexp(z), SubSeq(d, 1, w), fold, FALSE)
    BY <2>1, <2>5, <2>7, MatchCut
  <2> DEFINE e == SubSeq(d, 1, w)
  <2>10. w # 0
    <3> SUFFICES ASSUME w = 0 PROVE FALSE OBVIOUS
    <3>1. e \in Seq(Point) /\ Len(e) = 0
      <4>1. w \in Int /\ 1 \in Nat /\ 1 <= 1 /\ w <= Len(d) /\ ~(1 <= w) BY DEF Bounds
      <4>2. e \in Seq(Point) /\ Len(e) = IF 1 <= w THEN w - 1 + 1 ELSE 0 BY <4>1, SubSeqTyped
      <4> HIDE DEF e
      <4> QED BY <4>1, <4>2
    <3> HIDE DEF e
    <3>2. <<>> \notin ToSet(Segments(z)) BY <2>8
    <3>3. ~RegexpMatches(Regexp(z), e, fold, FALSE) BY <3>1, <3>2, <2>1, <2>3, NothingUnmatched
    <3> QED BY <3>3, <2>9 DEF e
  <2>11. e \in {d} \cup Above(d) BY <2>10, BoundAbove
  <2>12. z # <<>> BY <2>8, NothingHasEmptySegment
  <2>13. z \in Trimmed[y] BY <2>1, <2>12, TrimmedSelf, TrimmedOfSubtree
  <2>14. RegexpMatches(Regexp(z), e, fold, FALSE) BY <2>9
  <2> HIDE DEF e
  <2> QED BY <2>11, <2>13, <2>14
<1> QED BY <1>1, <1>2, Zenon DEF Covers

LEMMA CoveredOwned ==
    ASSUME insensitive \in BOOLEAN, NEW p \in Pattern, NEW e \in Pattern, Readable(e),
           insensitive => \A x \in ExpandBraces[p], y \in ExpandBraces[e] : PatternsKeepCase(x, y),
           PatternCovers(e, p, insensitive), NEW f \in Owned({p})
    PROVE  f \in Owned({e})
<1>1. f \in File /\ ({f} \cup Above(f)) \cap Named(p) # {}
  <2>1. UNION {Named(q) : q \in {p}} = Named(p) OBVIOUS
  <2> QED BY <2>1 DEF Owned
<1>2. PICK d \in {f} \cup Above(f) : d \in Named(p)
  BY <1>1
<1>3. PICK re \in {Regexp(t) : t \in UNION {Trimmed[q] : q \in ExpandBraces[p]}} :
         RegexpMatches(re, d, insensitive, FALSE)
  BY <1>2, Zenon DEF Named
<1>4. PICK x \in ExpandBraces[p] : \E t \in Trimmed[x] : re = Regexp(t)
  BY Zenon
<1>5. PICK t \in Trimmed[x] : re = Regexp(t)
  BY <1>4
<1>6. f \in Seq(Point) /\ d \in Seq(Point)
  <2>1. d \in File BY <1>2, Zenon DEF Named
  <2> QED BY <2>1, <1>1, FileAssumption
<1>7. PICK y \in ExpandBraces[e] : Covers(y, x, insensitive)
  <2>1. \E y \in ExpandBraces[e] :
          \/ CaseFold(y, insensitive) = CaseFold(x, insensitive)
          \/ /\ IsSuffix(Subtree, y) /\ Literal(Base(y))
             /\ Under(CaseFold(Base(y), insensitive), CaseFold(x, insensitive))
    BY Zenon DEF PatternCovers
  <2> QED BY <2>1, Zenon DEF Covers
<1>8. x \in Seq(Symbol) /\ y \in Seq(Symbol)
  BY ExpandBracesRecursion DEF Pattern
<1>9. insensitive => PatternsKeepCase(x, y)
  OBVIOUS
<1>10. <<>> \notin ToSet(Segments(y))
  BY Zenon DEF Readable
<1>11. RegexpMatches(Regexp(t), d, insensitive, FALSE)
  BY <1>3, <1>5
<1>12. PICK g \in {d} \cup Above(d) : \E u \in Trimmed[y] : RegexpMatches(Regexp(u), g, insensitive, FALSE)
  BY <1>6, <1>7, <1>8, <1>9, <1>10, <1>11, CoveredMatches
<1>13. g \in {f} \cup Above(f)
  BY <1>2, <1>6, <1>12, AboveAbove
<1>14. g \in File
  BY <1>1, <1>13, FileAssumption
<1>15. g \in Named(e)
  <2>1. PICK u \in Trimmed[y] : RegexpMatches(Regexp(u), g, insensitive, FALSE) BY <1>12
  <2>2. Regexp(u) \in {Regexp(v) : v \in UNION {Trimmed[q] : q \in ExpandBraces[e]}} BY <2>1
  <2> QED BY <1>14, <2>1, <2>2, Zenon DEF Named
<1>16. UNION {Named(q) : q \in {e}} = Named(e)
  OBVIOUS
<1> QED BY <1>1, <1>13, <1>15, <1>16 DEF Owned

\* Where case does not count, no class of the card meets one of the exclude with a range
\* that reaches from one case of the letters into another one, or beyond ASCII, and no two
\* characters of theirs have one lower-case form without being forms of one another. For
\* CaseFold turns the bounds of a class into lower case, which makes [a-z] of [A-z]: the two
\* are then taken for the same pattern although only one of them names '_'. And it turns
\* U+0130, the capital I with a dot, into 'i', which it does not match.
PlainPatterns ==
    insensitive =>
        \A x \in ExpandBraces[PatternOf(card)], y \in ExpandBraces[PatternOf(exclude)] :
            PatternsKeepCase(x, y)

\* Invariant I3 with --exclude: what an exclude is taken to cover, be it by the same text
\* or as X/** over X, it owns, so a pair that ScopesOverlap leaves out shares no name that
\* is not excluded (PatternCovers, ScopesOverlap). Where case counts, this holds of every
\* pattern; where it does not, of all whose classes keep to one case of the letters and
\* whose characters have lower-case forms that they match.
THEOREM PlainExcludesHideNothing == Spec => [](PlainPatterns => ExcludesHideNothing)
<1>1. TypedWords /\ PlainPatterns => ExcludesHideNothing
  <2> SUFFICES ASSUME TypedWords, PlainPatterns, Complete, exclude # <<>>,
                      ~ScopesOverlap(Request, Card, insensitive),
                      NEW f \in Owned(Request.include) \cap Owned(Card.include)
               PROVE  f \in Owned(Request.exclude)
    BY Zenon DEF ExcludesHideNothing
  <2> DEFINE p == PatternOf(include)
             q == PatternOf(card)
             e == PatternOf(exclude)
  <2>1. Given(include) /\ Given(card) /\ Given(exclude)
    BY DEF Complete
  <2>2. /\ Request.include = {p} /\ Card.include = {q}
        /\ Request.exclude = {e} /\ Card.exclude = {}
    BY <2>1 DEF Request, Card, PatternsOf, Given
  <2>3. p \in Pattern /\ q \in Pattern
    BY <2>2, IncludesTyped
  <2>4. e \in Pattern
    BY <2>1, PatternTyped DEF TypedWords, Given
  <2>5. Readable(p) /\ Readable(q) /\ Readable(e)
    BY <2>1, Zenon DEF Given, Valid, Readable, PatternOf
  <2>6. insensitive \in BOOLEAN
    BY DEF TypedWords
  <2>7. insensitive => \A x \in ExpandBraces[q], y \in ExpandBraces[e] : PatternsKeepCase(x, y)
    BY DEF PlainPatterns
  <2> HIDE DEF p, q, e
  <2> DEFINE g == Append(f, Sep)
  <2>8. g \in Seq(Point) /\ Reaches(p, g, insensitive) /\ Reaches(q, g, insensitive)
    BY <2>2, <2>3, <2>5, <2>6, OwnersReach
  <2> HIDE DEF g
  <2>9. \E w \in WithSubtree(p), v \in WithSubtree(q) : PatternsCanIntersect(w, v, insensitive)
    BY <2>6, <2>8, ReachersIntersect
  <2>10. ExcludedBy(Request, q, insensitive)
    <3> SUFFICES ASSUME ~ExcludedBy(Request, q, insensitive)
                 PROVE  ScopesOverlap(Request, Card, insensitive)
      OBVIOUS
    <3>1. ~ExcludedBy(Card, p, insensitive) BY <2>2 DEF ExcludedBy
    <3>2. p \in Request.include /\ q \in Card.include BY <2>2
    <3> QED BY <2>9, <3>1, <3>2, Zenon DEF ScopesOverlap
  <2>11. PatternCovers(e, q, insensitive)
    BY <2>2, <2>10 DEF ExcludedBy
  <2>12. f \in Owned({q})
    BY <2>2
  <2>13. f \in Owned({e})
    BY <2>3, <2>4, <2>5, <2>6, <2>7, <2>11, <2>12, CoveredOwned
  <2> QED BY <2>2, <2>13
<1> QED BY <1>1, WordsTyped, PTL

=============================================================================
