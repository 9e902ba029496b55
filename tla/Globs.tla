-------------------------------- MODULE Globs --------------------------------
(* Path patterns (internal/paths): brace expansion, the regular expression that   *)
(* decides which file a pattern matches, and the comparison of two patterns that  *)
(* decides a claim before any file exists. A pattern is a sequence of symbols.    *)
(* Patterns are well formed here: what NormalizePattern and PatternToRegExp       *)
(* refuse (unterminated braces and classes, traversal, the 257th alternative) is  *)
(* left out, but for "**" inside a segment, which only one of the two refuses.    *)
EXTENDS CharRanges

CONSTANTS Lower,     \* the lower-case form of every code point (strings.ToLower)
          Bytes,     \* the bytes a code point is encoded in, each taken for a code point
          CaseBlind  \* the file system finds a file by its name in another case

\* Above ASCII the lower-case form of a character need not be one of those it folds to.
ASSUME NamesAssumption ==
    /\ Lower \in [Point -> Point] /\ \A c \in 0..MaxASCII : Lower[c] = Fold[c]
    /\ DOMAIN Bytes = Point /\ \A c \in 0..MaxASCII : Bytes[c] = <<c>>
    /\ \A c \in (MaxASCII + 1)..MaxRune : Bytes[c] # <<>> /\ Bytes[c] \in Seq((MaxASCII + 1)..MaxRune)
    /\ CaseBlind \in BOOLEAN

Slash == [kind |-> "slash"]
Open  == [kind |-> "open"]
Comma == [kind |-> "comma"]
Close == [kind |-> "close"]

Symbol ==
    [kind : {"lit"}, ch : Point \ {Sep}] \cup [kind : {"class"}, neg : BOOLEAN, ranges : Seq(CharRange)]
      \cup [kind : {"any", "star", "slash", "open", "comma", "close"}]

Globstar == <<Star, Star>>

\* A slash ends a segment, any other symbol makes it longer.
Split(segs, s) ==
    IF s = Slash THEN Append(segs, <<>>) ELSE [segs EXCEPT ![Len(segs)] = Append(@, s)]

Segments(p) == FoldLeft(Split, << <<>> >>, p)

-----------------------------------------------------------------------------
(* Braces. *)

\* How deep in the braces that open at its position open the i-th symbol of p is.
Depth(p, open, i) ==
    Cardinality({k \in open..i : p[k] = Open}) - Cardinality({k \in open..i : p[k] = Close})

\* The cuts in the brace that opens and closes there: its ends and its own commas.
Cuts(p, open, close) ==
    {open, close} \cup {i \in (open + 1)..(close - 1) : p[i] = Comma /\ Depth(p, open, i) = 1}

\* The pieces of p between two neighbours among its positions in cuts.
Pieces(p, cuts) ==
    {SubSeq(p, c[1] + 1, c[2] - 1) :
        c \in {d \in cuts \X cuts : d[1] < d[2] /\ \A k \in cuts : k <= d[1] \/ d[2] <= k}}

\* The first brace is replaced by each of its alternatives, again and again. A brace
\* without an end is an error: the pattern stands for nothing.
ExpandBraces[p \in Seq(Symbol)] ==
    LET open  == SelectInSeq(p, LAMBDA s : s = Open)
        ends  == {i \in open..Len(p) : Depth(p, open, i) = 0}
        close == Min(ends)
        head  == SubSeq(p, 1, open - 1)
        tail  == SubSeq(p, close + 1, Len(p))
    IN IF open = 0 THEN {p}
       ELSE IF ends = {} THEN {}
       ELSE UNION {ExpandBraces[head \o body \o tail] : body \in Pieces(p, Cuts(p, open, close))}

-----------------------------------------------------------------------------
(* What a pattern matches: PatternToRegExp and the Matcher over it. *)

Singles(s) == [i \in 1..Len(s) |-> [lo |-> s[i], hi |-> s[i]]]

\* A range in a class: when its ends have several bytes, the last one of the first end
\* and the first one of the other are what the dash stands between.
RangeBytes(r) ==
    LET lo == Bytes[r.lo]
        hi == Bytes[r.hi]
    IN IF r.lo = r.hi THEN Singles(lo)
       ELSE Singles(Front(lo)) \o <<[lo |-> Last(lo), hi |-> Head(hi)]>> \o Singles(Tail(hi))

\* segmentToRegex writes every byte of a pattern as a character of its own: beyond ASCII
\* the expression is one for other names.
SymbolBytes(s) ==
    CASE s.kind = "lit"   -> [i \in 1..Len(Bytes[s.ch]) |-> Lit(Bytes[s.ch][i])]
      [] s.kind = "class" ->
           <<Class(s.neg, FlattenSeq([k \in 1..Len(s.ranges) |-> RangeBytes(s.ranges[k])]))>>
      [] OTHER -> <<s>>

ByteWise(q) == FlattenSeq([i \in 1..Len(q) |-> SymbolBytes(q[i])])

\* "**" must be a whole segment, and no range of bytes may descend.
Compiles(p) ==
    \A q \in ExpandBraces[p] :
        /\ \A s \in ToSet(Segments(q)) :
              s = Globstar \/ \A i \in 1..(Len(s) - 1) : SubSeq(s, i, i + 1) # Globstar
        /\ \A s \in ToSet(ByteWise(q)) : s.kind = "class" => \A r \in ToSet(s.ranges) : r.lo <= r.hi

\* The regular expression of a brace-free pattern: "dirs" is (?:.*/)?, for a "**"
\* that is followed by more, and "all" is .*, for one that ends the pattern.
Regexp(q) ==
    LET segs == Segments(q)
        Item(k) == IF segs[k] # Globstar
                   THEN IF k = Len(segs) THEN segs[k] ELSE Append(segs[k], Slash)
                   ELSE <<[kind |-> IF k = Len(segs) THEN "all" ELSE "dirs"]>>
    IN FlattenSeq([k \in 1..Len(segs) |-> Item(k)])

\* One symbol accepts one character; a comma or a brace that is left is none of the code
\* points. This is what a symbol means, and, for symbols taken from ByteWise, what the
\* item of the expression does that it is compiled to. Go's [^a] accepts the separator too: where
\* cross does not hold, a class is taken to be within a segment, as the protocol does.
Accepts(t, c, insensitive, cross) ==
    CASE t.kind = "any"   -> c # Sep
      [] t.kind = "slash" -> c = Sep
      [] t.kind = "lit"   -> SameChar(t.ch, c, insensitive)
      [] t.kind = "class" -> (cross \/ c # Sep) /\ ClassHas(t, c, insensitive)
      [] OTHER -> FALSE

\* The expression matches the whole of the file's name.
RegexpMatches(re, file, insensitive, cross) ==
    LET rest[at \in (1..(Len(re) + 1)) \X (1..(Len(file) + 1))] ==
            LET i == at[1]
                j == at[2]
            IN IF i > Len(re) THEN j > Len(file)
               ELSE \/ /\ re[i].kind \in {"star", "dirs"}
                       /\ rest[<<i + 1, j>>]
                    \/ /\ re[i].kind = "star" /\ j <= Len(file) /\ file[j] # Sep
                       /\ rest[<<i, j + 1>>]
                    \/ /\ re[i].kind = "all"
                       /\ \E k \in j..(Len(file) + 1) : rest[<<i + 1, k>>]
                    \/ /\ re[i].kind = "dirs"
                       /\ \E k \in j..Len(file) : file[k] = Sep /\ rest[<<i + 1, k + 1>>]
                    \/ /\ j <= Len(file) /\ Accepts(re[i], file[j], insensitive, cross)
                       /\ rest[<<i + 1, j + 1>>]
    IN rest[<<1, 1>>]

Match(p, file, insensitive) ==
    \E q \in ExpandBraces[p] : RegexpMatches(Regexp(ByteWise(q)), file, insensitive, TRUE)

-----------------------------------------------------------------------------
(* Whether two patterns can match a common path. *)

\* A run of stars is one star.
Collapsed(out, t) ==
    IF t = Star /\ out # <<>> /\ Last(out) = Star THEN out ELSE Append(out, t)

SegTokens(s) == FoldLeft(Collapsed, <<>>, s)

OnlyFrom(seq, i, x) == \A k \in i..Len(seq) : seq[k] = x

\* Mutant of SegmentsIntersect: a star stands for one character or more.
SegmentsIntersectPlus(s, t, insensitive) ==
    LET a == SegTokens(s)
        b == SegTokens(t)
        go[at \in (1..(Len(a) + 1)) \X (1..(Len(b) + 1))] ==
            LET i == at[1]
                j == at[2]
            IN IF i > Len(a) \/ j > Len(b) THEN OnlyFrom(a, i, Star) /\ OnlyFrom(b, j, Star)
               ELSE IF a[i] = Star THEN go[<<i + 1, j + 1>>] \/ go[<<i, j + 1>>]
               ELSE IF b[j] = Star THEN go[<<i + 1, j + 1>>] \/ go[<<i + 1, j>>]
               ELSE CharsIntersect(a[i], b[j], insensitive) /\ go[<<i + 1, j + 1>>]
    IN go[<<1, 1>>]

SegmentsIntersect(s, t, insensitive) ==
    LET a == SegTokens(s)
        b == SegTokens(t)
        go[at \in (1..(Len(a) + 1)) \X (1..(Len(b) + 1))] ==
            LET i == at[1]
                j == at[2]
            IN IF i > Len(a) \/ j > Len(b) THEN OnlyFrom(a, i, Star) /\ OnlyFrom(b, j, Star)
               ELSE IF a[i] = Star \/ b[j] = Star THEN go[<<i + 1, j>>] \/ go[<<i, j + 1>>]
               ELSE CharsIntersect(a[i], b[j], insensitive) /\ go[<<i + 1, j + 1>>]
    IN go[<<1, 1>>]

\* "**" spans zero or more whole segments.
GlobsIntersect(p, q, insensitive) ==
    LET a == Segments(p)
        b == Segments(q)
        go[at \in (1..(Len(a) + 1)) \X (1..(Len(b) + 1))] ==
            LET i == at[1]
                j == at[2]
            IN IF i > Len(a) \/ j > Len(b) THEN OnlyFrom(a, i, Globstar) /\ OnlyFrom(b, j, Globstar)
               ELSE IF a[i] = Globstar \/ b[j] = Globstar
                    THEN \/ go[<<i + 1, j>>] \/ go[<<i, j + 1>>]
                         \/ a[i] = b[j] /\ go[<<i + 1, j + 1>>]
                    ELSE SegmentsIntersect(a[i], b[j], insensitive) /\ go[<<i + 1, j + 1>>]
    IN go[<<1, 1>>]

PatternsCanIntersect(p, q, insensitive) ==
    \E x \in ExpandBraces[p], y \in ExpandBraces[q] : GlobsIntersect(x, y, insensitive)

-----------------------------------------------------------------------------
(* Excludes and scopes. *)

CaseFold(p, insensitive) ==
    [i \in 1..Len(p) |->
        IF ~insensitive THEN p[i]
        ELSE CASE p[i].kind = "lit"   -> Lit(Lower[p[i].ch])
               [] p[i].kind = "class" ->
                    Class(p[i].neg, [k \in 1..Len(p[i].ranges) |->
                        [lo |-> Lower[p[i].ranges[k].lo], hi |-> Lower[p[i].ranges[k].hi]]])
               [] OTHER -> p[i]]

Literal(p) == \A i \in 1..Len(p) : p[i].kind \in {"lit", "slash"}

Subtree == <<Slash>> \o Globstar
Base(p) == SubSeq(p, 1, Len(p) - 3)

\* Mutant of Under: X/** covers whatever begins with X.
UnderByPrefix(base, p) == IsPrefix(base, p)

\* The path base itself, or a pattern below it.
Under(base, p) == p = base \/ IsPrefix(Append(base, Slash), p)

\* The same pattern, or X/** over X and what lies under it, X without wildcards.
PatternCovers(outer, inner, insensitive) ==
    \A i \in ExpandBraces[inner] : \E o \in ExpandBraces[outer] :
        \/ CaseFold(o, insensitive) = CaseFold(i, insensitive)
        \/ /\ IsSuffix(Subtree, o) /\ Literal(Base(o))
           /\ Under(CaseFold(Base(o), insensitive), CaseFold(i, insensitive))

\* A claim on a path owns what lies under it, once it is a directory.
WithSubtree(p) == IF IsSuffix(Subtree, p) THEN {p} ELSE {p, p \o Subtree}

IsRootGlobal(p) ==
    p \in {Globstar, <<Star>>} \/ IsPrefix(Append(Globstar, Slash), p)

ExcludedBy(scope, p, insensitive) ==
    \E e \in scope.exclude : PatternCovers(e, p, insensitive)

\* Mutant of ScopesOverlap: only the first scope's paths own what lies under them.
ScopesOverlapOneSided(a, b, insensitive) ==
    \E p \in a.include, q \in b.include :
        /\ ~ExcludedBy(a, q, insensitive) /\ ~ExcludedBy(b, p, insensitive)
        /\ \/ IsRootGlobal(p) \/ IsRootGlobal(q)
           \/ \E wp \in WithSubtree(p) : PatternsCanIntersect(wp, q, insensitive)

ScopesOverlap(a, b, insensitive) ==
    \E p \in a.include, q \in b.include :
        /\ ~ExcludedBy(a, q, insensitive) /\ ~ExcludedBy(b, p, insensitive)
        /\ \/ IsRootGlobal(p) \/ IsRootGlobal(q)
           \/ \E wp \in WithSubtree(p), wq \in WithSubtree(q) :
                  PatternsCanIntersect(wp, wq, insensitive)

\* An argument that ends in a slash means the directory and all that is in it.
NormalizeAll(p) ==
    IF Last(p) # Slash THEN p
    ELSE IF Literal(Front(p)) THEN Front(p) \o Subtree ELSE Front(p)

\* The directories above a file.
Above(file) == {SubSeq(file, 1, i - 1) : i \in {k \in 2..Len(file) : file[k] = Sep}}

PathOf(p) == [i \in 1..Len(p) |-> IF p[i] = Slash THEN Sep ELSE p[i].ch]

\* os.Stat finds the directory under that name.
StatFinds(name, dir) ==
    Len(name) = Len(dir) /\ \A i \in 1..Len(name) : SameChar(name[i], dir[i], CaseBlind)

\* Materialize, in a workspace that holds only this file: a pattern without wildcards
\* that names a directory stands for what is in it too.
Matched(patterns, file, insensitive) ==
    \E p \in patterns :
        \/ Match(p, file, insensitive)
        \/ /\ Literal(p) /\ \E dir \in Above(file) : StatFinds(PathOf(p), dir)
           /\ Match(p \o Subtree, file, insensitive)

\* buildScope: what the include patterns match and the exclude patterns do not.
Materialized(scope, file, insensitive) ==
    Matched(scope.include, file, insensitive) /\ ~Matched(scope.exclude, file, insensitive)

=============================================================================
