----------------------------- MODULE ScopeQueries -----------------------------
(* The questions that claim, check and guard put to Globs: does a request with its *)
(* --exclude overlap a card? The arguments are typed word by word, so that every   *)
(* pattern of a few words meets every other one; and for single characters, every  *)
(* token meets every other token. The answers are compared with what the patterns  *)
(* match, by enumeration over all the files of a bounded tree.                      *)
EXTENDS Globs

CONSTANTS Word,      \* what patterns are made of: short sequences of symbols
          MaxWords,  \* how many of them one pattern has at most
          MaxTyped,  \* and all the patterns of one question together
          Tokens,    \* the tokens that are compared on their own
          File       \* the names a file can have, directories included

ASSUME BoundAssumption == MaxWords \in Nat /\ MaxTyped \in Nat
ASSUME WordAssumption  == Word \subseteq Seq(Symbol)
ASSUME TokenAssumption == Tokens \subseteq {t \in Symbol : t.kind \in {"lit", "class", "any"}}
ASSUME FileAssumption  == File \subseteq Seq(Point) /\ \A f \in File : Above(f) \subseteq File

VARIABLES
    insensitive, \* config.paths.caseSensitivity
    include,     \* the words of a request so far
    exclude,     \* those of its --exclude
    card,        \* those of the card it is compared with
    tokens       \* the tokens under comparison

vars == <<insensitive, include, exclude, card, tokens>>

Nothing == include = <<>> /\ exclude = <<>> /\ card = <<>> /\ tokens = <<>>
Init == insensitive \in BOOLEAN /\ Nothing

Typed == Len(include) + Len(exclude) + Len(card)
MayType(words) == tokens = <<>> /\ Typed < MaxTyped /\ Len(words) < MaxWords

TypeInclude(w) ==
    /\ MayType(include) /\ include' = Append(include, w)
    /\ UNCHANGED <<insensitive, exclude, card, tokens>>

TypeExclude(w) ==
    /\ MayType(exclude) /\ exclude' = Append(exclude, w)
    /\ UNCHANGED <<insensitive, include, card, tokens>>

TypeCard(w) ==
    /\ MayType(card) /\ card' = Append(card, w)
    /\ UNCHANGED <<insensitive, include, exclude, tokens>>

PickToken(t) ==
    /\ Typed = 0 /\ Len(tokens) < 2
    /\ tokens' = Append(tokens, t)
    /\ UNCHANGED <<insensitive, include, exclude, card>>

NextQuestion ==
    /\ ~Nothing
    /\ include' = <<>> /\ exclude' = <<>> /\ card' = <<>> /\ tokens' = <<>>
    /\ UNCHANGED insensitive

Next ==
    \/ \E w \in Word : TypeInclude(w) \/ TypeExclude(w) \/ TypeCard(w)
    \/ \E t \in Tokens : PickToken(t)
    \/ NextQuestion

Spec == Init /\ [][Next]_vars

-----------------------------------------------------------------------------
(* What a pattern stands for. *)

\* What NormalizePattern and PatternToRegExp let through.
Valid(p) ==
    /\ p # <<>> /\ p # <<Slash>> /\ ExpandBraces[NormalizeAll(p)] # {}
    /\ \A q \in ExpandBraces[NormalizeAll(p)] : <<>> \notin ToSet(Segments(q))
    /\ Compiles(NormalizeAll(p))

Given(words) == words # <<>> /\ Valid(FlattenSeq(words))

\* A brace-free pattern without the "/**" it ends in, however often.
Trimmed[q \in Seq(Symbol)] ==
    IF IsSuffix(Subtree, q) /\ q # Subtree THEN {q} \cup Trimmed[Base(q)] ELSE {q}

\* The files a pattern names, X/** including X, and classes kept within a segment.
Named(p) ==
    LET res == {Regexp(t) : t \in UNION {Trimmed[q] : q \in ExpandBraces[p]}}
    IN {f \in File : \E re \in res : RegexpMatches(re, f, insensitive, FALSE)}

\* ... and what lies under them, once they are directories.
Owned(patterns) ==
    LET named == UNION {Named(p) : p \in patterns}
    IN {f \in File : ({f} \cup Above(f)) \cap named # {}}

PatternOf(words) == NormalizeAll(FlattenSeq(words))
PatternsOf(words) == IF words = <<>> THEN {} ELSE {PatternOf(words)}

Request == [include |-> PatternsOf(include), exclude |-> PatternsOf(exclude)]
Card    == [include |-> PatternsOf(card), exclude |-> {}]

\* A question that can be put: all three patterns are valid.
Complete == Given(include) /\ Given(card) /\ (exclude = <<>> \/ Given(exclude))

-----------------------------------------------------------------------------
(* What the answers promise. *)

\* Invariant I3: a file that the request and the card both own makes them overlap,
\* whether or not it exists (ScopesOverlap).
OverlapNeverMissed ==
    (Complete /\ exclude = <<>>) =>
      \/ ScopesOverlap(Request, Card, insensitive)
      \/ Owned(Request.include) \cap Owned(Card.include) = {}

\* Invariant I3 with --exclude: where an exclude is taken to cover what would overlap, it
\* owns every file that both sides own (ScopesOverlap, PatternCovers).
ExcludesHideNothing ==
    (Complete /\ exclude # <<>>) =>
      \/ ScopesOverlap(Request, Card, insensitive)
      \/ Owned(Request.include) \cap Owned(Card.include) \subseteq Owned(Request.exclude)

\* Who comes first does not matter: the card would have been refused next to the
\* request just as the request is next to the card (ScopesOverlap).
OverlapSymmetric ==
    Complete => (ScopesOverlap(Request, Card, insensitive) <=> ScopesOverlap(Card, Request, insensitive))

\* The intersection is decided, not approximated: where it says yes there is a file
\* that both patterns name (PatternsCanIntersect, protocol 6.3).
IntersectionExact ==
    (Complete /\ exclude = <<>>) =>
      (PatternsCanIntersect(PatternOf(include), PatternOf(card), insensitive) <=>
         Named(PatternOf(include)) \cap Named(PatternOf(card)) # {})

\* Two tokens are said to intersect when some character is accepted by both, and, but
\* for "?", two negated classes and folding beyond ASCII, only then (CharsIntersect).
TokensDecided ==
    Len(tokens) = 2 =>
      LET x == tokens[1]
          y == tokens[2]
          common == \E c \in Point : Accepts(x, c, insensitive, TRUE) /\ Accepts(y, c, insensitive, TRUE)
          unsure == \/ \E t \in {x, y} : t.kind = "any"
                    \/ \A t \in {x, y} : t.kind = "class" /\ t.neg
                    \/ \E t \in {x, y} : t.kind = "class" /\ ~FoldKnown(t.ranges, insensitive)
      IN /\ common => CharsIntersect(x, y, insensitive)
         /\ CharsIntersect(x, y, insensitive) => common \/ unsure

\* "It must never say no when the materialized sets intersect" (paths.go): a file that
\* buildScope lists for both makes them overlap.
MaterializedNeverMissed ==
    Complete =>
      \A f \in File : Materialized(Request, f, insensitive) /\ Materialized(Card, f, insensitive)
                        => ScopesOverlap(Request, Card, insensitive)

=============================================================================
