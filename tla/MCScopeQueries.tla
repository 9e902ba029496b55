---------------------------- MODULE MCScopeQueries ----------------------------
(* Small instances of ScopeQueries: '.', '/', 'A', 'B', '[', 'a', 'b', and above ASCII *)
(* one point that folds to 'a' and one that only has 'a' as its lower-case form.      *)
EXTENDS ScopeQueries

FoldOf  == [c \in Point |-> IF c \in {2, 3} THEN c + 3 ELSE IF c = 7 THEN 5 ELSE c]
LowerOf == [c \in Point |-> IF c = 8 THEN 5 ELSE FoldOf[c]]
BytesOf == [c \in Point |-> IF c > MaxASCII THEN <<8, 7>> ELSE <<c>>]

A == Lit(2)
a == Lit(5)
b == Lit(6)
NotA == Class(TRUE, <<[lo |-> 5, hi |-> 5]>>)

\* Two words make a pattern: "*" and "*" also make "**".
Words == {<<a>>, <<A>>, <<Star>>, <<a, Slash>>, <<Slash, b>>, Subtree, Globstar \o <<Slash>>,
          <<Open, a, Comma, Open, b, Comma, Star, Slash, a, Close, Close>>}

ClassWords == {<<a>>, <<NotA>>, <<Slash, b>>, Subtree}

\* All names of one or two segments of up to two letters, and those of three segments
\* of which only the first has two letters.
Letter == {2, 5, 6}
Segment == {<<c>> : c \in Letter} \cup {<<c, d>> : c \in Letter, d \in Letter}
Files ==
    Segment \cup {s \o <<Sep>> \o t : s \in Segment, t \in Segment}
      \cup {s \o <<Sep, d, Sep, e>> : s \in Segment, d \in {5, 6}, e \in Letter}

\* Every class of one range, some of two, and every other token of one character.
AllTokens ==
    {Class(neg, <<r>>) : neg \in BOOLEAN, r \in CharRange}
      \cup {Class(neg, <<r, s>>) : neg \in BOOLEAN, r \in {[lo |-> 5, hi |-> 5], [lo |-> 3, hi |-> 5]},
                                   s \in {t \in CharRange : t.hi < 4}}
      \cup {Lit(c) : c \in Point \ {Sep}} \cup {AnyChar}
NoTokens == {}

\* [B-b] and [b-b], which folding makes the same; the point that is no form of 'a' although
\* its lower-case form is; and the files of one letter.
Wide   == Class(FALSE, <<[lo |-> 3, hi |-> 6]>>)
Narrow == Class(FALSE, <<[lo |-> 6, hi |-> 6]>>)
RangeWords == {<<Wide>>, <<Narrow>>}
DottedWords == {<<a>>, <<Lit(8)>>}
LetterFiles == {<<c>> : c \in Point \ {Sep}}

=============================================================================
