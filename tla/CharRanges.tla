------------------------------ MODULE CharRanges ------------------------------
(* The characters of a path pattern and what matches one character: literals,    *)
(* "?" and classes such as [a-c] and [!a-c] (internal/paths/intersect.go). Code  *)
(* points are numbers; the layout of ASCII around its letters is a parameter, so  *)
(* that a few points show what the hundreds do: '@' before the upper-case         *)
(* letters, '[' after them, the lower-case letters, and the points above ASCII.   *)
EXTENDS Integers, Sequences, SequencesExt

CONSTANTS MaxRune,   \* the last code point
          MaxASCII,  \* the last one of ASCII
          UpperA, UpperZ, \* the upper-case letters
          LowerA,    \* the first lower-case letter
          Sep,       \* the path separator
          Fold       \* of all the forms of a character (unicode.SimpleFold), the one that
                     \* stands for them

Point == 0..MaxRune
Shift == LowerA - UpperA

ASSUME LayoutAssumption ==
    /\ MaxRune \in Nat /\ {MaxASCII, UpperZ, LowerA, Sep} \subseteq Point
    /\ UpperA \in 1..UpperZ /\ UpperZ < LowerA /\ LowerA + UpperZ - UpperA <= MaxASCII
    /\ Sep < UpperA
    /\ Fold \in [Point -> Point]
    /\ \A c \in 0..MaxASCII : Fold[c] = IF c \in UpperA..UpperZ THEN c + Shift ELSE c
    /\ \A c \in Point : Fold[c] = Sep => c = Sep

\* No range begins or ends with the separator, which would end the segment instead.
CharRange == {r \in [lo : Point \ {Sep}, hi : Point \ {Sep}] : r.lo <= r.hi}

\* One position of a segment: kind tells a literal, "?", "*" or a class.
Lit(c)             == [kind |-> "lit", ch |-> c]
Class(neg, ranges) == [kind |-> "class", neg |-> neg, ranges |-> ranges]
AnyChar            == [kind |-> "any"]
Star               == [kind |-> "star"]

-----------------------------------------------------------------------------
(* Which character a token accepts. *)

RangeHas(ranges, c) == \E r \in ToSet(ranges) : c \in r.lo..r.hi

SameChar(a, b, insensitive) == a = b \/ (insensitive /\ Fold[a] = Fold[b])

\* A class asks for the character and, if case does not count, for its other forms.
ClassHas(t, c, insensitive) ==
    (\E d \in Point : SameChar(c, d, insensitive) /\ RangeHas(t.ranges, d)) # t.neg

-----------------------------------------------------------------------------
(* Ranges: sorted, with no two that touch. *)

Joined(out, r) ==
    IF out = <<>> \/ r.lo > Last(out).hi + 1 THEN Append(out, r)
    ELSE IF r.hi > Last(out).hi THEN [out EXCEPT ![Len(out)].hi = r.hi]
    ELSE out

Before(x, y) == x.lo < y.lo \/ (x.lo = y.lo /\ x.hi < y.hi)

\* The first place in out, which is sorted, that leaves it so when r is put there.
Place(out, r) == Min({k \in 1..(Len(out) + 1) : k > Len(out) \/ Before(r, out[k])})

Inserted(out, r) == InsertAt(out, Place(out, r), r)

Sorted(in) == FoldLeft(Inserted, <<>>, in)

NormalizeRanges(in) == FoldLeft(Joined, <<>>, Sorted(in))

\* The part of r between lo and hi, moved by shift: no range or one.
Part(r, lo, hi, shift) ==
    LET from == IF r.lo > lo THEN r.lo ELSE lo
        to   == IF r.hi < hi THEN r.hi ELSE hi
    IN IF from <= to THEN <<[lo |-> from + shift, hi |-> to + shift]>> ELSE <<>>

\* Mutant of Folded: the letters keep their place.
FoldedUnshifted(r) ==
    Part(r, 0, UpperA - 1, 0) \o Part(r, UpperA, UpperZ, 0) \o Part(r, UpperZ + 1, MaxASCII, 0)

\* One range with its upper-case letters turned into lower-case ones.
Folded(r) ==
    Part(r, 0, UpperA - 1, 0) \o Part(r, UpperA, UpperZ, Shift) \o Part(r, UpperZ + 1, MaxASCII, 0)

\* Beyond ASCII the folded form of a range is not known.
FoldKnown(ranges, insensitive) ==
    insensitive => \A r \in ToSet(ranges) : r.hi <= MaxASCII

FoldedRanges(ranges, insensitive) ==
    NormalizeRanges(IF insensitive THEN FlattenSeq([i \in 1..Len(ranges) |-> Folded(ranges[i])])
                    ELSE ranges)

RangesIntersect(a, b) ==
    \E x \in ToSet(a), y \in ToSet(b) : x.lo <= y.hi /\ y.lo <= x.hi

\* Some character of positive lies in none of the excluded ranges: a cursor runs over
\* each positive range and jumps behind the excluded ones that it meets.
HasOutside(positive, excluded) ==
    \E p \in ToSet(positive) :
        LET outside[at \in (1..(Len(excluded) + 1)) \X Int] ==
                LET i == at[1]
                    cursor == at[2]
                    x == excluded[i]
                IN IF i > Len(excluded) THEN cursor <= p.hi
                   ELSE IF x.hi < cursor THEN outside[<<i + 1, cursor>>]
                   ELSE IF x.lo > p.hi THEN cursor <= p.hi
                   ELSE x.lo > cursor \/ (x.hi < p.hi /\ outside[<<i + 1, x.hi + 1>>])
        IN outside[<<1, p.lo>>]

-----------------------------------------------------------------------------

\* Two tokens accept a common character. A comma or a brace that is left is itself.
CharsIntersect(x, y, insensitive) ==
    LET xr == FoldedRanges(x.ranges, insensitive)
        yr == FoldedRanges(y.ranges, insensitive)
    IN CASE x.kind = "any" \/ y.kind = "any" -> TRUE
         [] x.kind = "lit" /\ y.kind = "lit" -> SameChar(x.ch, y.ch, insensitive)
         [] x.kind = "lit" /\ y.kind = "class" -> ClassHas(y, x.ch, insensitive)
         [] x.kind = "class" /\ y.kind = "lit" -> ClassHas(x, y.ch, insensitive)
         [] x.kind = "class" /\ y.kind = "class" ->
              IF ~FoldKnown(x.ranges, insensitive) \/ ~FoldKnown(y.ranges, insensitive)
                 \/ (x.neg /\ y.neg)
              THEN TRUE
              ELSE IF x.neg THEN HasOutside(yr, xr)
              ELSE IF y.neg THEN HasOutside(xr, yr)
              ELSE RangesIntersect(xr, yr)
         [] OTHER -> x = y

=============================================================================
