SPECIFICATION Spec
CONSTANTS
  MaxRune = 8
  MaxASCII = 6
  UpperA = 2
  UpperZ = 3
  LowerA = 5
  Sep = 1
  Fold <- FoldOf
  Lower <- LowerOf
  Bytes <- BytesOf
  CaseBlind = TRUE
  Word <- Words
  MaxWords = 2
  MaxTyped = 4
  Tokens <- AllTokens
  File <- Files
INVARIANTS
  OverlapNeverMissed
  ExcludesHideNothing
  OverlapSymmetric
  IntersectionExact
  TokensDecided
