SPECIFICATION Spec
CONSTANTS
  a1 = a1
  a2 = a2
  p1 = p1
  p2 = p2
  Actor = {a1, a2}
  Process = {p1, p2}
  ActorOf <- OneEach
  Session = {s1, s2}
  Card = {c1}
  Token = {t1, t2}
  None = None
  MaxNotes = 3
  Faults = {"crash"}
SYMMETRY IdsAndActors
INVARIANTS
  TokensInv
  OnlyTheHolderOwns
  NotesCountUp
  NobodyLosesTheirCards
  AloneInv
PROPERTIES
  OwnTokensStay
CHECK_DEADLOCK FALSE
