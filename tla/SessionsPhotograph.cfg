SPECIFICATION Spec
CONSTANTS
  a1 = a1
  a2 = a2
  p1 = p1
  p2 = p2
  Actor = {a1, a2}
  Process = {p1, p2}
  ActorOf <- Shared
  Session = {s1, s2}
  Card = {c1}
  Token = {t1, t2}
  None = None
  MaxNotes = 3
  Faults = {}
SYMMETRY Ids
PROPERTY
  TokensNotReverted
CHECK_DEADLOCK FALSE
