SPECIFICATION Spec
CONSTANTS
  s1 = s1  s2 = s2  s3 = s3
  c1 = c1  c2 = c2  c3 = c3
  m1 = m1  m2 = m2
  a1 = a1  a2 = a2
  None = None
  Session = {s1, s2}
  Card = {c1, c2}
  Message = {m1}
  Pattern <- OnePattern
  Excludable = {}
  Modes = {"exclusive", "shared"}
  HostOf <- OneMachine
  MayForce = {FALSE}
  Runners = {}
  Mortal = {}
  Faults = {"crash"}
SYMMETRY AllInterchangeable
INVARIANTS
  NoTwoOwnersUnlessHanded
  ClaimsInv
  NothingLost
