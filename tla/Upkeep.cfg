SPECIFICATION Spec
CONSTANTS
  p1 = p1  p2 = p2
  c1 = c1  c2 = c2
  e1 = e1  e2 = e2
  None = None
  Process = {p1, p2}
  Card = {c1}
  Entry = {e1, e2}
  MaxNotes = 2
SYMMETRY Alike
INVARIANTS
  
  DoctorHeals
  OrphansStayOrphans
  WaitersGoWithTheirCard
PROPERTIES
  KeptCardsStay
CHECK_DEADLOCK FALSE
