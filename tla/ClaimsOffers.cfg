SPECIFICATION FairSpec
CONSTANTS
  s1 = s1  s2 = s2  s3 = s3
  c1 = c1  c2 = c2  c3 = c3
  m1 = m1  m2 = m2
  a1 = a1  a2 = a2
  None = None
  Session = {s1, s2, s3}
  Card = {c1}
  Message = {m1, m2}
  Pattern <- OnePattern
  Excludable = {}
  Modes = {"exclusive"}
  HostOf <- Machines
  MayForce = {TRUE, FALSE}
  Runners = {s1}
  Mortal = {s2}
  Faults = {}
INVARIANTS
  OneOpenOffer
  OffersInv
  LeasesMatchCards
PROPERTIES
  HandsChangeByOpenOffer
  ImplementsDoor
  AbandonedCardsFall
