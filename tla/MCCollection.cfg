SPECIFICATION Spec
CONSTANTS
  s1 = s1
  s2 = s2
  g1 = g1
  g2 = g2
  g12 = g12
  p1 = p1
  p2 = p2
  Source = {s1, s2}
  Segment = {g1, g2, g12, remote}
  Remote = remote
  SegmentOf <- Distinct
  None = None
  MaxFaults = 1
  CasRetries = 2
  Promo = {p1}
  NoPromo = NoPromo
INVARIANTS TypeOK HeadVerified  
 
CHECK_DEADLOCK FALSE
