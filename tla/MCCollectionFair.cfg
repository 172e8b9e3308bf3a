SPECIFICATION FairSpec
CONSTANTS
  s1 = s1
  s2 = s2
  g1 = g1
  g2 = g2
  g12 = g12
  p1 = p1
  p2 = p2
  Source = {s1}
  Segment = {g1, remote}
  Remote = remote
  SegmentOf <- Single
  None = None
  MaxFaults = 0
  CasRetries = 2
  Promo = {p1, p2}
  NoPromo = NoPromo
CHECK_DEADLOCK FALSE
PROPERTIES RootJobEnds MaterializeLands PromotingEnds
