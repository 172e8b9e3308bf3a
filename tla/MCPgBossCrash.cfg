SPECIFICATION FairSpec
CONSTANTS
  Id = {j1}
  Node = {n1}
  Collection = {c1}
  Key = {k1}
  None = None
  RetryLimit = 2
  MaxFaults = 1
CHECK_DEADLOCK FALSE
PROPERTY
  RunningJobEnds
