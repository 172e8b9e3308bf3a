SPECIFICATION Spec
CONSTANTS
  Id = {j1, j2, j3}
  Node = {n1, n2}
  Collection = {c1}
  Key = {k1}
  None = None
  RetryLimit = 1
  MaxFaults = 2
SYMMETRY Symmetry
CONSTRAINT Small
CHECK_DEADLOCK FALSE
INVARIANTS
  TypeOK
  OneActiveRoot
  IdempotentEnqueue
PROPERTIES
  HandlerStartsOnce
  FinalRowsStay
