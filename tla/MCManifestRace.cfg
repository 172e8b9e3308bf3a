SPECIFICATION Spec
CONSTANTS
  Writer = {w1, w2, w3}
  None = None
  Empty = Empty
  Corrupt = Corrupt
  MaxCrashes = 0
CHECK_DEADLOCK FALSE
PROPERTY PutReplacesWhatItRead
