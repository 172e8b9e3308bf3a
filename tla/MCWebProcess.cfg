SPECIFICATION WebFairSpec
CONSTANTS
  Id = {j1, j2, j3}
  Collection = {c1}
  Key = {k1}
  None = None
  Watched = {j1}
  User = {u1, u2}
  Wallet = {w1, w2}
  Nonce = {n1, n2}
  Call = {r1, r2}
  Nobody = Nobody
  Request = {q1, q2}
  Visit = {v1, v2}
  Challenge = {h1}
  MaxSessions = 2
  NoEntry = NoEntry
  MaxHead = 3
  MaxEvents = 2
CHECK_DEADLOCK FALSE
INVARIANTS
  WebTypeOK
  CancelIsKept
  AnswerIsCurrent
  
PROPERTIES
  ImplementsLifecycle
  StreamHears
  ScheduledJobEnds
  NobodyLockedOut
  CacheCatchesUp
