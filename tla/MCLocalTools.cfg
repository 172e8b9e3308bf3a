SPECIFICATION ToolSpec
CONSTANTS
  Writer = {w1, w2, w3}
  None = None
  Empty = Empty
  Corrupt = Corrupt
  MaxCrashes = 2
  Proc = {t1, t2}
  Doc = {d1, d2}
  Source = {s1}
  Text = {a, b}
  d1 = d1
  d2 = d2
  s1 = s1
  SourceOf <- OneSource
  AppendOnly = {d2}
  NoEntry = NoEntry
  MaxBatch = 2
  MaxTime = 3
  MaxRuns = 2
  MaxKills = 1
  Unset = Unset
  MaxFires = 3
  Corpus = {1, 2}
  k1 = k1
  k2 = k2
  Knob = {k1, k2}
  Queue = {k1}
  Promotable = {k1}
  Hiding = {k1}
  Patch = {q}
  Fixture = {x}
  MaxFireKills = 1
  MaxNights = 2
  Shell = {t1, t2}
  Extractor = {regex, llm}
  FailOpen = {llm}
  a = a
  b = b
  c = c
  ChunkId = {a, b, c}
  c1 = c1
  c2 = c2
  Context = {c1, c2}
  ContextOf <- TwoContexts
  MaxCommands = 2
  MaxHeadChanges = 2
  MaxToolKills = 1
  Chunks = 4
  ty1 = ty1
  SourceType = {ty1, ty2}
  MaxTotal = 3
  MaxHops = 2
  MaxPerSource = 1
  MaxLinks = 3
  Desk = {t1, t2}
  Site = {here, there}
  Home = here
  Document = {d1, d2}
  First = d1
  MaxPublish = 3
  MaxStops = 1
CHECK_DEADLOCK FALSE
INVARIANTS
  ToolTypeOK
  AckedKept
  CataloguedIsStored
  
  OneNightAtATime
  TriedOnce
  PushedWasAccepted
  IssueOnce
  StatusIsBacked
  LineageIsAWalk
  WalkIsComplete
  SiteIsWhole
PROPERTIES
  ActsAsRegister
  
  PutsKeep
  SkippedIsPublished
SYMMETRY Symmetry
