SPECIFICATION SpecOfPart
CONSTANTS
  Jobs = {j1, j2}
  Streamed = {j1, j2}
  Conns = {c1, f1}
  Faulty = {f1}
  None = None
  BufCap = 2
  MaxTokens = 2
  FaultyUp = 1
SYMMETRY Symmetric
INVARIANTS
  SlotsMatchJobs
  OwnOrderedStream
  ListedIsOpen
  AbandonedIsTold
  ShortSuccessIsWhole
PROPERTIES
  LateFramesDropped
CHECK_DEADLOCK FALSE
