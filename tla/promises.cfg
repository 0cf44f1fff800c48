SPECIFICATION PromisesSpec
CONSTANTS
  Topups = {t1}
  Jobs = {b1}
  Calls = {c1, c2, c3, c4}
  None = None
  MaxCutOffs = 2
  Tasks = {"j1", "j2"}
  Streamed = {"j1"}
  Conns = {"c1"}
  Faulty = {}
  BufCap = 1
  MaxTokens = 2
  FaultyUp = 0
  NItems = 4
  Provs = {"p1", "p2"}
  Requested = {0, 5}
  DefaultConcurrency = 1
  MaxConcurrency = 2
  Callers = {"k1", "k2"}
  Rate = 2
  Marks = {0, 20000, 60000}
  Pauses = {9500, 20300}
  Horizon = 62000
INVARIANTS
  AnsweredIsPosted
  PoolInv
  LimiterInv
PROPERTIES
  ImplementsAccount
  PaymentsArrive
  EveryJobEnds
  AbandonedTasksEnd
  RelayKeepsPromise
  BatchKeepsPromise
CHECK_DEADLOCK FALSE
