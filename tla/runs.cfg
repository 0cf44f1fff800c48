SPECIFICATION SpecInOrder
CONSTANTS
  q1 = q1
  r1 = r1
  r2 = r2
  Quotes = {q1, q2}
  Requests = {r1, r2}
  None = None
  NChunks = 2
  Price = 2
  Deposit = 5
  MaxAsyncRuns = 1
  MaxRestarts = 1
  MaxFaults = 1
INVARIANTS
  QuoteRunsOnce
  ChargedOnceForWork
  InflightIsLive
  ResultsAreSettled
PROPERTIES
  StatusMovesForward
  RunFinishes
CHECK_DEADLOCK FALSE
