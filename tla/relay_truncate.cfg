SPECIFICATION Spec
CONSTANTS
  Jobs = {j1}
  Streamed = {j1}
  Conns = {c1}
  Faulty = {}
  None = None
  BufCap = 1
  MaxTokens = 2
  FaultyUp = 0
INVARIANTS
  SuccessIsComplete
CHECK_DEADLOCK FALSE
