SPECIFICATION Spec
CONSTANTS
  Services = {s1}
  Runs = {g1}
  Main = Main
  MaxJobs = 1
  None = None
INVARIANTS
  PausedWhenBlocked
CHECK_DEADLOCK FALSE
