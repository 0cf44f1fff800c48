SPECIFICATION Spec
CONSTANTS
  Devices = {d1}
  Operators = {p1, p2}
  Handlers = {h1}
  None = None
  Share = 3
  Cent = 2
  Minimums = {0, 5}
  MaxJobs = 2
  MaxChanges = 1
  MaxFaults = 0
INVARIANTS
  PaidWithinAccrued
CHECK_DEADLOCK FALSE
