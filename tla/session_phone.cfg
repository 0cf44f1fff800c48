SPECIFICATION Spec
CONSTANTS
  Services = {s1}
  Runs = {g1, g2}
  Main = Main
  MaxJobs = 1
  None = None
INVARIANTS
  OneLiveRun
  LoopKnows
PROPERTIES
  ConnectsWhenAllowed
CHECK_DEADLOCK FALSE
