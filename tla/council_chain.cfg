SPECIFICATION Spec
CONSTANTS
  Requests = {r1, r2}
  Shapes <- MCShapes
  DemoShape <- MCDemo
  Fleets <- MCFleets
  ModelSeats = {"red_team"}
  Replies <- MCReplies
  Ids = {1, 2, 3}
  MaxRecent = 2
  MaxClock = 1
  MaxRestarts = 0
  MaxFaults = 0
  MaxTokens = 1000000
  Percent = 100
  SpotPercent = 60
  MarginPct = 30
INVARIANTS
  ChainValid
CHECK_DEADLOCK FALSE
