SPECIFICATION Spec
CONSTANTS
  Requests = {r1, r2}
  Shapes <- MCShapes
  DemoShape <- MCDemo
  Fleets <- MCFleets
  ModelSeats = {"red_team"}
  Replies <- MCReplies
  Ids = {1, 2, 3}
  MaxRecent = 2
  MaxClock = 1
  MaxRestarts = 1
  MaxFaults = 1
  MaxTokens = 1000000
  Percent = 100
  SpotPercent = 60
  MarginPct = 30
SYMMETRY MCSymmetry
INVARIANTS
  RecordIsShown
  ChainOfThisBoot
PROPERTIES
  QuotedWasReviewed
CHECK_DEADLOCK FALSE
