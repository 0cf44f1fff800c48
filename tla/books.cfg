SPECIFICATION SpecOfPart
CONSTANTS
  Devices = {d1, d2}
  Operators = {p1, p2}
  Handlers = {h1, h2}
  None = None
  Share = 3
  Cent = 2
  Minimums = {0, 5}
  MaxJobs = 2
  MaxChanges = 2
  MaxFaults = 1
  Topics <- Topics7
  Raws = {"e1", "r1", "r2"}
  EnvKeys = {"e1"}
  Sellers = {"d1"}
  Conns = {"c1", "c2"}
  DeviceOf <- OneDevice
  Jobs = {"j1", "j2"}
  Refs = {"s1", "s2"}
  Stripes = {"x1", "x2"}
  RunIds = {"run1", "run2", "run3"}
  Users = {"u1", "u2"}
  Mails = {"Ada@x", "ada@x", "bob@x"}
  Lower <- Spellings
  ListDefault = 1
  ListMax = 2
  MaxCalls = 5
SYMMETRY Symmetry
INVARIANTS
  NothingWithheld
  PaidFromEarnings
  StatusIsCurrent
  BooksAgree
  RowsAgree
CHECK_DEADLOCK FALSE
