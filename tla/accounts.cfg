SPECIFICATION MembersSpec
CONSTANTS
  Logins <- Logins3
  ProviderOf <- Provider3
  Profile <- Profile3
  Primary <- Primary3
  Lower <- Lower3
  Users = {u1, u2}
  Browsers = {b1}
  Phones = {p1, p2}
  Devices = {d1, d2}
  Codes = {c1}
  Requests = {r1, r2}
  None = None
  MaxSignIns = 2
  MaxCodes = 2
  MaxLinks = 3
  MaxFaults = 2
  Joined <- Joined2
  Parts = {"pairing", "linking", "invites", "board"}
  Ttl = 2
  MaxFill = 2
  Inviters = {"ada", "bob"}
  InviteCodes = {"k1", "k2"}
  Laptops = {"laptop"}
  Tabs = {"q1", "q2"}
  Limits = {1, 2}
  MaxAttempts = 2
  MaxClaims = 2
SYMMETRY Symmetry
INVARIANTS
  OneAccountPerMail
  CodeSingleUse
  InvitationsAgree
  OptOutIsHonoured
PROPERTIES
  AccountsKeepTheirs
  SignInEquips
  RankIsKept
CHECK_DEADLOCK FALSE
