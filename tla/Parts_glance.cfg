SPECIFICATION PartsSpec
CONSTANTS
  Parts = {"sheet"}
  Requests <- Visitors
  NoClaim = NoClaim
  UploadRequests = {"q1", "q2"}
  Accounts = {"ann", "cyd"}
  Admins = {"ann"}
  Denied = {}
  Tokens = {"t1", "t2"}
  Nobody = "nobody"
  LastDay = 2
  MaxEdits = 1
  Games = {"g1", "g2"}
  Flagged = {"g1"}
  Pinned = 0
  Intervals = {30, 60}
  ChosenInterval = 45
  Structure <- TwoRounds
  Opened = 7
  End = 200
  SwapTimes = {75, 140}
  DeadTimes <- Late
  RateErrors <- Errors
  Waits = {0, 1, 2}
  Default = 2
  MaxReplays = 2
  ModeOf <- Pool
  CategoryOf <- TwoIn
  Seat <- Seats
  SeatOf <- SeatNames
  Far = 2000
  Expected <- Even
  RoleOf <- Roster
  Season <- Played3
  Clubs <- Entrants
  Formats <- ToTwoOrThree
  Windows <- AllOrOne
  MaxClicks = 3
  Qualified = 6
  UbRounds = 3
  Draws <- Eight
  Rosters <- Squads
  Ours = {"u1", "u2", "u3"}
  Mine = "t2"
  NoTeam = "no"
  Readings <- OnTheHud
  MaxGroups = 2
  MaxCalls = 4
INVARIANTS GlanceLinesUp
CHECK_DEADLOCK FALSE
