SPECIFICATION CodesSpec
CONSTANTS
  Parts = {"stack"}
  Games <- ThreeGames
  None = None
  RingSize = 2
  Faults = {"refuse"}
  LoopFaults = {"capture"}
  Looping = FALSE
  Feed <- TwoInFeed
  FinishedAt <- FinishTimes
  CodeStack <- ThreeCodes
  FailRetryCap = 3
  FailStreakCap = 2
  EscTries = 1
  BackTries = 1
  RetryUsed = FALSE
  Keys = {"m1", "m2"}
  Sockets <- SocketNames
  Owners = {"ann", "bob", "eve"}
  Admins = {"ann", "bob"}
  OwnerOf <- SocketOwners
  Free = Free
  Unloaded = Unloaded
  StaleAfter = 1
  PruneEvery = 2
PROPERTIES RetiredIsSkipped
