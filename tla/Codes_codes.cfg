SPECIFICATION CodesFairSpec
CONSTANTS
  Parts = {"league", "stack", "room"}
  Games <- ThreeGames
  None = None
  RingSize = 2
  Faults = {"refuse", "focus", "capture", "stuck", "misclick", "crash"}
  LoopFaults = {"refuse", "focus", "capture", "stuck", "crash"}
  Looping = FALSE
  Feed <- TwoInFeed
  FinishedAt <- FinishTimes
  CodeStack <- ThreeCodes
  FailRetryCap = 2
  FailStreakCap = 2
  EscTries = 1
  BackTries = 1
  RetryUsed = TRUE
  Keys = {"m1", "m2"}
  Sockets <- SocketNames
  Owners = {"ann", "bob", "eve"}
  Admins = {"ann", "bob"}
  OwnerOf <- SocketOwners
  Free = Free
  Unloaded = Unloaded
  StaleAfter = 1
  PruneEvery = 2
INVARIANTS TriesBounded CapturedIsOnDisk TriedIsLogged RecordIsRight StackKeepsItsCodes
INVARIANTS MemoryIsDurable OnlyAdminsHold
PROPERTIES NoMapLost StopEnds RunEnds EveryCodeComesAround ClaimsKept StaleIsPruned
