SPECIFICATION Spec
CONSTANTS
  Requests <- Visitors
  NoClaim = NoClaim
INVARIANTS OneRefreshPerCooldown
