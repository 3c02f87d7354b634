SPECIFICATION HostSpec
CONSTANTS
  MaxCalls <- TwoCalls
INVARIANTS NightGoesOn
CHECK_DEADLOCK FALSE
