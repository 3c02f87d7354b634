SPECIFICATION PagesSpec
CONSTANTS
  Views <- Switcher
  Regions <- RegionOf
  Upcoming = {4}
  TeamsOf <- Entered
  MatchesOf <- Fixtures
  HomesOf <- Careers
  MaxMoves = 3
INVARIANTS HashIsTheScreen
CHECK_DEADLOCK FALSE
