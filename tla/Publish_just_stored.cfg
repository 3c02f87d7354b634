SPECIFICATION PublishSpec
CONSTANTS
  Parts = {"crawl"}
  Accounts = {"ann", "bob"}
  None = None
  Excluded = Excluded
  MaxFeed = 2
  MaxEdits = 2
  MaxTrouble = 2
  Faults <- AnyFault
  Championships <- Stages
  Playoffs <- Knockouts
  Related <- SameName
  Teams <- Clubs
  Matches <- Games
  Seeds <- Committed
  ChampionshipOf <- StageOf
  Rivals <- Sides
  InitialStatus <- AtFirst
  Begun <- FirstLook
  Nothing = Nothing
  MaxEvents = 3
PROPERTIES JustStoredIsDue
