SPECIFICATION PublishFairSpec
CONSTANTS
  Parts = {"crawl", "build"}
  Accounts = {"ann", "bob"}
  None = None
  Excluded = Excluded
  MaxFeed = 2
  MaxEdits = 2
  MaxTrouble = 2
  Faults <- AnyFault
  Championships <- Stages
  Playoffs <- Knockouts
  Related <- SameName
  Teams <- Clubs
  Matches <- Games
  Seeds <- Committed
  ChampionshipOf <- StageOf
  Rivals <- Sides
  InitialStatus <- AtFirst
  Begun <- FirstLook
  Nothing = Nothing
  MaxEvents = 3
INVARIANTS NoUploadForgotten CrawlIsComplete
PROPERTIES SiteSpec DataNeverGoesBack UploadsReachSite MatchesReachSite CatchesUp CodesArrive
