SPECIFICATION MCSpec
CONSTANTS
  PostingIds = {p1}
  Listings = {l1}
  Tasks = {t1}
  DeadLinkAfter = 2
  Faults = FALSE
  NoOne = NoOne
  Controls = {c1, c2}
  Signatures = {s1, s2}
  OddRadios = {"no"}
  FormShapes <- MCFormShapes
  Pages <- MCPages
  Profiles <- MCProfiles
  MaxMoves = 1
  Candidates <- MCCandidates
  Demands <- MCDemands
  Identities <- MCIdentities
  Standings <- MCStandings
  Wishes <- MCWishes
  Scores = {0, 19, 20, 99, 100, 101}
  Limit = 2
  MaxListed = 3
  MaxEvents = 2
  Ingestions = {i1, i2}
  Feed <- MCFeed
  MaxPages = 2
  WebResults <- MCWebResults
  BoardJobs <- MCBoardJobs
  DailyLimit = 2
  MaxAttempts = 2
  MaxRetries = 1
  MaxDays = 2
  MaxFailures = 1
  NoBoard = NoBoard
  SweepsApart = TRUE
  Scenarios = {"form"}
INVARIANT RadioNamesItsAnswer
