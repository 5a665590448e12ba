SPECIFICATION MCSpec
CONSTANTS
  PostingIds = {p1, p2}
  Listings = {l1}
  Tasks = {t1, t2, t3, t4}
  DeadLinkAfter = 2
  Faults = TRUE
  NoOne = NoOne
  Controls = {c1, c2}
  Signatures = {s1, s2}
  OddRadios = {}
  FormShapes <- MCFormShapes
  Pages <- MCPages
  Profiles <- MCProfiles
  MaxMoves = 1
  Candidates <- MCCandidates
  Demands <- MCDemands
  Identities <- MCIdentities
  Standings <- MCStandings
  Wishes <- MCWishes
  Scores = {0, 19, 20, 99, 100, 101}
  Limit = 2
  MaxListed = 3
  MaxEvents = 2
  Ingestions = {i1, i2}
  Feed <- MCFeed
  MaxPages = 2
  WebResults <- MCWebResults
  BoardJobs <- MCBoardJobs
  DailyLimit = 2
  MaxAttempts = 2
  MaxRetries = 1
  MaxDays = 2
  MaxFailures = 1
  NoBoard = NoBoard
  SweepsApart = FALSE
  Scenarios = {"background", "form", "matching", "resolution"}
INVARIANT ReportMatchesPage
INVARIANT HumanOnlyIsLeftAlone
INVARIANT LegalAnswersAreTrue
INVARIANT RankedOnStatedFacts
INVARIANT NotRecommendedAgain
INVARIANT VotesFallInTheirBucket
INVARIANT QuotaIsKept
INVARIANT RaceIsLostOnce
PROPERTY ReturnsByAnOlderReading
PROPERTY DeadOnEvidence
PROPERTY RequirementsAreKept
SYMMETRY Alike
CHECK_DEADLOCK FALSE
