SPECIFICATION MCSpec
CONSTANTS
  Requests = {r1, r2, r3, r4}
  ApplicationIds = {a1, a2}
  SubmissionKeys = {k1, k2}
  NoOne = NoOne
  MaxKilled = 4
  Writers = {w1, w2}
  Drafts <- MCDrafts
  Facets <- MCFacets
  Replies <- MCReplies
  Context <- MCContext
  MaxDeeds = 2
  NoDocument = NoDocument
  Scenarios = {"tracker", "documents"}
SYMMETRY Symmetry
CHECK_DEADLOCK FALSE
INVARIANT StatusMatchesSerially
INVARIANT HistoryIsLegalWalk
INVARIANT OneRecordPerSubmission
INVARIANT StoredIsAttested
INVARIANT VersionsCountUp
INVARIANT ResumesReadWhole
INVARIANT AttachedIsFiled
PROPERTY ImplementsStatusWalk
