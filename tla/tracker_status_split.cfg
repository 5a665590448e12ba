SPECIFICATION MCSpec
CONSTANTS
  Requests = {r1, r2, r3, r4}
  ApplicationIds = {a1, a2}
  SubmissionKeys = {k1, k2}
  NoOne = NoOne
  MaxKilled = 0
  Writers = {w1}
  Drafts = {}
  Facets <- MCFacets
  Replies = {}
  Context <- MCContext
  MaxDeeds = 0
  NoDocument = NoDocument
  Scenarios = {"tracker"}
SYMMETRY Symmetry
CHECK_DEADLOCK FALSE
INVARIANT StatusMatchesHistory
