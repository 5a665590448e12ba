SPECIFICATION Spec
CONSTANTS
  Requests = {r1, r2, r3, r4}
  HandoffIds = {h1, h2}
  ReviewIds = {v1, v2}
  Fields = {legal, plain}
  Sensitive = {legal}
  Values = {yes}
  NoOne = NoOne
  MaxKilled = 4
SYMMETRY Symmetry
INVARIANT OneOpenHandoff
INVARIANT HandoffsReadable
INVARIANT OneOpenReview
INVARIANT TrackedWasSent
PROPERTY ResolvedOnce
PROPERTY SupersededStaysGone
PROPERTY FrozenOnceSubmitted
PROPERTY ImplementsLifecycle
