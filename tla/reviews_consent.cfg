SPECIFICATION Spec
CONSTANTS
  Requests = {r1, r2, r3, r4}
  HandoffIds = {h1}
  ReviewIds = {v1, v2}
  Fields = {legal, plain}
  Sensitive = {legal}
  Values = {yes}
  NoOne = NoOne
  MaxKilled = 4
SYMMETRY Symmetry
INVARIANT SubmittedWithConsent
