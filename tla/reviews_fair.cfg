SPECIFICATION FairSpec
CONSTANTS
  Requests = {r1, r2, r3}
  HandoffIds = {h1, h2, h3}
  ReviewIds = {v1, v2, v3}
  Fields = {legal}
  Sensitive = {legal}
  Values = {yes}
  NoOne = NoOne
  MaxKilled = 0
PROPERTY SubmittedIsTracked
