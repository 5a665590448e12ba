SPECIFICATION MCSpec
CONSTANTS
  Requests = {r1, r2, r3, r4}
  Users = {u1, u2}
  Jobs = {j1}
  Fields = {legal, plain}
  Required = {plain}
  Sensitive = {legal}
  MaxParked = 2
  NoOne = NoOne
  Keys = {k1, k2}
  Normalized <- MCNormalized
  Processes = {web, worker}
  Worker = worker
  Seeds <- MCSeeds
  MaxAsked = 2
  MaxMigrations = 3
  MaxTries = 2
  HeldBefore <- MCHeld
  Storable <- MCStorable
  Subjects <- MCSubjects
  MaxRights = 2
  Scenarios = {"parked"}
  MaxKilled = 0
SYMMETRY Symmetry
INVARIANT PressIsReported
