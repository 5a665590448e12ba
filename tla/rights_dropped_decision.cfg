SPECIFICATION MCSpec
CONSTANTS
  Requests = {r1, r2, r3, r4}
  NoOne = NoOne
  MaxKilled = 0
  Persons = {}
  Things = {}
  Readings = {}
  Unusable = Unusable
  Earlier = Earlier
  MaxEdits = 0
  Scenarios = {"rights"}
SYMMETRY Symmetry
CHECK_DEADLOCK FALSE
INVARIANT WithdrawalIsOnRecord
