SPECIFICATION MCSpec
CONSTANTS
  Requests = {r1, r2, r3, r4}
  NoOne = NoOne
  MaxKilled = 1
  Things <- MCThings
  Persons <- MCPersons
  Readings <- MCReadings
  Unusable = Unusable
  Earlier = Earlier
  MaxEdits = 3
  Scenarios = {"rights", "edits"}
SYMMETRY Symmetry
CHECK_DEADLOCK FALSE
INVARIANT LedgerTellsTheStory
INVARIANT ErasedStaysErased
INVARIANT EveryFileIsNamed
PROPERTY StoredUnderGrant
PROPERTY OnlyWhatWasAsked
