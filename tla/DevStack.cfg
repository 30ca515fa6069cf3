SPECIFICATION Spec
CONSTANTS
  Templates <- MCTemplates
  MaxEdits = 1
  MaxRuns = 2
INVARIANTS OneConnection
PROPERTIES StackStopsWhole
CHECK_DEADLOCK FALSE
