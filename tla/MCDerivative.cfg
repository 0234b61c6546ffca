SPECIFICATION FairSpec
CONSTANTS
  w1 = w1
  w2 = w2
  None = None
  Workers = {w1, w2}
  MaxRuns = 2
  MaxFaults = 1
  Layouts <- MCLayouts
INVARIANTS
  ReadyIsWhole
  RowsOfOneRun
  SelectionHeld
PROPERTIES
  OutcomeReached
CHECK_DEADLOCK FALSE
