CONSTANTS
  Main = main
  Workers = {w1}
  Limit = 2
  MaxCells = 2
  MaxCalls = 2
  MaxErrors = 2
SPECIFICATION Spec
CHECK_DEADLOCK FALSE
INVARIANT PausedDuringCalls
