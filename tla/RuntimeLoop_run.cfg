SPECIFICATION FairSpec
CONSTANTS
  Codes = {a, b}
  Marked = {b}
  NoCode = NoCode
  MaxIterations = 5
  MaxErrors = 3
  KeepRecent = 2
INVARIANTS HistWellFormed ErrorsInARow NoThirdIdenticalCell SessionLeft
PROPERTIES KeepsContract RunEnds
CHECK_DEADLOCK FALSE
