CONSTANTS
  N = 3
  Sizes = {1, 3}
  Longest = 2
  Targets = {1, 4}
  Calls = {0, 4}
SPECIFICATION Spec
CHECK_DEADLOCK FALSE
INVARIANTS
  NothingDropped
PROPERTY
  RoundsEnd
