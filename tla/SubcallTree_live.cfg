SPECIFICATION FairSpec
CONSTANTS
  Root = Root
  Nobody = Nobody
  Calls = {c1, c2, c3}
  MaxUsd = 3
  Costs = {1, 2}
  Timed = TRUE
  MaxDepth = 2
  MaxConcurrent = 1
  MaxIterations = 2
PROPERTIES CallsAnswered SessionEnds
CHECK_DEADLOCK FALSE
