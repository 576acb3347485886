SPECIFICATION Spec
CONSTANTS
  Root = Root
  Nobody = Nobody
  Calls = {c1, c2, c3}
  MaxUsd = 4
  Costs = {1, 2}
  Timed = TRUE
  MaxDepth = 1
  MaxConcurrent = 2
  MaxIterations = 2
SYMMETRY Symmetry
INVARIANTS Conservation OverspendBounded
PROPERTIES SpentOnlyGrows UsageIsFinal AllKeepContract
CHECK_DEADLOCK FALSE
