SPECIFICATION Spec
CONSTANTS
  Uncapped = Uncapped
  Inputs <- MCInputs
  CapSets <- MCCapSets
INVARIANT TruncationTold
CHECK_DEADLOCK FALSE
