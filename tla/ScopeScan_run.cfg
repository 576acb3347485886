SPECIFICATION Spec
CONSTANTS
  Uncapped = Uncapped
  Inputs <- MCInputs
  CapSets <- MCCapSets
INVARIANTS
  ManifestWellFormed
  UnflaggedIsComplete
  CorpusFlagsExact
  CapsKept
CHECK_DEADLOCK FALSE
