SPECIFICATION FairSpec
CONSTANTS
  N = 3
  Weights = {1, 3}
  ShardTarget = 2
  PromptMax = 3
  MaxSelected = 2
  MaxLeaf = 2
  MaxChild = 1
INVARIANTS TypeOK ShardsFit WorkedOnce CoverageTrue SummaryHonest SourceHidden
PROPERTIES StopsLaunching KeepsLedger WorkEnds
CHECK_DEADLOCK FALSE
