SPECIFICATION Spec
CONSTANTS
  None = None
  long = long
  short = short
  Docs <- MCDocs
  Lines <- MCLines
  Chars <- MCChars
  Starts <- MCStarts
  Bounds <- MCBounds
  Manifests <- MCManifests
  LeafChars = 1
  MaxDepth = 2
INVARIANTS
  AnswersWithin
  NarrowsUnlessNamed
  ScopedStaysScoped
CHECK_DEADLOCK TRUE
