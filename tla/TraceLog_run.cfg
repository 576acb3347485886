CONSTANTS
  Root = root
  Slots = {s1, s2}
  MaxTurns = 2
  MaxCalls = 1
  Cap = 1
SPECIFICATION Spec
SYMMETRY Symmetry
CHECK_DEADLOCK FALSE
INVARIANTS
  TraceValid
  SpansClosed
  
  
