SPECIFICATION Spec
CONSTANTS
  Graphs <- MCGraphs
  MaxOps = 2
INVARIANTS
  
  SightMatchesGraph
  
CHECK_DEADLOCK FALSE
