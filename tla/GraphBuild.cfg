SPECIFICATION Spec
CONSTANTS
  Graphs <- SmallGraphs
  MaxNodes = 2
  MayFail = TRUE
CHECK_DEADLOCK FALSE
INVARIANTS TypeOK EveryNodeOnce EdgesLeadForward NoObjectLeaks PassesExact
PROPERTIES BuildEnds
