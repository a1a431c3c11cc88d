SPECIFICATION Spec
CONSTANTS
  c1 = c1
  c2 = c2
  c3 = c3
  Conns <- ThreeConns
  Resends <- OnlyFirst
INVARIANTS EndedIffIdle CountExact AnnouncedEnd
PROPERTIES EndIsReached
CHECK_DEADLOCK FALSE
