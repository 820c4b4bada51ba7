SPECIFICATION Spec
CONSTANTS
  Conns = {c1, c2}
  SlotLimit = 1
  QueueSize = 1
  CoreSize = 1
  MaxDeltas = 0
INVARIANTS
  SlotsAreHeld
CHECK_DEADLOCK FALSE
