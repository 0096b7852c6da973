\* One refusal by the map saver is enough.
SPECIFICATION Spec
CONSTANTS
  u1 = u1
  u2 = u2
  u3 = u3
  Clients <- ThreeClients
  MaxStops = 0
INVARIANT SuccessMeansSaved
CHECK_DEADLOCK FALSE
