\* All four modes, one fault at any time, Ctrl-C at any time, a clean start or
\* one among leftovers.
SPECIFICATION Spec
CONSTANTS
  controller_defs <- ThreeControllers
  priority_controllers <- TwoTargets
  LidarTargets <- TwoTargets
  MoveitTargets <- AllThree
  Leftovers <- Remains
  Interrupts = TRUE
  MaxFaults = 1
INVARIANTS TypeOK OneScanSource NavigationInOrder MoveGroupHasControllers RvizAfterMoveGroup
PROPERTIES OnlyDetachedAfterShutdown
CHECK_DEADLOCK FALSE
