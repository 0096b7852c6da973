\* As MCBringup_safety, with fairness and up to two faults, but without Ctrl-C,
\* which ends what the property is about.
SPECIFICATION FairSpec
CONSTANTS
  controller_defs <- ThreeControllers
  priority_controllers <- TwoTargets
  LidarTargets <- TwoTargets
  MoveitTargets <- AllThree
  Leftovers <- FewLeftovers
  Interrupts = FALSE
  MaxFaults = 2
PROPERTIES LossContained
CHECK_DEADLOCK FALSE
