\* One deactivation is enough for a launch on a table that is no longer true.
SPECIFICATION Spec
CONSTANTS
  c1 = c1
  c2 = c2
  c3 = c3
  Targets <- TwoTargets
  Depth = 10
  MaxFaults = 1
PROPERTY LaunchesOnlyWhileActive
CHECK_DEADLOCK FALSE
