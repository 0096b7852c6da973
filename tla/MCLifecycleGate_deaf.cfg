\* No fault at all: an activation before discovery is never heard.
SPECIFICATION FairSpec
CONSTANTS
  c1 = c1
  c2 = c2
  c3 = c3
  Targets <- TwoTargets
  Depth = 10
  MaxFaults = 0
PROPERTY EventuallyLaunches
CHECK_DEADLOCK FALSE
