\* Depth 2 and two faults: enough events for a history to overflow before the
\* monitor has read it.
SPECIFICATION FairSpec
CONSTANTS
  c1 = c1
  c2 = c2
  c3 = c3
  Targets <- ThreeTargets
  Depth = 2
  MaxFaults = 2
INVARIANTS TypeOK GateSound TableDecides
PROPERTIES LatchSpec HeardUntilOverwritten LaunchesWhenHeard LaunchesWhenMatchedInTime
CHECK_DEADLOCK FALSE
