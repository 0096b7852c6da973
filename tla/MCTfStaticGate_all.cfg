\* A monitor left over by an earlier session announces a second time, and up
\* to two of the five processes fail to start.
SPECIFICATION FairSpec
CONSTANTS
  m1 = m1
  m2 = m2
  Sources <- TwoSources
  Monitors <- TwoMonitors
  MaxForkFaults = 2
INVARIANTS TypeOK AttemptedOnce NothingSkipped
PROPERTIES LatchSpec DeliveredStartsAll StartsUnlessMissed
CHECK_DEADLOCK FALSE
