\* The normal session: one monitor, no failure.
SPECIFICATION FairSpec
CONSTANTS
  m1 = m1
  m2 = m2
  Sources <- TwoSources
  Monitors <- OneMonitor
  MaxForkFaults = 0
PROPERTY EventuallyStarts
CHECK_DEADLOCK FALSE
