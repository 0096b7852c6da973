\* All nodes of the launch files, one crash, two requests at a time.
SPECIFICATION FairSpec
CONSTANTS
  MaxPending = 2
  MaxCrashes = 1
  Mortal <- Vital
  Together <- Servers
INVARIANTS TypeOK SlamAlone AmclTruth
PROPERTIES AmclLatch ManagedAppear AmclReported
CHECK_DEADLOCK FALSE
