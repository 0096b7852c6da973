\* The map saver stops up to twice, also while it holds requests.
SPECIFICATION FairSpec
CONSTANTS
  u1 = u1
  u2 = u2
  u3 = u3
  Clients <- ThreeClients
  MaxStops = 2
INVARIANT TypeOK
PROPERTIES AnsweredOnce LostForGood EndsUnlessLost
CHECK_DEADLOCK FALSE
