SPECIFICATION FairSpec
CONSTANTS
  N = 2
  Grain = 1
  MaxConnections = 4
CHECK_DEADLOCK FALSE
INVARIANTS TypeOK AssertionsHold RoundRobin
PROPERTIES ImplementsPool EveryConnectionServed
