SPECIFICATION SharedSpec
CONSTANTS
  N = 2
  Grain = 1
  MaxConnections = 3
CHECK_DEADLOCK FALSE
INVARIANT AssertionsHold
