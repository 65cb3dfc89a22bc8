SPECIFICATION FairSpec
CONSTANTS
  N = 3
  MaxSpurious = 2
INVARIANTS TypeOK FaultNeedsEarlyStop NothingLeftRunning
PROPERTIES LoopsSettled StartReturns DestroyEnds
CHECK_DEADLOCK FALSE
