SPECIFICATION FairSpec
CONSTANTS
  Loop = L
  NoThread = none
  Threads = {t1, t2, t3}
  MaxPosts = 4
  EtMode = TRUE
CHECK_DEADLOCK FALSE
INVARIANTS BatchFinished
PROPERTIES ImplementsQueue EveryFunctorRuns LastTurnIsComplete StopEndsLoop
