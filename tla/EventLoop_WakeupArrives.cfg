SPECIFICATION Spec
CONSTANTS
  Loop = L
  NoThread = none
  Threads = {t1, t2}
  MaxPosts = 2
  EtMode = FALSE
CHECK_DEADLOCK FALSE
INVARIANT WakeupArrives
