SPECIFICATION Spec
CONSTANTS
  PooledModes = {FALSE}
  EtModes = {FALSE}
  AppCloses = {"onMessage"}
  PeerResets = FALSE
  SendBuffer = 2
  MaxGens = 1
  MaxSent = 2
  MaxMessage = 3
  MaxArrived = 1
  MaxDepth = 3
  MaxPosts = 0
CHECK_DEADLOCK FALSE
INVARIANT HandlerHasEvent
