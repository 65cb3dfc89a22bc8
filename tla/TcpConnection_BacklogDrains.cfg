SPECIFICATION FairSpec
CONSTANTS
  PooledModes = {FALSE}
  EtModes = {TRUE}
  AppCloses = {}
  PeerResets = FALSE
  SendBuffer = 2
  MaxGens = 1
  MaxSent = 3
  MaxMessage = 3
  MaxArrived = 1
  MaxDepth = 3
  MaxPosts = 0
CHECK_DEADLOCK FALSE
PROPERTY BacklogDrains
