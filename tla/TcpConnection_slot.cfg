SPECIFICATION FairSpec
CONSTANTS
  PooledModes = {TRUE, FALSE}
  EtModes = {TRUE, FALSE}
  AppCloses = {"idle", "onConnection", "onMessage", "onWriteComplete", "thread"}
  PeerResets = TRUE
  SendBuffer = 1
  MaxGens = 2
  MaxSent = 2
  MaxMessage = 2
  MaxArrived = 2
  MaxDepth = 3
  MaxPosts = 1
CHECK_DEADLOCK FALSE
INVARIANTS OutputInOrder BacklogIsAwaited FaultNeedsCallback ConnectionCallbackFirst
PROPERTIES CompleteWhenDrained BacklogDrainsLT EveryByteRead EndedConnectionCloses
