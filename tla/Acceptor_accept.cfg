SPECIFICATION FairSpec
CONSTANTS
  Limit = 4
  EtModes = {TRUE, FALSE}
  MaxClients = 4
  MaxOpens = 2
  MaxErrors = 2
INVARIANTS TypeOK DescriptorsAccounted SpareKept
PROPERTIES EveryClientAnswered HandleAcceptReturns
CHECK_DEADLOCK FALSE
