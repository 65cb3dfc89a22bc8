SPECIFICATION FairSpec
CONSTANTS
  Events = {e1, e2, e3}
  EtModes = {TRUE, FALSE}
  FirstSize = 1
  CloseOthers = TRUE
  MaxHappenings = 2
INVARIANTS TypeOK DanglingNeedsOther
PROPERTY EveryEventDispatched
CHECK_DEADLOCK FALSE
