SPECIFICATION DevSpec
CONSTANTS
  Half = 2
  RingSize = 2
  CmdIds = {1}
  Requests <- MCRequests
  MayFault = TRUE
INVARIANTS DevTypeOK RestsReadyOrError ReadyMeansDrained SameIndex
PROPERTIES ErrorsAreAnnounced
CHECK_DEADLOCK FALSE
