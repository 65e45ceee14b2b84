SPECIFICATION RingSpec
CONSTANTS
  Half = 2
  RingSize = 3
  CmdIds = {1, 2, 3}
  Requests <- MCOneRequest
  MayFault = FALSE
  Tasks = {t1, t2}
  NoTask = NoTask
PROPERTIES EveryWaitEnds
CHECK_DEADLOCK FALSE
