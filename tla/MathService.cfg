SPECIFICATION RingSpec
CONSTANTS
  Half = 2
  RingSize = 3
  CmdIds = {1, 2, 3, 4, 5}
  Requests <- MCOneRequest
  MayFault = FALSE
  Tasks = {t1, t2, t3, t4}
  NoTask = NoTask
INVARIANTS RingTypeOK NothingLost
PROPERTIES ImplementsService CompletionsSurvive
SYMMETRY TaskSymmetry
CHECK_DEADLOCK FALSE
