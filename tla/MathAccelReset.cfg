SPECIFICATION AccelSpec
CONSTANTS
  Half = 2
  RingSize = 3
  CmdIds = {1, 2, 3}
  Requests <- MCOneRequest
  MayFault = TRUE
  MaySignal = FALSE
  MaxCalls = 4
  Tasks = {t1, t2}
  NoTask = NoTask
PROPERTIES SleepersWillBeAnswered
SYMMETRY TaskSymmetry
CHECK_DEADLOCK FALSE
