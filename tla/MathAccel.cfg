SPECIFICATION AccelSpec
CONSTANTS
  Half = 2
  RingSize = 3
  CmdIds = {1, 2, 3}
  Requests <- MCOneRequest
  MayFault = TRUE
  MaySignal = TRUE
  MaxCalls = 4
  Tasks = {t1, t2}
  NoTask = NoTask
INVARIANTS AccelTypeOK BugOnNeverFires
SYMMETRY TaskSymmetry
CHECK_DEADLOCK FALSE
