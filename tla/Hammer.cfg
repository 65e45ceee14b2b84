SPECIFICATION HammerSpec
CONSTANTS
  Half = 2
  RingSize = 3
  CmdIds = {1, 2, 3, 4, 5}
  Requests <- MCRequests
  MayFault = FALSE
  Tasks = {0, 1, 2}
  NoTask = NoTask
  MaxThreads = 3
  DevNodes = 1
  Prealloc = 1
  Invocations <- MCInvocations
INVARIANTS WrapsToWord DivisionLaw NoCallCutOff VerdictsTrue
PROPERTIES HammerEnds
CHECK_DEADLOCK FALSE
