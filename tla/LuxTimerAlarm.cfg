SPECIFICATION LuxSpec
CONSTANTS
  Subs = {s1, s2}
  Worker = Worker
  Nobody = Nobody
  MaxTime = 3
  Deltas = {1}
  MaxCalls = 4
PROPERTIES NothingLeftToDo
SYMMETRY SubSymmetry

CHECK_DEADLOCK FALSE
