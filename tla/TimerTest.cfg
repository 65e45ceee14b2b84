SPECIFICATION TestSpec
CONSTANTS
  Child = c
  Subs = {c}
  Worker = Worker
  Nobody = Nobody
  MaxTime = 2
  Deltas = {1}
  MaxCalls = 3
  Rounds = 2
INVARIANTS AlarmCovered
PROPERTIES AlarmKept AlarmRings TestEnds QuietInTheEnd
CHECK_DEADLOCK FALSE
