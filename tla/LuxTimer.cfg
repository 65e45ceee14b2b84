SPECIFICATION LuxSpec
CONSTANTS
  Subs = {s1, s2}
  Worker = Worker
  Nobody = Nobody
  MaxTime = 2
  Deltas = {1}
  MaxCalls = 3
INVARIANTS LuxTypeOK TreeSound
 
SYMMETRY SubSymmetry

CHECK_DEADLOCK FALSE
