SPECIFICATION LedSpec
CONSTANTS
  LED_NR = 2
  Colors = {0, 1}
  GridColor = 1
  Writers = {t1, t2}
  Callers = {g1}
  Capacity = 2
  Clock = TRUE
  MaxCalls = 3
INVARIANTS LedTypeOK GridFollows
PROPERTIES EventsReachTheHandler
CHECK_DEADLOCK FALSE
