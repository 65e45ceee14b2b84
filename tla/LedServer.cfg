SPECIFICATION ServerSpec
CONSTANTS
  MAX_CLIENT_CONNECTIONS = 2
  c1 = c1
  c2 = c2
  Latecomers <- MCLatecomers
  Clients = {c1, c2}
  Window = Window
  NoClient = NoClient
  LED_COLS = 2
  LED_ROWS = 1
  Sizes <- MCSizes
  Default <- MCDefault
  Positions <- MCPositions
  MaxCalls = 3
INVARIANTS ServerTypeOK BusyOwned ClicksHitWhatIsPainted
PROPERTIES GridShown CommandServed
CHECK_DEADLOCK FALSE
