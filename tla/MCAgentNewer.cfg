SPECIFICATION Spec
CONSTANTS
  laptop = laptop
  desktop = desktop
  note = note
  c1 = c1
  c2 = c2
  Devices <- MCDevices
  Paths <- MCPaths
  Cids <- MCCids
  MaxTombs = 2
  Drained = 1
  MaxTime = 2
  MaxUser = 3
  MaxRestarts = 1
PROPERTIES NewerContentWins
CHECK_DEADLOCK FALSE
