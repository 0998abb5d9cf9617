SPECIFICATION FairSpec
CONSTANTS
  laptop = laptop
  desktop = desktop
  note = note
  c1 = c1
  c2 = c2
  Devices <- MCDevices
  Paths <- MCPaths
  Cids <- MCCids
  MaxTombs = 2
  Drained = 1
  MaxTime = 2
  MaxUser = 4
  MaxRestarts = 1
INVARIANTS IndexFollowsFiles DeletionsKept
PROPERTIES EchoesEnd
CHECK_DEADLOCK FALSE
