SPECIFICATION FairSpec
CONSTANTS
  laptop = laptop
  desktop = desktop
  c1 = c1
  c2 = c2
  Devices <- MCDevices
  Cids <- MCCids
  Dials <- MCDials
  Stored <- MCStored
  MaxFiles = 1
  WireCap = 1
  MaxFaults = 1
INVARIANTS RecordedContentComing
PROPERTIES EveryContentArrives
CHECK_DEADLOCK FALSE
