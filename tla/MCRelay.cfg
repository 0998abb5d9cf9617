SPECIFICATION FairSpec
CONSTANTS
  Desktops <- MCDesktops
  Phones <- MCPhones
  Cids <- MCCids
  MaxTime = 2
  QueueCap = 1
  PageLimit = 1
  MaxCaptures <- MCCaptures
  MaxFaults <- MCOneFault
INVARIANTS NoEcho ItemsAccounted TwiceOnlyAfterFault
PROPERTIES FeedSpec ImportedOrLate
CHECK_DEADLOCK FALSE
