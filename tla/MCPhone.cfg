SPECIFICATION Spec
CONSTANTS
  Runs <- MCRuns
  Ttl = 0
  MaxNow = 1
  Threads = {t1, t2}
  Hosts = {"h1", "h2"}
  Guesses <- MCGuesses
  EmbeddedRelay = TRUE
  RelayBox <- MCBox
  Shares <- MCShares
  Recent = 2
  Changed = 1
  MaxRows = 1
  KeptRows = 1
  MaxTroubles = 1
  MaxBegun = 3
  Attempts = {a1, a2}
  Tabs = {1, 2}
  Sites <- MCSites
  SessionLength = 1
  MaxEvents = 1
  MaxFills = 3
INVARIANTS SmsDelivered NewestCodeOffered FillsRight
SYMMETRY Symmetric
CHECK_DEADLOCK FALSE
