SPECIFICATION Spec
CONSTANTS
  Listener = l
  Announcers = {p1, p2}
  Cids = {c1, c2}
  MaxCalls = 3
  MaxHarm = 2
  Keys = {1, 2}
  Values = {1, 2}
  MaxUpdates = 4
  MaxFaults = 2
  Samples <- MCSamples
  MaxSamples = 4
  MaxFailures = 2
  Texts = {x, y, z}
  Kinds = {"text", "code"}
  Filters <- MCFilters
  Senders <- MCSenders
  Handlers = {p1, p2}
  Limits = {1, 2}
  MaxCaptures = 3
  MaxErrors = 2
  Requests = {p1, p2}
  Contents = {a, b}
  MaxRequests = 3
  MaxTroubles = 1
  Window = 4
  Delay = 1
  MaxTime = 9
  MaxShots = 2
  MaxWrites = 3
  MaxSlips = 1
INVARIANTS ExchangeEnds UpdatesKept SamplesRecorded EditsLeadBack ListsComplete
           HistoryKept FileCaptured WholeShotCaptured
SYMMETRY Symmetric
CHECK_DEADLOCK FALSE
