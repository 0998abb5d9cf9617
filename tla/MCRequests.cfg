SPECIFICATION Spec
CONSTANTS
  Words = {"aeon"}
  RecordKinds <- MCRecordKinds
  Requests <- MCRequests
  Plans <- MCPlans
  Strings <- MCStrings
  DefaultLimit = 2
  MaxAnswers = 3
  DayLength = 2
  MaxRecords = 3
  MaxNow = 2
  MaxText = 10
  MaxProse = 3
  Pids = {1, 2}
  Programs <- MCPrograms
  ManifestVms <- MCVms
  RelayOn = FALSE
  MaxWindows = 1
  MaxStarts = 2
  MaxAsked = 1
  MaxFailures = 1
  Anchors <- MCAnchors
  Zones <- MCZones
  Times = {0, 43210, 86399}
  MaxWalk = 430
  MaxMailBytes = 4
  SecretBytes = {0, 1, 90, 255}
  MaxSecretBytes = 5
INVARIANTS QuestionsAnswered CapturesAsOffered ReadAsWritten
CHECK_DEADLOCK FALSE
