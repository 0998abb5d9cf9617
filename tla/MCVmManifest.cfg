SPECIFICATION Spec
CONSTANTS
  MaxId = 3
  MaxRuns = 2
  MaxEdits = 1
  MaxWraps = 2
  MaxPauses = 1
  MaxFaults = 1
INVARIANTS LostOnlyByRace RecordHasSnapshot
CHECK_DEADLOCK FALSE
