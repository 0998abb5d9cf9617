CONSTANTS
  Programs <- MCPrograms
  Reg = {0, 1, 2, 3}
  Word = 32
  ByteSize = 4
  NonText = {3}
  HeapLen = 5
  PageSize = 2
  HotThreshold = 1
  Edits <- MCEdits
  MaxSteps = 20
  MaxSaves = 2
  MaxPatches = 2
  Sources <- MCSources
  Numbers <- MCNumbers
  Cell = 4
  MaxCells = 6
SPECIFICATION MCSpec
INVARIANTS
  ResumedRunAgrees
  DeltaCompletesBase
  ReverseUndoes
  ForthAgrees
PROPERTY
  CompiledAgrees
CHECK_DEADLOCK FALSE
