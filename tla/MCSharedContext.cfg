SPECIFICATION ContextSpec
CONSTANTS
  Replicas <- MCConsoles
  SessionOf <- MCOwnSession
  Slots <- MCSlots
  BaseOf <- MCSameBase
  MaxEdits = 3
  MaxRestarts = 1
INVARIANTS Convergence
PROPERTIES LogSpec
CONSTRAINT MCThirdEdit
CHECK_DEADLOCK FALSE
