SPECIFICATION Spec
CONSTANTS
  t1 = t1
  t2 = t2
  c1 = c1
  c2 = c2
  Tasks <- MCTasks
  Cids <- MCCids
  MaxTime = 2
  MaxCaptures = 3
  MaxFaults = 2
SYMMETRY MCSymmetry
INVARIANTS LoggedAfterStored NothingLostWithoutFault IndexKnownInMemory
CHECK_DEADLOCK FALSE
