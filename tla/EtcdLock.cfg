SPECIFICATION FairLockSpec
CONSTANTS
  p1 = p1
  p2 = p2
  p3 = p3
  Procs <- ThreeProcs
  Patient <- OnePatient
  MaxTries = 2
  MaxLeases = 3
INVARIANTS LiveOwnerHasKey ExclusiveWhileLive
PROPERTIES LockIsFreed ImplementsLock
CHECK_DEADLOCK FALSE
