SPECIFICATION FairSpec
CONSTANTS
  t1 = t1
  t2 = t2
  t3 = t3
  Threads <- MCThreads
  MaxReaders = 2
  MaxClaims = 3
  Spins = 2
INVARIANTS
  Inv
  CountsMatch
  OneCarrier
  WakeupPending
PROPERTIES
  LockUnlockWaits
  ImplementsRWLock
  LockIsPassedOn
