SPECIFICATION LocksSpec
CONSTANTS
  t1 = t1
  t2 = t2
  t3 = t3
  NoThread = NoThread
  Free = Free
  Reserved = Reserved
  Dead = Dead
  Threads <- MCThreads
  Prio <- MCPrio
  Faults = {{"timeout"}, {"save"}}
  MaxLocks = 1
  MaxSaves = 1
SYMMETRY MCSymmetry
CHECK_DEADLOCK FALSE
INVARIANTS
  CondOwnership
  CondEnsuresHold
  CondNobodyStranded
  MutexSurvivesSave
  LwMutexOwnership
  LwMutexNobodyStranded
