SPECIFICATION ObjectsSpec
CONSTANTS
  t1 = t1
  t2 = t2
  t3 = t3
  NoThread = NoThread
  Threads <- MCThreads
  Prio <- MCPrio
  Faults = {{"timeout"}, {"save"}}
  MaxSaves = 1
  MaxVal = 2
  MaxPost = 2
  Bits = {1, 2}
  Requests <- MCRequests
  Sets <- MCSets
  Keeps <- MCKeeps
  MaxEvents = 2
  QueueSize = 1
  Timers = {m1, m2}
  Periods = {0, 1}
  Asked = {0}
  MaxTime = 2
  MaxTicks = 2
CHECK_DEADLOCK FALSE
SYMMETRY MCSymmetry
INVARIANTS
  RedoSleeps
  SemaCountsExactly
  RwlockExclusion
  RwlockNobodyStranded
  FlagNobodyOverlooked
  QueueNothingLost
  ObjectWakeupsAreExact
  ObjectUsedExists
  TimerExpirations
PROPERTIES
  FlagSetIsAtomic
