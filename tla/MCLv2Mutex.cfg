SPECIFICATION FairSpec
CONSTANTS
  t1 = t1
  t2 = t2
  t3 = t3
  NoThread = NoThread
  Threads <- MCThreads
  Prio <- MCPrio
  Faults = {{"timeout"}}
  MaxLocks = 1
  MaxSaves = 0
CHECK_DEADLOCK FALSE
INVARIANTS
  Ownership
  QueueHasOwner
  WakeupsAreExact
PROPERTIES
  ImplementsHandoff
  HandoffCompletes
