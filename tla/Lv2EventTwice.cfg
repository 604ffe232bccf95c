SPECIFICATION Spec
CONSTANTS
  t1 = t1
  t2 = t2
  t3 = t3
  NoThread = NoThread
  Threads <- MCThreads
  Prio <- MCPrio
  Faults = {{"save"}}
  MaxSaves = 1
  MaxEvents = 2
  QueueSize = 1
SYMMETRY MCSymmetry
CHECK_DEADLOCK FALSE
INVARIANTS
  AtMostOnce
