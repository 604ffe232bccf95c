SPECIFICATION Spec
CONSTANTS
  t1 = t1
  t2 = t2
  t3 = t3
  t4 = t4
  t5 = t5
  NoThread = NoThread
  Threads <- MCThreads
  Prio <- MCPrio
  Faults = {{}}
  MaxSaves = 0
  Bits = {1, 2, 3}
  Requests <- MCRequests
  Sets <- MCSets
  Keeps <- MCKeeps
CHECK_DEADLOCK FALSE
PROPERTY SetIsAtomic
