SPECIFICATION Spec
CONSTANTS
  Threads = {t1, t2}
  NoThread = NoThread
  Free = Free
  Reserved = Reserved
  Dead = Dead
  Prio <- MCPrio
  Faults = {{"save"}}
  MaxLocks = 1
  MaxSaves = 1
CHECK_DEADLOCK FALSE
INVARIANT ReservedHasTaker
