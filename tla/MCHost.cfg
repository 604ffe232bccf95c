SPECIFICATION HostSpec
CONSTANTS
  Threads = {main}
  Main = main
  IdCount = 2
  Gens = 3
  FastSlots = 1
  DeadSlots = 1
  MaxObjs = 4
  Ppus = {p1, p2}
  FirstPpu = p1
  Host = host
  Prios = {1, 2}
  Workers = {w1, w2, w3, w4}
  Consumers = {w1, w2, w3}
  Permits = 2
  NoThread = NoThread
  WaiterMax = 2
  SignalMax = 2
  MaxData = 2
  Pushers = {w1, w2}
  MaxWork = 4
  Callers = {w1, w2}
  OnMain = w1
  MaxCalls = 4
  Games = {g1, x1}
  External = {x1}
  MaxRequests = 2
CHECK_DEADLOCK FALSE
INVARIANTS
  SuperpathSequential
  HostNoWakeupLost
  CallsSyncIsSync
  GamesListIsComplete
PROPERTIES
  HostRequestsAreServed
  SchedulerReturns
