SPECIFICATION Spec
CONSTANTS
  t1 = t1
  t2 = t2
  t3 = t3
  Threads <- MCThreads
  Main = t1
  Host = host
  HwThreads = 2
  Prios = {1, 2}
SYMMETRY MCSymmetry
INVARIANTS
  RunQueueOK
  PendingIsExact
  OnlyOnProcProceed
  WorkConserving
  SleepsAndTimeouts
  AwakenedIsScheduled
