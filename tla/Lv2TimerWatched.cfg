SPECIFICATION Spec
CONSTANTS
  Threads = {t1}
  Timers = {m1, m2}
  Periods = {0, 1, 2}
  Asked = {0, 1, 2}
  MaxTime = 2
  MaxTicks = 3
CHECK_DEADLOCK FALSE
INVARIANTS
  RunningIsWatched
