SPECIFICATION Spec
CONSTANTS
  Threads = {main, other}
  Main = main
  IdCount = 2
  Gens = 2
  FastSlots = 1
  DeadSlots = 1
  MaxObjs = 2
INVARIANTS
  FastHitsNamed
