CONSTANTS
  CPUS = {c1, c2}
  BSP = c1
  NoCpu = NoCpu
  NENV = 3
  NGEN = 2
  NINIT = 1
  NoEnv = NoEnv
SPECIFICATION FairLibSpec
INVARIANTS TypeOK FreeListSound LibInv NoneLeftToRun
PROPERTIES LifeCycle NoStarvation
CHECK_DEADLOCK FALSE
