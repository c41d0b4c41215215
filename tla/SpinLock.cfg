CONSTANTS
  CPUS = {c1, c2, c3}
  NoCpu = NoCpu
SPECIFICATION LockSpec
INVARIANTS LockInv ChecksNeverPanic
PROPERTY ImplementsMutex
