CONSTANTS
  Env = {e1, e2}
  NoEnv = NoEnv
  Root = e1
  Page = {1, 2, 3}
  Stack = {3}
  Shared = {2}
  Frame = {f1, f2, f3, f4, f5}
  NoFrame = NoFrame
  Value = {0, 1}
  Zero = 0
SPECIFICATION Spec
INVARIANTS TlbCoherent CanFault
PROPERTIES ImplementsForkMemory
CHECK_DEADLOCK FALSE
VIEW Canonical
