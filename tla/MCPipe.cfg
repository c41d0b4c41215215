CONSTANTS
  Procs = {p1, p2, p3}
  NSlots = 2
  NCpu = 1
SPECIFICATION Spec
CONSTRAINT TwoInCalls
SYMMETRY Symmetry
INVARIANT Paired
PROPERTIES ClosedUnlessForking OpenMeansOpen
CHECK_DEADLOCK FALSE
