CONSTANTS
  USTACK = 2
  GAP = 7
  XSTACK = 19
  User = {11, 12}
  Contents = {0, 1}
  MaxUse = 2
SPECIFICATION CareSpec
INVARIANT StacksKept
PROPERTY Resumes
CHECK_DEADLOCK FALSE
