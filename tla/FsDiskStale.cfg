CONSTANTS
  File = {f, g}
  NBLOCKS = 7
  NDIRECT = 1
  NINDIRECT = 1
  Data = {4}
  Read = Read
  NoOp = NoOp
SPECIFICATION NoCrashSpec
INVARIANT AllocatedIsClear
