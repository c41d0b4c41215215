CONSTANTS
  Client = {c1, c2}
  Root = c1
  Fd = {0, 1}
  NoFd = NoFd
  File = {f, g}
  NoFile = NoFile
  Transfers = {"write"}
  Others = {"stat", "set_size"}
  MAXOPEN = 1
  MaxUse = 3
  MaxOffset = 1
SPECIFICATION FairSpec
INVARIANTS FdNamesFile NewFdIsFresh NobodyForgotten
PROPERTIES RefusedExactlyWhenStale RequestsEnd
CHECK_DEADLOCK FALSE
