CONSTANTS
  Users = {1}
  Conns = {1, 2}
  Spaces = {s1}
  Publishers = {}
  UserOf <- ConnOwner
  BufferSize = 1
  Faults = {}
  NoConn = NoConn
  NoProc = NoProc
  NoSpace = NoSpace
SPECIFICATION FairSpec
CHECK_DEADLOCK FALSE
PROPERTY LoopServes
PROPERTY ClosedIsReaped
