CONSTANTS
  Users = {1}
  Conns = {1, 2}
  Spaces = {s1}
  Publishers = {}
  UserOf <- ConnOwner
  BufferSize = 1
  Faults = {"stop", "kill", "restart", "db"}
  NoConn = NoConn
  NoProc = NoProc
  NoSpace = NoSpace
SPECIFICATION Spec
CHECK_DEADLOCK FALSE
INVARIANT Inv
INVARIANT OneLiveSession
INVARIANT NoDoubleClose
INVARIANT NoSilentGhost
PROPERTY Refines
