CONSTANTS
  Users = {u1, u2, u3}
  Watched = u1
  Channels = {c1, c2}
  Requests = {r1, r2}
  Capacity = 1
  NoChannel = NoChannel
  NoUser = NoUser
SPECIFICATION Spec
INVARIANT Inv
INVARIANT ViewMatches
INVARIANT ShownOnce
SYMMETRY Symmetric
