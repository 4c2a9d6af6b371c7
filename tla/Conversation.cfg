CONSTANTS
  Users = {u1, u2}
  InstanceAdmins = {u1}
  Spaces = {s1, s2}
  Home = s1
  Requests = {r1, r2}
  MaxChannels = 4
  MaxListed = 2
  MaxMessages = 4
  MaxTime = 3
  PageSizes = {1, 2}
  Emoji = {e1, e2}
  Curated = {e1}
SPECIFICATION Spec
CHECK_DEADLOCK FALSE
INVARIANT Inv
INVARIANT ReorderApplied
INVARIANT PagesComplete
INVARIANT UnreadAfterMark
PROPERTY MovedByItsSpace
SYMMETRY Symmetric
