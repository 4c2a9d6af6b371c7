CONSTANTS
  Users = {u1, u2, u3}
  NoUser = NoUser
  Spaces = {s1, s2}
  NoSpace = NoSpace
  Invites = {i1}
  Bootstrap = Bootstrap
  MaxUses = 1
  Requests = {r1, r2, r3}
SPECIFICATION Spec
CHECK_DEADLOCK FALSE
INVARIANT Inv
PROPERTY RolesByRight
INVARIANT SomeAdministrator
INVARIANT CanVerify
PROPERTY OneOwner
SYMMETRY Symmetric
