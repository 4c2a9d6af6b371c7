CONSTANTS
  Users = {u1, u2}
  Messages = {m1}
  Requests = {r1, r2, r3}
  Readers = {g1}
  Extensions = {png, jpg}
  MaxAttachmentsPerMessage = 1
  OldAvatar = OldAvatar
  OldAttachment = OldAttachment
  NoFile = NoFile
SPECIFICATION Spec
CHECK_DEADLOCK FALSE
INVARIANT Inv
INVARIANT AvatarDecrypts
INVARIANT AvatarWhole
INVARIANT NoOrphans
SYMMETRY Symmetric
