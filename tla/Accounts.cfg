CONSTANTS
  Requests = {r1, r2}
  MaxSessions = 2
  Resets = {p1}
  LockoutThreshold = 1
  Addresses = {a1, a2}
  NoReset = NoReset
  NoAddress = NoAddress
SPECIFICATION FairSpec
INVARIANT TypeOK
INVARIANT OldSessionsEnd
INVARIANT ResetServesOnce
INVARIANT LockoutBound
PROPERTY TokensEnd
PROPERTY TokensWane
