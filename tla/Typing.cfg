CONSTANTS
  Typists = {t1, t2}
  Expiry = 2
  MaxKeys = 3
SPECIFICATION TypingFairSpec
INVARIANT TypingInv
PROPERTY TypingEnds
CHECK_DEADLOCK FALSE
