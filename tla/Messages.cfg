CONSTANTS
  Texts = {t1, t2}
  NoText = NoText
  Requests = {r1, r2}
  MaxMessages = 3
  MaxReplies = 2
SPECIFICATION Spec
INVARIANT Inv
INVARIANT ReplyCount
INVARIANT HistoryComplete
INVARIANT ViewMatches
PROPERTY DeletedIsFinal
SYMMETRY Symmetric
