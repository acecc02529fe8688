CONSTANTS
  b1 = b1
  b2 = b2
  view = view
  error = error
  Byte = {b1, b2}
  Report = {view, error}
  NoReport = nothing
  Reaction <- MCReaction
  MaxPush = 6
SPECIFICATION MCSpec
INVARIANTS
  HandOffInv
  ConsumedInOrder
  NoReportLost
PROPERTIES
  EveryPushReturns
  PushIsSynchronous
