SPECIFICATION RequestsSpec
CONSTANTS
  Ids = {s1, s2}
  NoId = NoId
  Conns = {c1, c2}
  Requests = {r1, r2}
  Turns = {t1}
  NoTurn = NoTurn
  AllFull = AllFull
  MaxSessionsPerConn = 1
  MaxConnsPerSession = 2
  Levels = {"read", "full"}
  CallbackIds = {s1, s2}
INVARIANTS
  RoutingTypeOK
  NoStrandedWaiter
  AnswerReachesWaiter
  RecipientsEntitled
  NothingOutlives
  IdleCloseUnattached
  AttachmentLimits
SYMMETRY RoutingSymmetry
CHECK_DEADLOCK FALSE
