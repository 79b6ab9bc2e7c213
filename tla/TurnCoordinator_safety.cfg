SPECIFICATION FairSpec
CONSTANTS
  Requests = {r1, r2}
  Bursts = {b1}
  NoTurn = NoTurn
INVARIANTS
  SlotOwnership
PROPERTIES
  HistoryKept
  TurnsEnd
CHECK_DEADLOCK FALSE
