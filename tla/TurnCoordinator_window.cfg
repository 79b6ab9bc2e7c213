SPECIFICATION Spec
CONSTANTS
  Requests = {r1, r2}
  Bursts = {}
  NoTurn = NoTurn
INVARIANTS
  WindowTurnCancelled
CHECK_DEADLOCK FALSE
