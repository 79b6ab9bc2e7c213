CONSTANTS
  Roots = {r1,r2,r3}
  Children = {c1}
  NoSession = NoSession
  MaxSessions = 3
  Deletable = {}
  ShutdownAllowed = FALSE
SPECIFICATION Spec
INVARIANTS
  ChildTransitionsFirst
CHECK_DEADLOCK FALSE
