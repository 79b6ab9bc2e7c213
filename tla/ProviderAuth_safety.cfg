SPECIFICATION AuthSpec
CONSTANTS
  p1 = p1
  p2 = p2
  c1 = c1
  Procs = {p1, p2}
  Callers = {c1}
  Tasks <- OneUser
  User = user
  Refresher = refresher
  NoTask = NoTask
  MaxTokens = 2
  MaxFaults = 2
INVARIANTS
  AuthTypeOK
  SpentOnce
  StoredRedeemable
  NoResurrection
  LogoutFinal
PROPERTY
  CellForward
CHECK_DEADLOCK FALSE
