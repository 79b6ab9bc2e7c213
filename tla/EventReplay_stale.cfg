\* A clean close and a resume in one process: the final event is numbered after
\* the anchor was read.
CONSTANTS
  Forwarders = {f1}
  Interval = 2
  Retention = 2
  MaxDraws = 3
  MaxRestarts = 0
  MaxReads = 1
SPECIFICATION ReplaySpec
INVARIANTS
  StaleCursorRejected
CHECK_DEADLOCK FALSE
