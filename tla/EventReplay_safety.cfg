\* One forwarder, a ring of two, one restart.  The last draw, restart and read are
\* spent, so the instance may stop.
CONSTANTS
  Forwarders = {f1}
  Interval = 2
  Retention = 2
  MaxDraws = 5
  MaxRestarts = 1
  MaxReads = 2
SPECIFICATION ReplaySpec
INVARIANTS
  RingOK
  ReplayGapFree
PROPERTIES
  CursorGrows
CHECK_DEADLOCK FALSE
