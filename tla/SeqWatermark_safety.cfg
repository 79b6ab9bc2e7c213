\* Two forwarders, two restarts; an interval larger than the retention.
\* The last draw, restart and read are spent, so the instance may stop.
CONSTANTS
  Forwarders = {f1, f2}
  Interval = 2
  Retention = 1
  MaxDraws = 5
  MaxRestarts = 2
  MaxReads = 3
SPECIFICATION SeqSpec
SYMMETRY ForwarderSymmetry
INVARIANTS
  SeqTypeOK
  WatermarkIssued
PROPERTIES
  GrowsIfKept
CHECK_DEADLOCK FALSE
