\* Two roots and one child: loads, closes, replacements and panics overlap with
\* a shutdown.  The process stops at its end, so this instance may deadlock.
CONSTANTS
  Roots = {r1, r2}
  Children = {c1}
  NoSession = NoSession
  MaxSessions = 2
  Deletable = {}
  ShutdownAllowed = TRUE
SPECIFICATION FairSpec
PROPERTIES
  TransitionsResolve
  ShutdownDrains
CHECK_DEADLOCK FALSE
