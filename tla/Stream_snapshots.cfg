SPECIFICATION Spec
CONSTANTS
  Tasks = {t1, t2}
  Sessions = {s1, s2, s3, s4}
  Remotes = {r1, r2}
  Kinds = {"snapshot", "idle"}
  Faults = {"openFails", "answerLost", "bindFails", "deleteLost", "breaker"}
  None = None
SYMMETRY Symmetry
INVARIANTS
  OffMeansTimerPending
  NoOrphanWatchdog
