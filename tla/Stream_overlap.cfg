SPECIFICATION Spec
CONSTANTS
  Tasks = {t1, t2}
  Sessions = {s1, s2, s3}
  Remotes = {r1}
  Kinds = {"snapshot", "liveOn", "liveOff", "quality", "idle", "renew"}
  Faults = {"openFails"}
  None = None
SYMMETRY Symmetry
INVARIANTS
  TypeOK
  RegisteredWatchdogAlive
  WatchdogSingleFlight
