SPECIFICATION LiveSpec
CONSTANTS
  Tasks = {t1}
  Sessions = {s1, s2, s3, s4}
  Remotes = {r1, r2}
  Kinds = {"snapshot", "liveOn", "liveOff", "quality", "idle", "renew", "restored"}
  Faults = {"openFails", "answerLost", "deleteLost", "breaker"}
  None = None
INVARIANTS
  NoOrphanProxy
  SessionHonoursQuality
  NoForgottenSession
  UrlNamesMappedProxy
  WatchedMeansStreaming
  LiveMeansNoIdleTimer
PROPERTIES
  EventuallyReleased
