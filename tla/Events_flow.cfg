\* Two overlapping handlers and a failing request.
SPECIFICATION FairSpec
CONSTANTS
  Handlers = {h1, h2}
  MaxEvents = 2
  MaxFaults = 1
INVARIANTS
  TypeOK
  ReportedOnce
  ActiveIsTimed
  StatusIsTrue
PROPERTIES
  PollingReports
  PushReports
