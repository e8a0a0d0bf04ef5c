\* One user command of any kind, one change by the app, one failing request.
SPECIFICATION FairSpec
CONSTANTS
  Commands = {c1}
  Polls = {p1}
  Colors <- MCColors
  Starts <- MCDimmed
  UserPoints <- Points
  AppFields <- Fields
  MaxLevel = 2
  MaxWrites = 1
  MaxChanges = 1
  MaxFaults = 1
  None = None
INVARIANT TypeOK
PROPERTIES
  SoloCommandAgrees
  OtherLightUntouched
  FailureIsVisible
  CommandsEnd
  MirrorSettles
