\* Two overlapping commands to the lights and one change by the app.
SPECIFICATION Spec
CONSTANTS
  Commands = {c1, c2}
  Polls = {p1}
  Colors <- MCColors
  Starts <- MCStarts
  UserPoints <- MCLights
  AppFields <- MCLightFields
  MaxLevel = 1
  MaxWrites = 2
  MaxChanges = 1
  MaxFaults = 0
  None = None
PROPERTIES
  PollMirrorsItsOwn
  OnlySeenFrontReturns
