\* The poll as its comments state it.
SPECIFICATION Spec
CONSTANTS
  Commands = {c1}
  Polls = {p1}
  Colors <- MCColors
  Starts <- MCStarts
  UserPoints = {"privacy"}
  AppFields = {"privacy"}
  MaxLevel = 1
  MaxWrites = 1
  MaxChanges = 1
  MaxFaults = 0
  None = None
PROPERTIES
  PollMirrors
