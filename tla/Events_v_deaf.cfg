\* The push socket closes after a good start.
SPECIFICATION Spec
CONSTANTS
  Handlers = {h1}
  MaxEvents = 1
  MaxFaults = 0
INVARIANT NeverDeaf
