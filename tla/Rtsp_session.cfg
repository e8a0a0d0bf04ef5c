\* Both kinds of clients, every kind of camera, pipelined requests.
SPECIFICATION FairSpec
CONSTANTS
  Clients = {"plain", "own"}
  Cameras = {"digest", "refuses", "basic", "open"}
  DataFrom = {"own"}
  Window = 3
  MaxMessages = 4
  MaxFrames = 2
INVARIANT TypeOK
PROPERTIES
  ImplementsSession
  NothingHeldBack
  AuthorizedOnceChallenged
CHECK_DEADLOCK FALSE
