\* A recorder that sends RTCP reports between its requests.
SPECIFICATION Spec
CONSTANTS
  Clients = {"plain"}
  Cameras = {"digest"}
  DataFrom = {"plain"}
  Window = 1
  MaxMessages = 3
  MaxFrames = 0
PROPERTY AuthorizedOnceChallenged
CHECK_DEADLOCK FALSE
