\* A client that leaves after its song.
CONSTANTS
  MaxConns = 1
  MaxFds = 2
  MaxCommands = 1
  Commands <- Play
  Chunks <- PlayChunks
  Files <- Play
  Fatal <- None
  MayLeave = TRUE
SPECIFICATION FairSpec
PROPERTY HangupNoticed
CHECK_DEADLOCK FALSE
