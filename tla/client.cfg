\* One client types any commands that need up to two connections.
CONSTANTS
  MaxConns = 2
  MaxFds = 2
  MaxCommands = 1
  Commands <- Typed
  Chunks <- TypedChunks
  Files <- PlayTyped
  Fatal <- None
  MayLeave = TRUE
  Plays <- PlayTyped
  Broken <- NoSong
  BadInfo = "info x"
SPECIFICATION FairSystemSpec
INVARIANTS OneSongAtATime SocketsClosed
PROPERTIES StopTakesEffect PromptReturns
CHECK_DEADLOCK FALSE
