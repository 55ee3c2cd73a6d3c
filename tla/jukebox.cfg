\* Three clients on two descriptors, any command, clients that leave.
CONSTANTS
  MaxConns = 3
  MaxFds = 2
  MaxCommands = 1
  Commands <- All
  Chunks <- AllChunks
  Files <- Play
  Fatal <- OutOfRange
  MayLeave = TRUE
SPECIFICATION FairSpec
INVARIANTS TypeOK MapMatchesDescriptors EventsNotStale ResponsesConserved DiesForCause
PROPERTY CommandAnswered
CHECK_DEADLOCK FALSE
