\* Messages and files of up to two chunks and more, any partial send, any
\* EAGAIN, files that cannot be opened.
CONSTANTS
  Contents <- UpTo8
  CHUNK_SIZE = 3
  SizeMod = 64
  Junk = 0
  WireBound = 12
SPECIFICATION FairSpec
INVARIANTS TypeOK StopsAtLength NeverBackwards
PROPERTIES StreamSpec ResponseEnds
CHECK_DEADLOCK FALSE
