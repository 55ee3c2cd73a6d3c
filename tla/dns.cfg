\* Host names of one to three labels; names before and after byte 256 of an answer.
CONSTANTS
  Hosts <- UpTo3Labels
  Prefixed <- OneLabel
  Paddings = {0, 260}
  Dot = 46
  HEADER = 12
  MAX_QUERY_SIZE = 32
SPECIFICATION FairSpec
INVARIANTS TypeOK QueryIsQuestion NameRead
PROPERTIES ResolveEnds
CHECK_DEADLOCK FALSE
