\* Files of up to three buffers and more, sends that take all they are given and
\* sends that take a part.
CONSTANTS
  Files <- UpTo10
  BufferSize = 3
  WireBound = 12
SPECIFICATION FairSpec
INVARIANT DamageStaysInBuffer
PROPERTIES StreamSpec Terminates
CHECK_DEADLOCK FALSE
