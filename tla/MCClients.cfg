\* Chunks of 1 to 4 bytes against a cap of 3: bodies below, at and above it, in
\* one chunk or in several.  Three operations of two ticks each can outlast the
\* timeout of two ticks.
CONSTANTS
  Cap = 3
  ChunkSizes = {1, 2, 3, 4}
  Timeout = 2
SPECIFICATION FairSpec
INVARIANTS
  CapIsExact
  BlamesTheFirstAbort
  
  NoTimerOutlivesTheCall
PROPERTY CallEnds
CHECK_DEADLOCK FALSE
