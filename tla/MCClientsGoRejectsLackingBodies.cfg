CONSTANTS
  Cap = 3
  ChunkSizes = {1, 2, 3, 4}
  Timeout = 2
SPECIFICATION Spec
INVARIANT GoRejectsLackingBodies
CHECK_DEADLOCK FALSE
