\* Two requests and a notification: every pair of tasks interleaves with the
\* stop requests and with a frame that arrives after an abort.
CONSTANTS
  NoId = NoId
  Requests = {r1, r2}
  Notifications = {n1}
  BadLines = {}
SYMMETRY Symmetry
SPECIFICATION Spec
INVARIANTS
  AtMostOneAnswer
  DrainsBeforeClosing
  OnlyBestEffortFramesAreLate
CHECK_DEADLOCK FALSE
