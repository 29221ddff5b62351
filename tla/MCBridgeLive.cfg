\* Liveness and refinement: one frame of each sort and a rejected line.
CONSTANTS
  NoId = NoId
  Requests = {r1}
  Notifications = {n1}
  BadLines = {b1}
SPECIFICATION FairSpec
PROPERTIES
  RequestsAreAnswered
  StopCompletes
  ImplementsForwarder
CHECK_DEADLOCK FALSE
