CONSTANTS
  NoId = NoId
  Requests = {r1}
  Notifications = {n1}
  BadLines = {}
SPECIFICATION Spec
INVARIANT NetworkFailuresAreAnswered
CHECK_DEADLOCK FALSE
