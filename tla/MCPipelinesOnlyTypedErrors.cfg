CONSTANTS
  Absent = Absent
  Null = Null
  Other = Other
  List = List
  Truthy = Truthy
  Blank <- MCBlank
  MaxUint64 = 9
  Key = "witness key"
  OtherKey = "another key"
  WitnessKey = "witness key"
  Issued <- MCIssued
  Values <- MCValues
  Options <- MCOptions
  MaxEdits = 2
SPECIFICATION Spec
INVARIANT OnlyTypedErrors
CHECK_DEADLOCK FALSE
