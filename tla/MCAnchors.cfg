CONSTANTS
  RekorKey = "log key"
  WitnessKey = "witness key"
  AuditKey = "audit key"
  OtherKey = "other key"
  Log <- MCLog
  Offset = 1
  Conversations = {"v", "w"}
  Requests <- MCRequests
  MaxRows = 6
  MaxCounted = 2
  MaxRoots = 2
  Certificates <- MCCertificates
  Queried <- MCQueried
  Garbled <- MCGarbled
  Tokens <- MCTokens
  Issued <- MCIssued
  Certified <- MCCertified
  TSARoots <- MCRoots
  Now = 6
  ClockSkew = 1
SPECIFICATION Spec
INVARIANTS
  CertificatesAreLogged
  AuditLogIsWhatItSays
  TokensAreStamped
  GenuineAnchorsVerify
  ExportsPass
CHECK_DEADLOCK FALSE
