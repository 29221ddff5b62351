CONSTANTS
  Absent = Absent
  Null = Null
  Other = Other
  List = List
  Truthy = Truthy
  Blank <- MCBlank
  MaxUint64 = 9
  OtherKey = "another key"
  Witness = "witness key"
  WitnessKeyID = "witness_v1"
  Issued <- MCIssued
  Values <- MCValues
  ClaimValues <- MCClaimValues
  Claims <- MCClaims
  Asks <- MCAsks
  Services <- MCServices
  Digests = {"d1", "d2"}
  MaxEdits = 2
  MaxChainValuesPointerBytes = 5
SPECIFICATION Spec
INVARIANTS
  TypeOK
  ClaimsAreSigned
  VerdictIsSigned
  TierIsSigned
  GenuineChainsVerify
  StoredBodiesAreAttested
  ChainIsStricter
  TierRulesAgree
CHECK_DEADLOCK FALSE
