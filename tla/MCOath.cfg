SPECIFICATION Spec
CONSTANTS
  alice = alice
  bob = bob
  k1 = k1
  k2 = k2
  Absent = Absent
  Keys = {k1, k2}
  Names <- MCNames
  Times = {1, 2}
  MaxCounter = 2
  Firmwares = {130, 152, 200, 300, 310}
  ResponseLimits = {256}
  Cards <- MCCards
  Requests <- MCRequests
  OtherData <- MCOtherData
INVARIANTS AccessMatches IntentKept OutcomeTrue
