SPECIFICATION MCSpec
CONSTANTS
  k1 = k1
  k2 = k2
  right = right
  wrong = wrong
  Bad = Bad
  Absent = Absent
  Keys = {k1, k2}
  Pins = {right, wrong}
  MaxPin = 1
  PukLimit = 15
  Cards <- MCCards
  Requests <- MCRequests
INVARIANTS RotationRecoverable DoneIsTrue WritesAuthorized CredentialsGuarded
  PukAfterProof AttemptsSuffice
PROPERTY Terminates
