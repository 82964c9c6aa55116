SPECIFICATION MCSpec
CONSTANTS
  Unset = Unset
  Absent = Absent
  Garbage = Garbage
  p3 = p3
  p4 = p4
  p6 = p6
  s1 = s1
  s2 = s2
  r1 = r1
  r2 = r2
  u1 = u1
  u2 = u2
  t1 = t1
  t2 = t2
  PinLength <- MCPinLength
  PinCalls <- MCPinCalls
  Calls <- MCCalls
  CredTokens = {t1}
  MaxRetries = 4
  MaxEpoch = 2
  MaxSerial = 2
  MaxIds = 3
  WrongTotals = {0, 2, 5}
  CredExchanges = {5}
INVARIANT EnumerationTrue
PROPERTIES PinOutcomeTrue RefusalsExplained CredentialOutcomeTrue
