SPECIFICATION Spec
CONSTANTS
  x = x
  y = y
  Nothing = Nothing
  Arrays <- MCArrays
  Initially <- MCInitially
  Tokens = {t1, t2}
  CurrentToken = t1
  MinArray = 2
  MaxArray = 5
  DefaultFragment = 3
  ReadOverhead = 2
  WriteOverhead = 1
  ResponseLimits = {3, 9}
  InputLimits = {3, 9}
  ExchangeLimits = {4, 8}
  MessageBytes = 3
INVARIANT RefusalExplained
PROPERTIES ImplementsBlobStore Terminates
