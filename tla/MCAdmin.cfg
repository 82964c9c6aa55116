CONSTANTS
  Layouts = {"TouchPolicies", "Reserved", "Features"}
  KnownBits = {"pass", "piv"}
  UnknownBits = {"future"}
  Pins = {"pin", "wrong"}
  DefaultPin = "pin"
  MaxRetries = 2
  MaxExchanges = 5
  Cards <- MCCards
  Requests <- MCRequests
SPECIFICATION Spec
INVARIANTS
  ProgressTold PatchInOrder Authorized
