SPECIFICATION PgpSpec
CONSTANTS
  None = None
  c1 = c1
  Calls <- MCCalls
  Cards <- MCCards
  Profiles <- MCProfiles
  Default <- MCDefault
  Blocks = {1, 2, 3, 4}
  MinAdmin = 2
  MaxTries = 2
  MaxOperations = 2
PROPERTIES PasswordsExplained OutcomeTrue
CHECK_DEADLOCK FALSE
