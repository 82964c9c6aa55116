SPECIFICATION MCSpec
CONSTANTS
  Handles = {h1}
  Null = Null
  None = None
  Kinds <- MCKinds
  Failures <- MCFailures
  MaxProfiles = 2
INVARIANTS InputsReadSafely MadeAsAsked ErrorTrue
PROPERTY PoisonSealed
CHECK_DEADLOCK FALSE
