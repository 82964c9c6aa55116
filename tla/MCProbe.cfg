SPECIFICATION Spec
CONSTANTS
  None = None
  s1 = s1
  Devices <- MCDevices
  Configs <- MCConfigs
INVARIANTS AuthorizedIsTrue ExtensionsTrue
