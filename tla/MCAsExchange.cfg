SPECIFICATION Spec
CONSTANTS
  Configs <- MCConfigs
  MaxTime = 1
  MaxKey = 2
  MaxTgt = 2
  MaxHandle = 2
  MaxChange = 2
INVARIANTS Protected NotRefused
PROPERTY Ends
