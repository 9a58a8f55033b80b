CONSTANTS
  Configs <- MCConfigs
  Texts <- MCTexts
  MaxHops = 3
  MaxSteps = 10
SPECIFICATION Spec
INVARIANTS RightTicket
PROPERTY Ends
CHECK_DEADLOCK FALSE
