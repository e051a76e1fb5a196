CONSTANTS
  LastContext = 2
  Services <- MCServices
  KindOrder <- MCKindOrder
  HintLines = {"postgres", "unknown"}
  MaxHints = 2
CHECK_DEADLOCK FALSE
SPECIFICATION WizardSpec
INVARIANTS EndpointLeadsHome
