SPECIFICATION Spec
CONSTANTS
  Addresses = {1, 2, 3, 4, 5}
  Genesis = 3
  Bondable = {1, 3, 4}
  MaxHeight = 5
CHECK_DEADLOCK FALSE
INVARIANTS
  TypeOK
  EnvironmentSurvives
  SigningInfosComplete
PROPERTIES
  AddressProposes
