SPECIFICATION Spec
CONSTANTS
  Addresses = {1, 2, 3}
  Genesis = 2
  Bondable = {1, 2, 3}
  MaxHeight = 3
CHECK_DEADLOCK FALSE
INVARIANTS
  FirstValidatorSigns
