SPECIFICATION Spec
CONSTANTS
  Half = 32
  Second = 2
  Start = {0, 3}
  Increases = {0, 1, 15, 16, 31, 32, 63}
  MaxHeight = 3
CHECK_DEADLOCK FALSE
PROPERTY
  IncreasesByTheGivenSeconds
