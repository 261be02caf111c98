SPECIFICATION Spec
CONSTANTS
  Bytes = {0, 1, 2, 3}
  Text = {2, 3}
  MaxLen = 3
CHECK_DEADLOCK FALSE
INVARIANTS
  HeardAsSaid
  ArgumentsOutliveCall
  NothingLeaks
