SPECIFICATION Spec
CONSTANTS
  Half = 32
  Second = 2
  Start = {0, 3}
  Increases = {0, 1, 4, 7, 15}
  MaxHeight = 5
CHECK_DEADLOCK FALSE
INVARIANTS
  TypeOK
  ClockIsElapsed
  TimestampSurvivesWrap
PROPERTIES
  TimeNeverRunsBack
