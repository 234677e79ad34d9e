SPECIFICATION ControlSpec
CHECK_DEADLOCK FALSE
CONSTANTS
  Keys = {1, 2}
  Parts = 3
  RepeatDelay = 3
  RepeatRate = 1
  UpdateDelay = 1
  PollInterval = 2
  MaxClock = 8
  MaxId = 4
INVARIANTS
  TypeOK
  OneRepeat
  UpdateOnItsWay
PROPERTIES
  NeverEarly
  EveryTimerEnds
  EveryoneServed
