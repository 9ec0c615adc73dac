SPECIFICATION Spec
CONSTANTS
  Levels = 3
  lift_one_level = 4
  Period = 7
  LoadPosition = 9
  MinHold = 3
  MaxHold = 4
  Rolling = 1
  Glitches = {"SENS_BOTTOM"}
  Clean = 2
  MaxTurns = 1
INVARIANTS
  StopsBeforeBuffers
  CounterFollowsCar
PROPERTIES
  ReversedAtRest
