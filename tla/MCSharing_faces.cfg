SPECIFICATION ShareSpec
CONSTANTS
  Footage <- MCFootage
  Given <- MCGiven
  Passes = 2
  Rounds = 2
  MaxTasks = 4
PROPERTY DroppedForItsFace
CHECK_DEADLOCK FALSE
