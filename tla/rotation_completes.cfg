SPECIFICATION GoodDaySpec
CONSTANTS
  NoKey = NoKey
  Torn = Torn
  MaxKeys = 2
PROPERTY RotationCompletes
CHECK_DEADLOCK FALSE
