SPECIFICATION LoopSpec
CONSTANTS
  Names = {name}
  FarKeys = {0, 4}
  Values = {x, y}
  Nil = Nil
  MaxArrayIndex = 4
  ArrayBound = 3
INVARIANTS
  LengthIsBorderBelowLimit
  LoopComplete
PROPERTIES
  IsLuaTable
  OperationsMatch
  NeverTwice
  LoopEnds
CHECK_DEADLOCK FALSE
