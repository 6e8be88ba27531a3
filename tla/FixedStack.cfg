SPECIFICATION Spec
CONSTANTS
  Fn = {f, g}
  CallStackSize = 4
  Stale = Stale
INVARIANTS
  FramesLinked
  OverflowIsLuaError
PROPERTIES
  OperationsMatch
