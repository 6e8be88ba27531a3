SPECIFICATION SpecPopped
CONSTANTS
  Fn = {f, g}
  CallStackSize = 7
  FramesPerSegment = 3
  Stale = Stale
  Nil = Nil
INVARIANTS
  SegmentsAllocated
  FramesLinked
PROPERTIES
  IsCallFrameStack
  OperationsMatch
CHECK_DEADLOCK FALSE
