SPECIFICATION Spec
CONSTANTS
  LNil = LNil
  Unset = Unset
  ArgTable = ArgTable
  Message = Message
  Values = {ArgTable, Message}
  InitialSize = 2
  GrowBy = 1
  MaxSize = 4
  MaxErrors = 1
  Functions <- SampleFunctions
INVARIANTS
  HoldsRegisters
  LimitMetExactly
