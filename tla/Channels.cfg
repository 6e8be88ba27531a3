SPECIFICATION Spec
CONSTANTS
  script = script
  peer = peer
  State = {script, peer}
  unbuffered = unbuffered
  buffered = buffered
  value = value
  function = function
  Chan = {unbuffered, buffered}
  Capacity <- Sizes
  Value = {value, function}
  Unsafe = {function}
  Tables <- Selects
  MaxCalls <- Calls
  MaxContexts <- Contexts
  MaxPCalls <- PCalls
INVARIANTS CancelNotClosed AnswerIsOfCase
PROPERTY CancelEnds
CHECK_DEADLOCK FALSE
