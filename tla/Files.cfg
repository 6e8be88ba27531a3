SPECIFICATION Spec
CONSTANTS
  Handle = {h1, h2}
  Writer = {h1}
  Byte = {r, n, zero}
  Newline = n
  CarriageReturn = r
  Zero = zero
  ReadSize = 2
  WriteSize = 1
  MaxLength = 3
  Habits = {}
PROPERTIES IsTextFile ReadsTheText CloseReturns
CHECK_DEADLOCK FALSE
