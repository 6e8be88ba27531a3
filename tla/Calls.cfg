SPECIFICATION Spec
CONSTANTS
  CallStackSize = 4
  Locals = 2
INVARIANTS
  OpenListed
  NoDangling
  SharedUntilError
  PanicOfPCall
  KeptForErrorFunc
  PCallsNested
CHECK_DEADLOCK FALSE
