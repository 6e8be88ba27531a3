SPECIFICATION Spec
CONSTANTS
  Programs <- CloseSkipped
  CodeOf <- Compiled
  MeaningOf <- Meant
  maxRegisters = 200
  FieldsPerFlush = 3
  MaxTableGetLoop = 4
INVARIANT
  RunsAsMeant
CHECK_DEADLOCK FALSE
