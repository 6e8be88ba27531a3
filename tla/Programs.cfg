SPECIFICATION Spec
CONSTANTS
  Programs <- Sample
  CodeOf <- Compiled
  MeaningOf <- Meant
  maxRegisters = 200
  FieldsPerFlush = 3
  MaxTableGetLoop = 4
INVARIANTS
  RunsAsMeant
  OpenUpvaluesLive
PROPERTY Halts
CHECK_DEADLOCK FALSE
