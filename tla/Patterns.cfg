SPECIFICATION MatchSpec
CONSTANTS
  Compiled <- Compilation
  MeaningOf <- Meant
  Calls <- AllCalls
  Members <- AllMembers
  Lower <- AllLower
  Code <- AllCode
INVARIANTS MatchesAsMeant MachineInside
PROPERTY CallsEnd
CHECK_DEADLOCK FALSE
