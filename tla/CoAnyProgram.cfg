SPECIFICATION Spec
CONSTANTS
  Coroutines = {a, b, c, d}
  Main = Main
  None = None
  Wrapped = {c, d}
  GoBodies = {b, d}
  Habits = {"wrapped_error", "yield_in_pcall", "resume_active"}
  MaxDepth = 4
PROPERTIES
  DeadNeverResumed
CHECK_DEADLOCK FALSE
