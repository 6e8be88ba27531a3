SPECIFICATION Spec
CONSTANTS
  Coroutines = {a, b, c}
  Main = Main
  None = None
  Wrapped = {c}
  GoBodies = {}
  Habits = {}
  MaxDepth = 4
INVARIANTS
  CurrentIsRunning
  EndedRefusedAsDead
  StatusIsTrue
  ParentIsResumer
PROPERTIES
  EndedNeverRuns
  ErrorStopsAtResume
