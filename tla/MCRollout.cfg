SPECIFICATION Spec
CONSTANTS
  Timer = {backup, maintenance}
SYMMETRY Symmetry
CHECK_DEADLOCK FALSE
INVARIANTS
  StatusIsTrue
  CompatiblePair
  TimersResumed
  TasksKeptOut
