SPECIFICATION Spec
CONSTANTS
  Writer = {w1}
  Keep = 1
  SourceStamp = 0
  ClockStepsBack = TRUE
  MaxTime = 3
  MaxFiles = 3
INVARIANTS
  OlderGoFirst
