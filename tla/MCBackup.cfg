SPECIFICATION Spec
CONSTANTS
  Writer = {w1, w2}
  Keep = 2
  SourceStamp = 1
  ClockStepsBack = FALSE
  MaxTime = 5
  MaxFiles = 4
SYMMETRY Symmetry
INVARIANTS
  PublishedAreSound
  NewestKept
  RecordedFileExists
  SurplusTrimmed
PROPERTIES
  NeverReplaced
