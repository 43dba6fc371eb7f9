SPECIFICATION InstallSpec
CONSTANTS
  Release = {v1, v2}
  Component = {agent, enroll}
  Broken = Broken
  Nothing = Nothing
  Attempts = 3
CHECK_DEADLOCK FALSE
INVARIANTS
  StagedIsVerified
  DescribedIsWhole
  PartialNeverBlocks
PROPERTIES
  FetchEnds
