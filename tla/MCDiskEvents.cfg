SPECIFICATION Spec
CONSTANTS
  Root = {"/"}
  Content <- MCContent
  MaxTime = 4
  Skew = 1
  Retention = 1
  Batch = 1
  Threshold = 2
  Page = 1
  MaxId = 4
INVARIANTS
  AlertsAreReal
  OneAlertPerScan
  ShownIdsStable
  WalkIsExact
  ReferenceIsNearest
  SweepIsThorough
PROPERTIES
  AlertsImmutable
