SPECIFICATION Spec
CONSTANTS
  Version = {v1, v2, v3}
  None = None
  Files = 4
SYMMETRY Symmetry
INVARIANTS
  OldPackageKept
  QuietIsWhole
  ReportsAreTrue
PROPERTIES
  MixtureNotStarted
  ImplementsUpdate
