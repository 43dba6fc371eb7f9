SPECIFICATION Spec
CONSTANTS
  Code = {c1, c2, c3}
  NoCode = NoCode
  Client = {k1, k2}
  NoClient = NoClient
  MaxToken = 3
SYMMETRY Symmetry
INVARIANTS
  CredentialIsCurrent
  ServiceHasCredential
CHECK_DEADLOCK FALSE
