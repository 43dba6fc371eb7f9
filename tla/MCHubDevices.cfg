SPECIFICATION Spec
CONSTANTS
  Device = {d1, d2}
  Token = {t1, t2, t3}
  NoDevice = NoDevice
  NoToken = NoToken
  Legacy = Legacy
  LegacyEnabled = TRUE
  Kind = {"disk"}
  Slot = {r1}
SYMMETRY Symmetry
INVARIANTS
  StaleReportRefused
  CodeMatchesDevice
PROPERTIES
  DeadTokensStayDead
  ImplementsLifecycle
