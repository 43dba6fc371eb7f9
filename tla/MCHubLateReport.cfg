SPECIFICATION Spec
CONSTANTS
  Device = {d1}
  Token = {t1, t2}
  NoDevice = NoDevice
  NoToken = NoToken
  Legacy = Legacy
  LegacyEnabled = FALSE
  Kind = {"heartbeat"}
  Slot = {r1}
PROPERTIES
  LateReportDropped
