SPECIFICATION Spec
CONSTANTS
  Device = {d1}
  Token = {t1, t2}
  NoDevice = NoDevice
  NoToken = NoToken
  Legacy = Legacy
  LegacyEnabled = TRUE
  Kind = {"heartbeat", "disk"}
  Slot = {r1, r2}
INVARIANTS
  TombstoneErasesHistory
PROPERTIES
  RevocationTakesEffect
