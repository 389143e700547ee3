\* A server without a peers section.
CONSTANTS
  Key = {k1}
  Addr = {a1}
  MaxSessions = 2
  MAX_PER_PEER = 0
  PER_CLIENT_CHAN = 1
  AuthConfigs <- OpenMode
  MaxRoams = 1
  MayWait = FALSE
  MayStop = FALSE
SPECIFICATION Spec
CHECK_DEADLOCK FALSE
PROPERTY RevokedRejected
