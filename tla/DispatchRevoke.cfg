\* A key that is listed, removed and revoked while its clients connect; any arm may wait.
CONSTANTS
  Key = {k1}
  Addr = {a1}
  MaxSessions = 2
  MAX_PER_PEER = 0
  PER_CLIENT_CHAN = 1
  AuthConfigs <- Restricted
  MaxRoams = 1
  MayWait = TRUE
  MayStop = FALSE
SPECIFICATION FairSpec
CHECK_DEADLOCK FALSE
INVARIANT RevokedLeave
PROPERTY RevokedGone
