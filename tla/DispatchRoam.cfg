\* Two keys, two addresses, at most one session of a key in the table.
CONSTANTS
  Key = {k1, k2}
  Addr = {a1, a2}
  MaxSessions = 2
  MAX_PER_PEER = 1
  PER_CLIENT_CHAN = 1
  AuthConfigs <- AllListed
  MaxRoams = 2
  MayWait = FALSE
  MayStop = TRUE
SYMMETRY Symmetric
SPECIFICATION Spec
CHECK_DEADLOCK FALSE
INVARIANTS AddrAgrees RoamAuthentic CacheExact CapRespected
