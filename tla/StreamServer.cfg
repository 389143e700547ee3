SPECIFICATION FairSpec
CONSTANTS
  Addr = {"a1", "a2", "a3"}
  Ip = {"t1", "t2", "lan"}
  TunNet = {"t1", "t2"}
  PER_CLIENT_CHAN = 1
  TUN_WRITE_CHAN = 1
  HANDSHAKE_PROBE_BURST = 2
  HANDSHAKE_PROBE_INTERVAL = 2
  HANDSHAKE_TOKEN_TTL = 4
  HANDSHAKE_PROBE_GLOBAL_CAP = 2
  MaxSessions = 2
  Scenes <- Streams
PROPERTY ConnectionServed
CHECK_DEADLOCK FALSE
