\* One busy end with groups of two, oversized packets, pings, losses, a full window, both ways to end.
CONSTANTS
  a = a
  b = b
  End <- MCEnd
  PktsA = 3
  PktsB = 1
  MaxPkts <- MCMaxPkts
  NoPacket = NoPacket
  SEQ_MOD = 16
  WINDOW = 3
  ACK_BITS = 1
  MIN_CWND = 2
  INITIAL_CWND = 4
  INITIAL_SSTHRESH = 6
  MTU = 2
  Sizes = {1, 2, 3}
  MAX_PAYLOAD = 2
  K = 2
  MaxM = 1
  ACK_EVERY = 2
  LOSS_SAMPLE = 2
  Arms <- MCArms
  Readers = {a}
  Probes = {"Ping"}
SPECIFICATION FairSpec
CHECK_DEADLOCK FALSE
INVARIANTS InFlightExact AckSound CloseHonest
PROPERTIES SentResolved ParkedLeaves
