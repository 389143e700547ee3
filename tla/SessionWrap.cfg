\* Sequence numbers wrap after 9: the peer seals up to 12 packets.
CONSTANTS
  SEQ_MOD = 9
  WINDOW = 3
  ACK_BITS = 3
  MaxSent = 12
  Control = {1, 2, 3, 5, 6, 7, 10, 11}
SPECIFICATION Spec
CHECK_DEADLOCK FALSE
INVARIANTS TypeOK ControlOnce AckExact FreshNotRefused
