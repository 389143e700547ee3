\* Two sessions of one server, two packets, all stacks.
CONSTANTS
  MAX_OFFER_ALTERNATIVES = 3
  Scenarios <- Scenes
  Sessions <- TwoSessions
  Templates <- Headers
  Lengths = {16, 22}
  ReadSizes = {7, 50}
  HEADER_LEN = 24
  PATH_MTU = 110
  OUTER_OVERHEAD = 28
  MaxSent = 2
SPECIFICATION FairSpec
CHECK_DEADLOCK FALSE
INVARIANTS RoundTrip PeekRight StreamInOrder
PROPERTIES StreamDelivers
