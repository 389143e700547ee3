\* Three connections of two attempts each, ends of several builds.
CONSTANTS
  MAX_OFFER_ALTERNATIVES = 3
  Scenarios <- Scenes
  HANDSHAKE_MAX_ATTEMPTS = 2
  RECONNECT_INITIAL_BACKOFF = 2
  RECONNECT_MAX_BACKOFF = 3
  MaxCarriers = 3
  MaxAnswers = 2
  MaxStops = 2
SPECIFICATION FairSpec
CHECK_DEADLOCK FALSE
INVARIANTS EndsAgree ServerOrderDecides BackoffLaw
PROPERTIES StopHonoured Connects
