\* Three lives of the daemon, one fault.
CONSTANTS
  Settings <- Starts
  Rules = 2
  MaxStarts = 3
  MaxFaults = 1
SPECIFICATION Spec
CHECK_DEADLOCK FALSE
INVARIANTS FailClosed ChainsWhole OriginalKept NoLoop StopRestores
