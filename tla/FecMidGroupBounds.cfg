\* Parity grows in the middle of a group.
CONSTANTS
  Shapes <- Growing
  GROUP_MOD = 8
  Lens = {2}
  Samples = {1000}
  Encode <- Parity
  DecodeSymbols <- Decode
  MaxK = 2
  MaxN = 5
SPECIFICATION Spec
CHECK_DEADLOCK FALSE
INVARIANT InBounds
