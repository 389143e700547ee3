\* All kinds of groups at once; each shape bounds its own packets.
CONSTANTS
  Shapes <- Groups
  GROUP_MOD = 8
  Lens = {1, 2}
  Samples = {0, 1000}
  Encode <- Parity
  DecodeSymbols <- Decode
  MaxK = 2
  MaxN = 5
SPECIFICATION Spec
CHECK_DEADLOCK FALSE
INVARIANTS SuppressHonest Genuine AnyKSuffice
PROPERTIES ImplementsService
