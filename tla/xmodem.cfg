SPECIFICATION Spec
CONSTANTS
  Transfers <- TheTransfers
  BlockSize = 2
  MaxNaks = 5
  Noise = {0, 97}
  Capacity = 8
  MaxFaults = 1
INVARIANTS TypeOK
PROPERTIES  TransfersComplete
CHECK_DEADLOCK FALSE
