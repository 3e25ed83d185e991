SPECIFICATION Spec
CONSTANTS
  MaxDim = 4
  Int32Max = 64
  Int64Max = 100
  NestedDims = 2
  OnDisk = TRUE
  Failed = Failed
  Contexts <- MCContexts
  Partitions <- MCPartitions
  Cuts = {0, 2, 3}
  Deltas <- MCDeltas
  Grow = 2
  MaxLen = 6
  Pads = {0, 1}
  Cautious = TRUE
INVARIANTS
  GridExact

  
CHECK_DEADLOCK FALSE
