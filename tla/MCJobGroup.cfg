SPECIFICATION FairSpec
CONSTANTS
  NThreads = 3
  NBlocks = 4
  Threads = 2
  BlockSize = 2
  Leftover = 1
  Overhead = 1
  DestSize = 6
  CSizes = {0, 1, 2}
  Kinds = {"compress", "train", "memcpy", "decompress"}
  Masks <- MCMasks
  NoMask = NoMask
  Deltas = {TRUE, FALSE}
  Backends = {"shared_pool", "callback"}
  Faults = TRUE
  Spurious = {TRUE, FALSE}
INVARIANTS
  OutputTiled
  BlockWorkedOnce
  SuccessIsComplete
  NoWorkerAfterReturn
  ReferenceDecodedFirst
PROPERTIES
  ReturnsUnlessReferenceLost
CHECK_DEADLOCK FALSE
