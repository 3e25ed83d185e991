SPECIFICATION Spec
CONSTANTS
  Handles = {h1, h2}
  Chunks <- MCTwoChunks
  Names = {n1}
  Metas = {m1}
  NoMeta = NoMeta
  NoIndex = NoIndex
  NoCall = NoCall
  Calls = {"append", "insert", "update", "delete", "read", "refresh", "bracket", "open", "vlmeta_add", "vlmeta_delete", "vlmeta_bracketed", "meta_bracketed"}
  Faults = {"lock"}
  MaxChunks = 2
  MaxBytes = 2
  MaxSeq = 2
  MaxDepth = 1
SYMMETRY HandleSymmetry
INVARIANTS
  GenerationExact
  FrameIntact
  ReadsCurrent
  RefreshSyncs
PROPERTIES
  BracketAtomic
  IsSerial
