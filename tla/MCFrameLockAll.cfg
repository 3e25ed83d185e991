SPECIFICATION Spec
CONSTANTS
  Handles = {h1, h2}
  Chunks <- MCSpecial
  Names = {n1}
  Metas = {m1}
  NoMeta = NoMeta
  NoIndex = NoIndex
  NoCall = NoCall
  Calls = {"append", "insert", "update", "delete", "read", "refresh", "open", "reorder", "fill_special", "vlmeta_add", "vlmeta_delete", "meta_update"}
  Faults = {"lock", "write", "reload"}
  MaxChunks = 1
  MaxBytes = 1
  MaxSeq = 2
  MaxDepth = 1
SYMMETRY HandleSymmetry
INVARIANTS
  LockDiscipline
