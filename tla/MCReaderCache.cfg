SPECIFICATION Spec
CONSTANTS
  Frames = {f, g}
  Threads = {t1, t2}
  Handles = {h1, h2, h3, h4}
  CacheMax = 1
  MaxVersion = 1
  Null = Null
SYMMETRY ReaderSymmetry
INVARIANTS
  SlotsExact
  HandlesLive
  NothingLeaks
  HeaderFollowsReplacement
