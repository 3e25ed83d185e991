SPECIFICATION FairSpec
CONSTANTS
  Contexts = {g, c1}
  GlobalCtx = g
  PoolIds = {p1, p2}
  Sizes = {2}
  MaxDestroys = 1
  NoPool = NoPool
  NoCtx = NoCtx
PROPERTIES
  JobsReturn
  TeardownEnds
