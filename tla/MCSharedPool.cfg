SPECIFICATION Spec
CONSTANTS
  Contexts = {g, c1}
  GlobalCtx = g
  PoolIds = {p1, p2}
  Sizes = {1, 2}
  MaxDestroys = 1
  NoPool = NoPool
  NoCtx = NoCtx
SYMMETRY PoolSymmetry
INVARIANTS
  JobOutlivesItsUsers
  CompletedMeansAllRan
  PoolOutlivesItsUsers
  CountersExact
  NoSubmitToStalePool
