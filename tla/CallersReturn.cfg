SPECIFICATION CallersSpec
CONSTANTS
  Workers = {w1, w2}
  Server = super
  NoPid = nopid
  N = 3
  Width = 2
  MaxChunks = 1
  Capacity = 1
  NotFns <- FirstIsNot
  MayHang = TRUE
  Leavers <- Nobody
  ChldIgnored <- EitherWay
  InTry = TRUE
PROPERTIES PoolStops ParallelReturns
