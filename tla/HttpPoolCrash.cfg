SPECIFICATION Spec
CONSTANTS
  Pids = {w1, w2, w3}
  Super = super
  NoPid = nopid
  PoolSize = 2
  MaxConn = 1
  MaxServed = 2
  MaxRequests = 0
  RateMax = 1
  Backlog = 1
  MaySignal = TRUE
  MayDie <- WholeUpdates
SYMMETRY PidSymmetry
INVARIANTS TypeOK LockMutex SlotExclusive NoWorkerOutlives RateBound ActiveExact RefusalMeansFull
PROPERTIES LockHandover LimiterSpec
