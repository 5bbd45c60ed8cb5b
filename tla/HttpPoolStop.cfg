SPECIFICATION FairSpec
CONSTANTS
  Pids = {w1, w2}
  Super = super
  NoPid = nopid
  PoolSize = 1
  MaxConn = 1
  MaxServed = 1
  MaxRequests = 0
  RateMax = 0
  Backlog = 1
  MaySignal = TRUE
  MayDie <- Nowhere
PROPERTIES StopCompletes
