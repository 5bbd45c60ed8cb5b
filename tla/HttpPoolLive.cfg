SPECIFICATION BusySpec
CONSTANTS
  Pids = {w1, w2}
  Super = super
  NoPid = nopid
  PoolSize = 2
  MaxConn = 1
  MaxServed = 1
  MaxRequests = 0
  RateMax = 0
  Backlog = 1
  MaySignal = FALSE
  MayDie <- InHandler
PROPERTIES PlacesReturn
