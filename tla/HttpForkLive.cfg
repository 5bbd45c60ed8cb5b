SPECIFICATION FairSpec
CONSTANTS
  Pids = {c1, c2}
  Parent = parent
  WorkerLimit = 2
  MaxConn = 2
  MaxRequests = 2
  Backlog = 1
  MaySignal = TRUE
  MayDie <- Anywhere
PROPERTIES StopCompletes PlacesReturn
