SPECIFICATION Spec
CONSTANTS
  Pids = {c1, c2}
  Parent = parent
  WorkerLimit = 2
  MaxConn = 1
  MaxRequests = 0
  Backlog = 1
  MaySignal = FALSE
  MayDie <- InHandler
SYMMETRY PidSymmetry
PROPERTIES RefusalMeansFull
