SPECIFICATION Spec
CONSTANTS
  Pids = {c1, c2, c3}
  Parent = parent
  WorkerLimit = 3
  MaxConn = 2
  MaxRequests = 0
  Backlog = 1
  MaySignal = TRUE
  MayDie <- Anywhere
SYMMETRY PidSymmetry
INVARIANTS TypeOK ConnLimit ActiveExact PeakExact ForkedIsServed Tracked GoneIsFlagged NoChildOutlives
