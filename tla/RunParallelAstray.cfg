SPECIFICATION Spec
CONSTANTS
  N = 1
  Width = 1
  MaxChunks = 1
  Capacity = 1
  NotFns <- AllFunctions
  MayHang = FALSE
  Leavers <- Nobody
  ChldIgnored <- NotIgnored
  InTry = TRUE
INVARIANTS RunsOnlyItsJob
