SPECIFICATION FairSpec
CONSTANTS
  N = 2
  Width = 1
  MaxChunks = 1
  Capacity = 1
  NotFns <- AllFunctions
  MayHang = TRUE
  Leavers <- First
  ChldIgnored <- NotIgnored
  InTry = FALSE
PROPERTIES Returns
