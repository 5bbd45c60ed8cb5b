SPECIFICATION Spec
CONSTANTS
  N = 3
  Width = 2
  MaxChunks = 2
  Capacity = 1
  NotFns <- AllFunctions
  MayHang = TRUE
  Leavers <- First
  ChldIgnored <- NotIgnored
  InTry = TRUE
INVARIANTS TypeOK OwnResult BatchSettled
PROPERTIES AnsweredOnce
