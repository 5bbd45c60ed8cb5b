SPECIFICATION Spec
CONSTANTS
  CAP = 4
  QUARANTINE_THRESHOLD = 3
  LastTimer = 2
  MaxEmits = 8
  WfSteps = 3
  WfShapes <- LoopShapes
  WfRetry = 1
  WfEvery = 2
  WfMaxCalls = 3
  LastPromise = 4
  DiItems = 5
  DiWorkers = 2
  DiBatch = 2
  PsTopics = {t1}
  PsLastSub = 3
  PsDepth = 2
  PsMaxPublish = 2
  BcLiterals = {1, 2}
  CbThreshold = 2
  CbMaxCalls = 6
  CbDepth = 3
  MaxRetry = 2
  JqLastJob = 3
  JqDepth = 2
  JqRetries = 1
  CaKeys = {k1, k2}
  CaWaiters = {w1, w2}
  CaLastWrite = 3
INVARIANTS LoopTypeOK SisKept WfNothingSkipped WfLossBounded WfRollback PrDelivered DiAnswer PsOrderly BcAgreesElse CbSound JqConserved CaTakenOnce
PROPERTIES DiEachOnce BcRewriteSafe
CHECK_DEADLOCK FALSE
