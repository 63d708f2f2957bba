CONSTANTS
  i1 = i1  b1 = b1  b2 = b2  b3 = b3  interactive = interactive  background = background
  Undefined = Undefined  Idle = Idle  DefaultName = DefaultName
  Workload <- MCWorkload
  WorkloadMax <- NoCeiling
  Priority <- MCPriority
  GivenDefault = background
  Asked <- MCAsked
  MaxWaitMs <- NoMaxWait
  MaxConcurrent = 1
  Reserved <- NoReserved
  Request = {i1, b1}
  LeaseTtl = 2
  QueueTtl = 3
  MaxQueued = Undefined
  TimeoutMs <- MCTimeoutMs
  MaxAge = 1
  MayAbort = {i1, b1}
  MayCrash = {i1}
  MayFail = {b1}
  MayRenew = {i1, b1}
SPECIFICATION Spec
INVARIANTS NothingLeftBehind LocalExpiryFirst
PROPERTIES LiveLeaseKept ImplementsSlotPool
CHECK_DEADLOCK FALSE
