CONSTANTS
  i1 = i1  b1 = b1  b2 = b2  b3 = b3  interactive = interactive  background = background
  Undefined = Undefined  Idle = Idle  DefaultName = DefaultName
  Workload <- MCWorkload
  WorkloadMax <- NoCeiling
  Priority <- MCPriority
  GivenDefault = background
  Asked <- MCAsked
  MaxWaitMs <- NoMaxWait
  MaxConcurrent = 2
  Reserved <- MCReserved
  Request = {b1, b2, b3}
  LeaseTtl = 1
  QueueTtl = 1
  MaxQueued = 1
  TimeoutMs <- MCTimeoutMs
  MaxAge = 1
  MayAbort = {}
  MayCrash = {}
  MayFail = {}
  MayRenew = {}
SPECIFICATION Spec
INVARIANTS SlotsFit QueueBounded ArrivalOrder
SYMMETRY Symmetry
CHECK_DEADLOCK FALSE
