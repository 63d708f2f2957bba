CONSTANTS
  i1 = i1  i2 = i2  b1 = b1  b2 = b2  b3 = b3  x = x
  interactive = interactive  background = background  unknown = unknown
  Undefined = Undefined  Idle = Idle  Sched = Sched  DefaultName = DefaultName
  Workload <- MCWorkload
  MaxConcurrent = 2
  WorkloadMax <- NoCeiling
  Reserved <- MCReserved
  Priority <- MCPriority
  GivenDefault = background
  Request = {i1, b1, b2, x}
  Asked <- MCAsked
  LeaseTtl = 2
  MaxQueued = Undefined
  TimeoutMs <- MCTimeoutMs
  MaxWaitMs <- NoMaxWait
  MaxStats = 0
SPECIFICATION FairSpec
INVARIANTS ReservedStartAtOnce NoLostWakeup
PROPERTIES EveryWaiterSettles
CHECK_DEADLOCK FALSE
