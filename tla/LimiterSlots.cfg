CONSTANTS
  i1 = i1  i2 = i2  b1 = b1  b2 = b2  b3 = b3  x = x
  interactive = interactive  background = background  unknown = unknown
  Undefined = Undefined  Idle = Idle  Sched = Sched  DefaultName = DefaultName
  Workload <- MCWorkload
  MaxConcurrent = 2
  WorkloadMax <- CeilingMax
  Reserved <- MCReserved
  Priority <- MCPriority
  GivenDefault = background
  Request = {i1, i2, b1, b2, b3}
  Asked <- MCAsked
  LeaseTtl = 1
  MaxQueued = 1
  TimeoutMs <- NoTimeout
  MaxWaitMs <- MCMaxWaitMs
  MaxStats = 1
SPECIFICATION Spec
SYMMETRY Symmetry
INVARIANTS SlotsFit QueueBounded ArrivalOrder
PROPERTIES LiveLeaseKept ImplementsSlotPool
CHECK_DEADLOCK FALSE
