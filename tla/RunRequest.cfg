SPECIFICATION FairSpec
CONSTANTS
  r1 = r1
  Request <- OneRequest
  Ttl = 2
  Reason = {"cancelled", "timeout"}
  Budget = {"none", "far"}
INVARIANT SlotAccounted
INVARIANT LocalExpiryFirst
INVARIANT ProviderCallCovered
INVARIANT SlotReturnedBeforeTools
PROPERTY FailureDeniesLater
PROPERTY LostLeaseStops
PROPERTY EveryRequestEnds
CHECK_DEADLOCK FALSE
