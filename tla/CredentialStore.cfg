SPECIFICATION FairSpec
CONSTANTS
  c1 = c1
  c2 = c2
  c3 = c3
  p1 = p1
  p2 = p2
  openai = openai
  anthropic = anthropic
  None = None
  Call <- Callers
  Proc = {p1, p2}
  ProcOf <- ProcOfCaller
  OpsOf <- OpsOfCaller
  Provider = {openai, anthropic}
  Keyed = {p1}
  CacheFallback = TRUE
  MaxGen = 2
  MaxFaults = 1
INVARIANT RotationKept
PROPERTY WritesOnlyItsOwn
PROPERTY EveryCallSettles
