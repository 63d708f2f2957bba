CONSTANTS
  r1 = r1  r2 = r2  r3 = r3  None = None
  Run = {r1, r2, r3}
  Gated = {r2, r3}
  ToolsOf <- TwoToolSets
  MaxParked = 1
  Kinds <- MCKinds
  After <- LastOne
  MaxTurns = 1
SPECIFICATION FairSpec
INVARIANT HeldIffLive
INVARIANT OwnGate
PROPERTY EveryTeardownEnds
CHECK_DEADLOCK FALSE
