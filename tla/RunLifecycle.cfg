CONSTANTS
  r1 = r1  r2 = r2  r3 = r3  t1 = t1  t2 = t2  h = h  h2 = h2  None = None
  Run = {r1, r2, r3}
  Thread = {t1}
  ThreadOf <- OneThread
  Handle = {h}
  HandleOf <- SharedHandle
  Locked = {r1, r3}
  Schema = {r1, r2}
  After <- OneByOne
  Clones <- NoClones
  Sources = 2
  MaxRepairs = 1
  MaxParts = 1
  Raises <- MCRaises
SPECIFICATION FairSpec
INVARIANT OutcomeJustified
INVARIANT EffectsOnce
INVARIANT NothingLeaks
INVARIANT ThreadExact
PROPERTY EveryRunSettles
CHECK_DEADLOCK FALSE
