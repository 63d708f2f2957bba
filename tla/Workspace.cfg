CONSTANTS
  r1 = r1  r2 = r2  pi = pi  skill = skill  doc = doc  out = out  journal = journal
  blank = blank
  w1 = w1  w2 = w2  e1 = e1  s1 = s1  l1 = l1  sid = sid
  None = None  Dir = Dir
  Run = {r1, r2}
  IdOf <- MCId
  Path = {pi, skill, doc, out, journal, blank}
  Above <- MCAbove
  ConfigDir = {pi}
  ContextFile = {}
  AgentState = {journal}
  Awkward = {}
  ListedAs <- MCListedAs
  Seed <- MCSeed
  Token <- MCToken
  Call = {w1, w2, e1, s1, l1}
  Does <- MCDoes
  MaxTurns = 1
  MaxCalls = 2
  AppPath = {skill}
  MaxApp = 1
  Beside = {r1}
  InitTree <- Trees
  InitMirror <- Mirrors
SPECIFICATION Spec
INVARIANT MirrorExact
INVARIANT ReportExact
INVARIANT SnapshotExact
CHECK_DEADLOCK FALSE
