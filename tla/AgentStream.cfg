SPECIFICATION FairStream
CONSTANTS
  bash = bash
  submitResult = submitResult
  Tool = {bash, submitResult}
  Hidden = {submitResult}
  SendReasoning = TRUE
  MaxEvents = 5
  MaxTurns = 2
INVARIANTS ClientUnderstands BodyIsWhole
PROPERTY EveryBodyEnds
CHECK_DEADLOCK FALSE
