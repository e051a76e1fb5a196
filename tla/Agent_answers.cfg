CONSTANTS
  Calls = {list, logs, perf}
  HighRisk = {perf}
  OverLimit = {logs}
  Registries <- All
  MaxSteps = 2
  MaxBatch = 2
  Usages = {0}
  MaxTokens = 0
  HasDeadline = FALSE
  MaxRuns = 2
  NoCall = NoCall
  list = list  logs = logs  perf = perf
  Now = 2
  Limits = {2, 9}
  MaxListed = 2
  MaxTurns = 3
  MaxAsks = 2
  MaxReviews = 1
  MaxOverlays = 1
SPECIFICATION AgentSpec
CHECK_DEADLOCK FALSE
INVARIANTS  AnswerIsTrue ApprovalsReachHer
PROPERTIES HistoryKept
