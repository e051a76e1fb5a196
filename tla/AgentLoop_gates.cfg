CONSTANTS
  Calls = {list, logs, perf}
  HighRisk = {perf}
  OverLimit = {logs}
  Registries <- WithoutPerf
  MaxSteps = 3
  MaxBatch = 2
  Usages = {0, 1}
  MaxTokens = 1
  HasDeadline = TRUE
  MaxRuns = 1
  NoCall = NoCall
  list = list  logs = logs  perf = perf
  n1 = n1  n2 = n2
  narrow = narrow  wide = wide  broken = broken
  NoRules = NoRules
  NoName = NoName
  Unreadable = Unreadable
  Missing = Missing
  ProfileNames = {n1, n2}
  Rules = {narrow, wide, broken}
  Starter = wide
  ScopeTools = {1, 2}
  AllowOf <- MCAllowOf
  DenyOf <- MCDenyOf
  LinesOf <- MCLinesOf
  PatternsOf <- MCPatternsOf
  SkillTools <- MCSkillTools
  SafetyLines = 2
  Runs = {1, 2}
  MaxEdits = 1
  MaxCommandsRun = 1
  MaxTurnsRun = 2
CHECK_DEADLOCK FALSE
SPECIFICATION GatesSpec
 
PROPERTIES RunReturns ProfilesHonoured
