CONSTANTS
  MaxUpdates = 4
  BatchLimit = 2
  Depth = 1
  MaxRestarts = 1
  Sources = {1, 2, 3}
  Callers = {1, 2, 3, 4}
  RateLimit = 1
  RateWindow = 2
  MaxRateWindows = 2
  MaxSkew = 1
  EndOfTime = 4
CHECK_DEADLOCK FALSE
SPECIFICATION EdgeSpec
INVARIANTS PollerLosesNothing 
PROPERTIES PromptQueued
