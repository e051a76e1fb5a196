CONSTANTS
  MaxInputs = 3
  MaxEvents = 1
  ChanCap = 1
  MaxSessions = 2
  MaxCommands = 1
  Compactions = {}
  Fullscreen = FALSE
  Overlap = TRUE
SPECIFICATION Spec
CHECK_DEADLOCK FALSE
INVARIANT SessionKeepsItsTurns
