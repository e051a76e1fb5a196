CONSTANTS
  MaxInputs = 3
  MaxEvents = 1
  ChanCap = 1
  MaxSessions = 2
  MaxCommands = 2
  Compactions = {k1}
  Fullscreen = FALSE
  Overlap = FALSE
  k1 = k1
  LastTurn = 3
  MaxItems <- MCMaxItems
  MaxChrome = 1
SPECIFICATION TuiSpec
CHECK_DEADLOCK FALSE
INVARIANTS SessionKeepsItsTurns ScreenIsTrue
PROPERTIES NoTurnVanishes CompactionIsFresh SubmittedOrder DispatchSparesTurn TurnEnds FollowUpsStart
