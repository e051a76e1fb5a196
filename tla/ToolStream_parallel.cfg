CONSTANTS
  Dialects = {"openai", "compat"}
  Tools = {"list", "logs"}
  MaxCalls = 2
  MaxPieces = 2
CHECK_DEADLOCK FALSE
SPECIFICATION ToolStreamSpec
INVARIANTS CallsKeptApart
