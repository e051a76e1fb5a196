CONSTANTS
  Callers = {r1, r2}
  ChainLen = 2
  Threshold = 2
  Window = 1
  OutCap = 1
  MaxData = 2
  EndOfTime = 1
  Dialects = {"openai", "compat", "anthropic", "google"}
  Tools = {"list", "logs"}
  MaxCalls = 3
  MaxPieces = 2
  Rebuilds = {b1}
  Endpoints = {1, 2, 3}
  Names = {"main", "cache"}
  NameOf <- MCNameOf
  Way <- MCWay
  Nobody = Nobody
CHECK_DEADLOCK FALSE
SPECIFICATION BackendsSpec
INVARIANTS BreakersHonest CallsWhole TunnelsAccounted
PROPERTIES BlameIsDue RequestEnds BuildsSettle
