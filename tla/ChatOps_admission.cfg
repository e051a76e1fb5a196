CONSTANTS
  Handlers = {h1, h2, h3}
  Events = {e1, e2}
  Keyless = {}
  Rejected = {}
  Convs = {c1}
  Sources = {s1}
  Workers = {w1}
  QueueDepth = 1
  SeenTTL = 1
  MaxSeen = 1
  StoreFaults = FALSE
  MaxTime = 2
  MaxRestarts = 1
  SourceOf <- OneSource
  ConvOf <- OneConv
  RateLimit = 0
  RateWindow = 1
  MaxRateWindows = 1
  None = None
  e1 = e1  e2 = e2  e3 = e3
  s1 = s1  s2 = s2
  c1 = c1  c2 = c2
SPECIFICATION Spec
SYMMETRY SymHandlers
INVARIANTS TypeOK AtMostOnce KeysAccounted
