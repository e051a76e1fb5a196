CONSTANTS
  t1 = t1
  t2 = t2
  t3 = t3
  p1 = p1
  p2 = p2
  Readers = {t2}
  Writers = {t1, t3}
  Processes = {p1, p2}
  ProcessOf <- MCProcessOf
  Nobody = Nobody
  Cards = {c1, c2}
  MaxTicks = 2
  MaxRepeats = 1
  MaxCrashes = 1
  Shells = {s1, s2}
  LastKey = 2
  Pasted = {"new", "padded", "huge"}
  MaxAdds = 2
  MaxExits = 1
  Updaters = {u1, u2}
  LastRelease = 2
  LastBuild = 2
  MaxKills = 1
  MaxChats = 2
  MaxCommands <- MCMaxCommands
  MaxAnswers = 2
  MaxSaves = 2
  LastContext = 2
  Services <- MCServices
  KindOrder <- MCKindOrder
  HintLines = {"postgres", "unknown"}
  MaxHints = 2
CHECK_DEADLOCK FALSE
SYMMETRY SymFiles
SPECIFICATION FilesSpec
INVARIANTS CacheIsTrue BinarySafe DialoguesKept WizardAsTold
PROPERTIES DecisionsAndCardsStand  InstallsAreRight 
