\* Log: three messages, the third replaces a file; a rotation needs a new second.
\* Verbosity: one logger of two sites, three changes of a setting.
\* Auth: two managers, three routes, two uploads.
CONSTANTS
  Callers = {g1, g2}
  Flags <- MCFlags
  MaxMessages = 3
  MaxClock = 1
  MaxSize = 4
  Sites = {s1, s2}
  Loggers = {l1}
  Setters = {t1}
  MaxLevel = 1
  MaxSets = 3
  Managers = {m1, m2}
  Routes <- MCRoutes
  Excludes = {"docs"}
  Params = {"p", "q"}
  AdminData = {"q"}
  Tokens <- MCTokens
  TTL = 1
  MaxUploads = 2

SPECIFICATION SupportSpec
INVARIANTS
  
  
  
  RoleServed
CHECK_DEADLOCK FALSE
SYMMETRY Symmetry
