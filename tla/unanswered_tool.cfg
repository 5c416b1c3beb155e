SPECIFICATION SuiteSpec
CONSTANTS
  Parts = {"chat"}
  NoId = NoId
  NoBody = NoBody
  c1 = c1
  c2 = c2
  Ids = {1, 2}
  Works = {1, 2}
  Callers = {c1, c2}
  Roles = {fulltext}
  Bodies = {b1, b2}
  Bridges <- OneBridge
  Uploads = {1, 2}
  Reads = {1}
  Doomed = {1, 2}
  MaxCalls = 5
  MaxRace = 4
  MaxFailures = 1
  None = None
  NoFile = NoFile
  r1 = r1
  r2 = r2
  t1 = t1
  x = x
  y = y
  Real = {r1, r2, r3, r4, r5, r6, r7, r8}
  Temp = {t1}
  Slugs = {x, y}
  Clients = {c1, c2}
  Backings = {"fs", "r2"}
  Agents = {z}
  Sent <- MCSent
  MaxPuts = 2
  MaxAssigns = 1
  MaxCrashes = 1
  Peers = {p1, p2}
  Notes = {n1}
  Contents = {1, 2, 3}
  MaxChanges = 3
  MaxMishaps = 1
  Openers = {o1, o2}
  MaxOpens = 3
  Vertices = {1, 2, 3, 4}
  SeedSets = {{1}, {2, 3}}
  Depths = {2}
  Caps = {1, 2, 3}
  Backends = {"sql", "mem"}
  PageSize = 1
  MaxWrites = 1
  Marks = {m}
  MaxTurns = 2
  MaxRounds = 2
  MaxUses = 2
  MaxTroubles = 1
INVARIANT UsesAnswered
