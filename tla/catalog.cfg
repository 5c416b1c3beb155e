SPECIFICATION MCSpec
CONSTANTS
  NoId = NoId
  x = x
  y = y
  z = z
  c1 = c1
  c2 = c2
  Ids = {1, 2, 3, 4}
  Aliases = {x, y, z}
  Callers = {c1, c2}
  Bundles <- AllBundles
  Links <- OneLink
  Wanted = {x}
  Doomed = {y}
  Sources = {s1}
  Stamps = {1, 2}
  MaxCalls = 4
  MaxFailures = 1
INVARIANTS
  TypeOK
  RedirectsDecrease
  ForeignKeysHold
  NoFalseMerge
  SerialBundlesConverge
  AckedAliasesBound
PROPERTIES
  RedirectsStay
  SoloPutHeals
  MergeKeepsNewest
