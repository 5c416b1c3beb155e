SPECIFICATION RaceSpec
CONSTANTS
  NoId = NoId
  x = x
  y = y
  z = z
  c1 = c1
  c2 = c2
  Ids = {1, 2, 3}
  Aliases = {x, y, z}
  Callers = {c1, c2}
  Bundles <- BridgeBundles
  Links <- NoInputs
  Wanted = {}
  Doomed = {}
  Sources = {s1}
  Stamps = {1}
  MaxCalls = 2
  MaxFailures = 0
PROPERTIES
  MergesArePermanent
