SPECIFICATION Spec
CONSTANTS
  Ids = {1, 2, 3}
  NoId = NoId
  Aliases = {a}
  Kinds = {"work"}
  Sources = {1}
  Relations = {1}
  Stamps = {1, 2}
  Roles = {1}
  Started = {2, 3}
  MaxCalls = 4
  Engines = {"d1"}
INVARIANTS MergesSucceed
