SPECIFICATION MCSpec
CONSTANTS
  Parts = {"sql", "d1", "sync", "derive", "pages", "harvest"}
  Ids = {1, 2, 3}
  NoId = NoId
  Aliases = {a}
  Kinds = {"work"}
  Sources = {1}
  Relations = {1}
  Stamps = {1, 2}
  Roles = {1}
  Started = {1, 2, 3}
  MaxCalls = 3
  Engines = {"sqlite", "d1"}
  Works = {1, 2, 3}
  c1 = c1
  c2 = c2
  Clients = {c1, c2}
  MaxRequests = 4
  Guids = {1, 2, 3}
  Names = {1, 2}
  Times = {1}
  NodePage = 1
  RowPage = 1
  EdgeBatch = 2
  MaxWrites = 3
  MaxErrors = 1
  MaxPages = 4
  Papers = {1, 2, 3, 4}
  PageSize = 1
  MaxTries = 2
  MaxTroubles = 2
INVARIANTS
  TypesOK
  ReadsAgree
  BatchesSucceed
  D1TablesWhole
  SyncComplete
  CommandsHold
  HarvestHolds
PROPERTIES
  ImplementsMemStore
  D1RedirectsStay
  SyncOnlyAdds
