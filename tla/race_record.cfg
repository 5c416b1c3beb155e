SPECIFICATION Spec
CONSTANTS
  NoId = NoId
  NoBody = NoBody
  Ids = {1, 2}
  Works = {1, 2}
  Callers = {c1, c2}
  Roles = {fulltext}
  Bodies = {b1, b2}
  Bridges = {}
  Uploads = {1, 2}
  Reads = {}
  Doomed = {}
  MaxCalls = 3
  MaxFailures = 0
INVARIANTS
  OneCurrent
