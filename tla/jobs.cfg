SPECIFICATION MCSpec
CONSTANTS
  Targets = {t1, t2, t3}
  Handled = {t1, t2}
  MaxAttempts = 3
  Factor = 2
  Cap = 3
  BatchSize = 2
  MaxJobs = 3
  MaxLosses = 1
  FirstDays = {0, 10592, 19358, 47117}
  Stretch = 1100
  Documents = {d1, d2}
  Pages = {g1}
  Capacity = 2
  MaxEvents = 2
  Roles = {"fulltext", "artifacts"}
  MaxWorks = 2
INVARIANTS
  TypesOK
  RowsAreTrue
  CopiesAgree
PROPERTIES
  ClaimsAreDue
  EveryJobSettles
  ChangesAreShown
