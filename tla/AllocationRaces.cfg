SPECIFICATION RequestsSpec
CONSTANTS
  MaxUtilisationPercent = 5
  NoDate = NoDate
  Engineers = {1}
  Managers = {m1}
  Projects = {p1}
  Requests = {r1, r2}
  Scheduler = Scheduler
  NoRow = NoRow
  MaxAllocations = 3
  LastDay = 1
  Percents = {2}
SYMMETRY RequestSymmetry
INVARIANTS
  OverbookedOnlyBlindly
  NoDeadlock
PROPERTIES
  AllocationsOnlyClose
CHECK_DEADLOCK FALSE
