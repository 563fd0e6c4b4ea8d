SPECIFICATION RequestsSpec
CONSTANTS
  MaxUtilisationPercent = 5
  NoDate = NoDate
  Engineers = {1}
  Managers = {m1}
  Projects = {p1}
  Requests = {r1}
  Scheduler = Scheduler
  NoRow = NoRow
  MaxAllocations = 3
  LastDay = 2
  Percents = {2, 3}
INVARIANTS
  TypeOK
  UtilisationCap
  DeactivatedHoldNone
PROPERTIES
  KeepsLedger
  EndedRowsAreFinal
CHECK_DEADLOCK FALSE
