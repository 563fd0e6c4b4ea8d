SPECIFICATION SyncSpec
CONSTANTS
  MaxUtilisationPercent = 5
  NoDate = NoDate
  Engineers = {1}
  Managers = {m1}
  Projects = {p1}
  Requests = {r1}
  Scheduler = Scheduler
  NoRow = NoRow
  MaxAllocations = 1
  LastDay = 2
  Percents = {3}
PROPERTIES
  RequestsEnd
  StatusCatchesUp
