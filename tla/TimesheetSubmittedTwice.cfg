SPECIFICATION Spec
CONSTANTS
  MaxUtilisationPercent = 1
  NoDate = NoDate
  p1 = p1
  p2 = p2
  Engineers = {1}
  Projects = {p1, p2}
  Grants <- MCGrants
  Requests = {r1, r2}
  Scheduler = Scheduler
  DaysPerWeek = 2
  LookbackWeeks = 2
  MaxWeeklyHours = 1
  Hours = {1}
  MaxAllocations = 2
  EndDays = {}
  MaxWeeks = 3
  LastDay = 3
INVARIANTS
  SubmittedOnce
