SPECIFICATION LiveSpec
CONSTANTS
  MaxUtilisationPercent = 1
  NoDate = NoDate
  p1 = p1
  p2 = p2
  Engineers = {1}
  Projects = {p1}
  Grants <- MCGrants
  Requests = {r1}
  Scheduler = Scheduler
  DaysPerWeek = 2
  LookbackWeeks = 2
  MaxWeeklyHours = 1
  Hours = {1}
  MaxAllocations = 1
  EndDays = {1}
  MaxWeeks = 5
  LastDay = 5
PROPERTIES
  WeeksAccountedFor
