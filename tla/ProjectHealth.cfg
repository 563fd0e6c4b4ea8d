SPECIFICATION MCSpec
CONSTANTS
  ProjectIds = {1, 2}
  Managers = {m1, m2}
  m1 = m1
  m2 = m2
  Admins = {"a1"}
  Viewer = m1
  Rows <- MCRows
  Submissions <- MCSubmissions
  Projects <- MCProjects
  Updates <- MCUpdates
  Milestones <- MCMilestones
  MilestoneUpdates <- MCMilestoneUpdates
  NameLength <- MCNameLength
  LastDay = 14
  MaxChanges = 2
  MaxWeeklyHours = 40
  Null = Null
INVARIANTS
  TypeOK
  HealthAgreesWithSnapshot
  FlagsNotOlderThanStatus
  QuietHealthIsRight
  RoundingIsLenient
PROPERTIES
  LateNoticed
CHECK_DEADLOCK FALSE
