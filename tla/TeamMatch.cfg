SPECIFICATION MCSpec
CONSTANTS
  m1 = m1
  m2 = m2
  Null = Null
  Engineers = {1, 2, 3}
  Managers = {m1, m2}
  Manager = m1
  Profile <- MCProfile
  Replies <- MCReplies
  Explanations <- MCExplanations
  Rankings <- MCRankings
  RequestedHours = {0, 10, Null}
  Utilisations = {0, 80, 100}
  MaxWeeklyHours = 40
  MaxChanges = 1
CHECK_DEADLOCK FALSE
INVARIANTS
  TypeOK
  PickedOnce
  EverySeatListed
  GapsAreHonest
  MatchesHaveTime
PROPERTIES
  SuggestionsFit
  RequestAnswered
