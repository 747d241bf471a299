SPECIFICATION Spec
INVARIANTS TypeOK OneActiveGoal NoOrphans PodiumOnce MembersHaveGoals
SYMMETRY SameVerb
CONSTANTS
  anna = anna
  bela = bela
  line = line
  gold = gold
  silver = silver
  i1 = i1
  i2 = i2
  i3 = i3
  i4 = i4
  i5 = i5
  None = None
  Calls <- DailyOnly
  Users <- MCUsers
  IdOrder <- MCIdOrder
  RuleSets <- Leaving
  Lines <- MCLines
  Values <- MCValues
  Target = 1
  StartDate = 0
  EndDate = 1
  WindowEnd <- DailyWindow
  NextReport <- DailyReport
  Podium <- OnePlace
  RewardBadge = silver
  RewardFailure = TRUE
  MaxDay = 3
CHECK_DEADLOCK FALSE
