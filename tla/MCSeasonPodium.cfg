SPECIFICATION Spec
INVARIANT PodiumOnce
CONSTANTS
  anna = anna
  bela = bela
  line = line
  gold = gold
  silver = silver
  i1 = i1
  i2 = i2
  i3 = i3
  i4 = i4
  i5 = i5
  None = None
  Calls <- TwoCloses
  Users <- MCUsers
  IdOrder <- MCIdOrder
  RuleSets <- Steady
  Lines <- MCLines
  Values <- MCValues
  Target = 1
  StartDate = 0
  EndDate = 0
  WindowEnd <- OnceWindow
  NextReport <- NoReport
  Podium <- OnePlace
  RewardBadge = None
  RewardFailure = TRUE
  MaxDay = 1
CHECK_DEADLOCK FALSE
