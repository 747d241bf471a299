SPECIFICATION MCSpec
INVARIANTS TypeOK UnmetUntilReached ReachIsKept
PROPERTIES FollowsTheMachine EveryCallEnds
CONSTANTS
  metric = metric
  manual = manual
  i1 = i1
  i2 = i2
  i3 = i3
  i4 = i4
  i5 = i5
  Goals <- MCGoals
  Calls <- MCCalls
  Mode <- MCMode
  Condition <- MCCondition
  Target <- MCTarget
  End <- MCEnd
  Open = Open
  Values <- MCValues
  NoCall = NoCall
  MaxDay = 1
CHECK_DEADLOCK FALSE
