SPECIFICATION Spec
INVARIANT ReachedMeansMet
CONSTANTS
  metric = metric
  manual = manual
  i1 = i1
  i2 = i2
  i3 = i3
  i4 = i4
  i5 = i5
  Goals <- OnManual
  Calls <- ManualCalls
  Mode <- MCMode
  Condition <- MCCondition
  Target <- MCTarget
  End <- MCEnd
  Open = Open
  Values <- MCValues
  NoCall = NoCall
  MaxDay = 0
CHECK_DEADLOCK FALSE
