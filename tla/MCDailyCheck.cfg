SPECIFICATION MCSpec
INVARIANTS TypeOK CadenceHolds SweepIsComplete
PROPERTY EveryRunEnds
CONSTANTS
  w1 = w1
  w2 = w2
  w3 = w3
  Challenges = {1, 2}
  Runs = {w1, w2, w3}
  Start <- MCStart
  End <- MCEnd
  Frequency <- MCFrequency
  Null = Null
  Week = 2
  Firsts = {0, 2, 4}
  NewYears = {0, 4}
  MaxDay = 2
  MaxEdits = 1
CHECK_DEADLOCK FALSE
