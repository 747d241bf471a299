SPECIFICATION FairSpec
INVARIANTS TypeOK RowReadsProjection NoDeltaLostInStartOrder
PROPERTY EveryAppendEnds
CONSTANTS
  u1 = u1
  u2 = u2
  Users <- MCUsers
  Txns = {t1, t2, t3}
  HashText <- MCHashText
  RowIds = {1, 2, 3}
  HalfRange = 4
  MaxClock = 1
  NoTxn = NoTxn
  Deltas <- MCDeltas
CHECK_DEADLOCK FALSE
