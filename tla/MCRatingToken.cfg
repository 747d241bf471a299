SPECIFICATION MCSpec
INVARIANTS TypeOK OneLiveRequest
PROPERTIES LinksAreOneTime EveryCallEnds
CONSTANTS
  ann = ann
  i1 = i1
  i2 = i2
  i3 = i3
  i4 = i4
  i5 = i5
  i6 = i6
  i7 = i7
  Calls <- AllVerbs
  None = None
  NoValue = NoValue
  MaxClock = 1
  MaxBegun = 4
CHECK_DEADLOCK FALSE
