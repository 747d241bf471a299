SPECIFICATION MCSpec
INVARIANTS TypeOK OnlyUnknownNamesAreMinted OnlyRacesDuplicate CodesAreOwned CapOverrunIsBounded TargetsAreKept
PROPERTIES ClicksAreExact EveryCallEnds
CONSTANTS
  upper = upper
  lower = lower
  spring = spring
  full = full
  i1 = i1
  i2 = i2
  i3 = i3
  i4 = i4
  i5 = i5
  i6 = i6
  i7 = i7
  i8 = i8
  shop = shop
  blog = blog
  mailto = mailto
  ka = ka
  kb = kb
  kc = kc
  ip1 = ip1
  unknown = unknown
  long = long
  None = None
  Calls <- MCCalls
  Names <- MCNames
  Longest = {full}
  MaxCounter = 1
  Targets = {shop, blog, mailto}
  Absolute = {shop, blog}
  CodesOfLength <- MCCodes
  MinLength = 3
  MaxLength = 4
  Ips = {ip1, unknown, long}
  Oversize = {long}
  MaxClicks = 1
  Connections = 2
  MaxDay = 1
  MaxEdits = 2
  Words = {"word"}
  MaxTokens = 3
  MasterNames <- MCMasterNames
  NoName = NoName
CHECK_DEADLOCK FALSE
