SPECIFICATION MCSpec
INVARIANTS TypeOK CapHolds LadderHolds KeyedOnce CertTypeOK LineageIsTheBadges
PROPERTIES ExactlyOnce EveryGrantEnds FirstCertificationWins
CONSTANTS
  b1 = b1
  b2 = b2
  b3 = b3
  u1 = u1
  u2 = u2
  u3 = u3
  k1 = k1
  k2 = k2
  i1 = i1
  i2 = i2
  i3 = i3
  i4 = i4
  n1 = n1
  n2 = n2
  sa = sa
  sb = sb
  MaxUnderway = 2
  Badges = {b1, b2, b3}
  Users = {u1, u2, u3}
  Keys = {k1, k2}
  PeerCalls <- MCPeerCalls
  SystemCalls <- MCSystemCalls
  Policies <- MCPolicies
  Uncapped = Uncapped
  NoNumber = NoNumber
  Deleted = Deleted
  None = None
  MaxMonth = 1
  MaxEdits = 2
  Names = {n1, n2}
  NameOf <- MCNameOf
  Surveys = {sa, sb}
  Facts <- MCFacts
CHECK_DEADLOCK FALSE
