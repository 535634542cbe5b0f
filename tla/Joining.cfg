SPECIFICATION Spec
CONSTANTS
  u1 = u1  u2 = u2  n1 = n1  n2 = n2  t1 = t1  t2 = t2  h = h
  None = None
  User = {u1, u2}
  Home = h
  Fresh = {n1, n2}
  MaxInvites = 3
  MaxRequests = 2
  Lifetime = 1
  MaxTime = 1
  LinkUses = 1
  MemberInvites = "admin_approval"
  AutoGrant = {u2}
  Tx = {t1, t2}
  Callers <- Scenarios
INVARIANTS
  OneOpenOffer
  InvitesExplainMembers
  MembershipsAreWhole
  LinkAdmitsFew
PROPERTIES
  DecisionsStand
SYMMETRY Ids
CHECK_DEADLOCK FALSE
