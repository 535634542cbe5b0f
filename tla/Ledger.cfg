SPECIFICATION Spec
CONSTANTS
  r1 = r1  r2 = r2  t1 = t1  t2 = t2  p1 = p1  p2 = p2  o1 = o1  o2 = o2
  None = None
  Replica = {r1, r2}
  Team = {t1}
  Service = {1, 2}
  User = {1, 2}
  Usages <- OneTeam
  Unit = 2
  MaxSnapshots = 3
  Scopes <- Scenarios
  Payment = {p1, p2}
  Price <- Prices
  Object = {o1, o2}
  Charge <- Charges
  Principal <- Principals
SYMMETRY Replicas
INVARIANTS
  TypeOK
  CreditsAreAccounted
  TriggersAgree
PROPERTIES
  SettlementsAreCurrent
CHECK_DEADLOCK FALSE
