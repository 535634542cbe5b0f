SPECIFICATION Spec
CONSTANTS
  u1 = u1  u2 = u2  u3 = u3  t1 = t1  t2 = t2
  None = None
  User = {u1, u2, u3}
  Actor = {None, u1, u2, u3}
  Role = {"owner", "member"}
  Managers = {"owner"}
  DemotedRole = "member"
  MaxMembers = 3
  Tx = {t1, t2}
  Operations = {"add", "transfer"}
PROPERTIES
  TransferDemotes
SYMMETRY Ids
CHECK_DEADLOCK FALSE
