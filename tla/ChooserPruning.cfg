SPECIFICATION Spec
CONSTANTS
  k1 = k1  k2 = k2  k3 = k3  j1 = j1  s1 = s1  s2 = s2
  t1 = t1  t2 = t2  p1 = p1  p2 = p2
  None = None
  TokenId = {}
  Jti = {j1}
  Secret = {}
  Tx = {t1, t2}
  Password = {p1}
  TokenTtl = 1
  CodeTtl = 1
  ChooserTtl = 1
  MaxAttempts = 2
  Operations = {"login", "chooser", "select", "prune"}
  MaxTime = 1
  MaxEpoch = 0
  MaxWrong = 0
INVARIANTS
  ChooserIsSingleUse
SYMMETRY Ids
CHECK_DEADLOCK FALSE
