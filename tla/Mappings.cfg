SPECIFICATION Spec
CONSTANTS
  d1 = d1  d2 = d2  k1 = k1  k2 = k2  r1 = r1  r2 = r2  r3 = r3  j1 = j1  j2 = j2
  t1 = t1  t2 = t2
  None = None
  Domain = {d1, d2}
  Kid = {k1, k2}
  Request = {r1, r2}
  Assertion = {j1}
  MaxClaims = 3
  MaxSecrets = 3
  ClaimLife = 1
  AssertionLife = 1
  Margin = 1
  MaxTime = 3
  MaxEpoch = 1
  Tx = {t1, t2}
  Scopes <- Exchanges
PROPERTY MappingsGovern
SYMMETRY Ids
CHECK_DEADLOCK FALSE
