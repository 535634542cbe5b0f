SPECIFICATION LossySpec
CONSTANTS
  a1 = a1  a2 = a2  v1 = v1  v2 = v2  c1 = c1  c2 = c2  t1 = t1  t2 = t2
  x1 = x1  x2 = x2  w1 = w1  w2 = w2
  None = None
  Agreement = {a1, a2}
  Version = {v1, v2}
  Cont = {c1, c2}
  Title = {x1}
  Text = {w1, w2}
  Tx = {t1, t2}
  Lifetime = 1
  MaxTime = 1
  MaxAttempts = 1
  MaxEpoch = 1
  MaxCodes = 1
  MaxRevision = 3
  MaxFiles = 1
  Scopes <- DraftScenarios
INVARIANTS
  SourcesAreKept
SYMMETRY Ids
CHECK_DEADLOCK FALSE
