SPECIFICATION Spec
CONSTANTS
  k1 = k1  k2 = k2  k3 = k3  j1 = j1  s1 = s1  s2 = s2
  t1 = t1  t2 = t2  p1 = p1  p2 = p2
  None = None
  TokenId = {k1, k2}
  Jti = {j1}
  Secret = {s1, s2}
  Tx = {t1, t2}
  Password = {p1, p2}
  TokenTtl = 1
  CodeTtl = 1
  ChooserTtl = 1
  MaxAttempts = 2
  Operations = {"VERIFY_EMAIL_SET_PASSWORD", "VERIFY_EMAIL", "PASSWORD_RESET", "LOGIN_LINK",
    "TWOFA_RESET", "LOGIN_CODE", "login", "social", "setup", "enroll", "verify", "disable",
    "adminReset", "chooser", "select", "prune"}
  MaxTime = 2
  MaxEpoch = 1
  MaxWrong = 1
CONSTRAINT CredentialsExplored
INVARIANTS
  TypeOK
  OneLinkWins
  LoginsProveCurrentCredentials
PROPERTIES
  ProofsCountOnce
SYMMETRY Ids
CHECK_DEADLOCK FALSE
