SPECIFICATION Spec
CONSTANTS
  r1 = r1  r2 = r2  r3 = r3  r4 = r4  c1 = c1  c2 = c2  t1 = t1  t2 = t2
  d1 = d1  d2 = d2  o1 = o1  o2 = o2  w1 = w1  w2 = w2  w3 = w3
  None = None
  RowId = {r1, r2, r3}
  CodeId = {c1, c2}
  Tx = {t1, t2}
  Domain = {d1}
  Org = {o1}
  OrgDomain <- OneOrgDomain
  Workspace = {w1}
  OrgOf <- OneOrgOf
  DefaultTeam <- OneDefault
  CrossProduct = {}
  MfaRequired = {}
  MfaProofs = {FALSE}
  SessionTtls = {2}
  MinTtl = 1
  CodeTtl = 1
  Grace = 1
  Retention = 0
  MaxDepth = 1
  Operations = {"issueCode", "exchange", "refresh", "logout", "reset", "setDomainStatus"}
  MaxTime = 3
  MaxEpoch = 2
CONSTRAINT FamiliesExplored
INVARIANTS
  TypeOK
  NoSessionOutlivesReset
  OneLiveTipPerFamily
  CondemnedForGood
  NoTokenOutlivesItsFamily
  RetriesFindTheTip
  CodeOpensOneSession
PROPERTIES
  NoIssueForDisabledDomain
  ImplementsFamilies
SYMMETRY Connections
CHECK_DEADLOCK FALSE
