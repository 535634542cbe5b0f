SPECIFICATION Spec
CONSTANTS
  r1 = r1  r2 = r2  r3 = r3  r4 = r4  c1 = c1  c2 = c2  t1 = t1  t2 = t2
  d1 = d1  d2 = d2  o1 = o1  o2 = o2  w1 = w1  w2 = w2  w3 = w3
  None = None
  RowId = {r1, r2}
  CodeId = {c1}
  Tx = {t1}
  Domain = {d1}
  Org = {o1}
  OrgDomain <- OneOrgDomain
  Workspace = {w1, w3}
  OrgOf <- TwoTeamsOrgOf
  DefaultTeam <- OneDefault
  CrossProduct = {}
  MfaRequired = {}
  MfaProofs = {FALSE}
  SessionTtls = {1}
  MinTtl = 1
  CodeTtl = 1
  Grace = 1
  Retention = 0
  MaxDepth = 1
  Operations = {"deactivate", "reactivate", "removeTeamMember", "deleteTeam"}
  MaxTime = 0
  MaxEpoch = 0
INVARIANTS
  EveryMemberHasTeam
SYMMETRY Ids
CHECK_DEADLOCK FALSE
