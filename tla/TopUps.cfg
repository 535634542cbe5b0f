SPECIFICATION FairSpec
CONSTANTS
  r1 = r1  r2 = r2
  None = None
  Replica = {r1, r2}
  MaxAttempts = 2
  MaxIntents = 2
  MaxCheckouts = 2
  MaxGen = 3
  MaxMonth = 2
  MaxTime = 1
  MonthlyCap <- Caps
  Scopes <- Scenarios
INVARIANTS
  TypeOK
  OneChargeOneCredit
PROPERTIES
  ConsentGoverns
  ChargesAreCredited
CHECK_DEADLOCK FALSE
