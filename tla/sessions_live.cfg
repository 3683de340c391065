SPECIFICATION FairSpec
CONSTANTS
  Users = {u1}
  Tokens = {t1, t2}
  Null = Null
  Refreshers = {r1}
  Logouts = {l1}
  AccountOps = {}
  Logins = {g1}
  AdminEdits = FALSE
  TTL = 3
  Grace = 1
  TxLimit = 1
  MaxPasses = 2
  MaxHops = 2
  MaxTime = 4
  MaxEpoch = 0
INVARIANTS SuccessorKept
PROPERTIES RequestsEnd ImplementsLoginSessions
CHECK_DEADLOCK FALSE
