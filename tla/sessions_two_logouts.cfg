SPECIFICATION Spec
CONSTANTS
  Users = {u1}
  Tokens = {t1, t2, t3}
  Null = Null
  Refreshers = {r1}
  Logouts = {l1, l2}
  AccountOps = {}
  Logins = {g1}
  AdminEdits = FALSE
  TTL = 9
  Grace = 9
  TxLimit = 1
  MaxPasses = 3
  MaxHops = 2
  MaxTime = 0
  MaxEpoch = 0
SYMMETRY Symmetry
INVARIANTS RevocationFinal
CHECK_DEADLOCK FALSE
