SPECIFICATION Spec
CONSTANTS
  Users = {u1}
  Tokens = {t1, t2, t3}
  Null = Null
  Refreshers = {r1, r2}
  Logouts = {}
  AccountOps = {a1}
  Logins = {g1}
  AdminEdits = TRUE
  TTL = 9
  Grace = 1
  TxLimit = 1
  MaxPasses = 3
  MaxHops = 2
  MaxTime = 2
  MaxEpoch = 1
SYMMETRY Symmetry
INVARIANTS TypeOK OneLivePerFamily LostClaimIsNotReuse RevocationFinal
PROPERTIES OnlyTargetedLoginsEnd
CHECK_DEADLOCK FALSE
