SPECIFICATION Spec
CONSTANTS
  Users = {u1}
  Roles = {r1}
  Null = Null
  Gates = {g1}
  Admins = {a1}
  Owners = {}
  CanFail = FALSE
  MaxRev = 3
  MaxVersion = 2
SYMMETRY Symmetry
INVARIANTS CachedUsersTracked
CHECK_DEADLOCK FALSE
