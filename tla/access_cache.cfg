SPECIFICATION Spec
CONSTANTS
  Users = {u1}
  Roles = {r1}
  Null = Null
  Gates = {g1}
  Admins = {a1}
  Owners = {o1, o2}
  CanFail = TRUE
  MaxRev = 3
  MaxVersion = 2
SYMMETRY Symmetry
INVARIANTS TypeOK EnforcedAtOnce UpdateReturnsNew
CHECK_DEADLOCK FALSE
