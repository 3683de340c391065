SPECIFICATION ListSpec
CONSTANTS
  Handlers = {p1, p2}
  Names <- MCNames
  Emails = {e1, e2}
  Punct = 0
  Perms = {a1, a2}
  SuperAdmin <- MCSuperAdmin
  AdminName <- Ann
  AdminEmail = e1
  DefaultRoles <- MCDefaultRoles
  Operations = {"createUser", "register", "updateUser", "updateProfile", "deleteUser", "createRole", "updateRole", "deleteRole", "seedRole", "seedAdmin"}
  MaxRows = 3
  MaxRequests = 2
  CanFail = TRUE
  Null = Null
  NaN = NaN
  Caller = 1
  NameOrder <- MCNameOrder
  Sizes = {1}
SYMMETRY Symmetry
INVARIANTS KeysUnique NoStrandedUsers AvatarServed LogDescribesRow WalkListsAll
PROPERTIES EditsKept
CHECK_DEADLOCK FALSE
