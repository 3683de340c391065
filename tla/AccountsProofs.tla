----------------------------- MODULE AccountsProofs -----------------------------
(***************************************************************************)
(* Proofs about Accounts, for any number of handlers, rows, names,         *)
(* addresses, permissions and requests, with or without failures; and      *)
(* about the lists of Listings, for any page sizes and order of names.     *)
(***************************************************************************)
EXTENDS Listings, FiniteSetTheorems, FunctionTheorems, SequenceTheorems, TLAPS

(***************************************************************************)
(* Types.                                                                  *)
(***************************************************************************)
Optionally(S) == S \cup {Null}
Slugs == {Candidate(name, tries) : name \in Names, tries \in Nat} \cup {SuperAdmin, Null}
Titles == Names \cup {SuperAdmin, Null}

Row == [name : Titles, email : Optionally(Emails), slug : Slugs, role : Optionally(Ids),
        avatar : Optionally(Nat), access : SUBSET Perms, deleted : BOOLEAN]

Data == [name : Titles, email : Optionally(Emails), role : Optionally(Ids),
         avatar : Optionally(Nat), access : Optionally(SUBSET Perms)]

UserOps == {"createUser", "register", "updateUser", "updateProfile", "deleteUser", "seedAdmin"}
RoleOps == {"createRole", "updateRole", "deleteRole", "seedRole"}
Labels == {"idle", "email", "role", "slug", "avatar", "count", "grant", "write", "audit",
           "commit"}

Request == [pc : Labels, op : UserOps \cup RoleOps \cup {"none"}, table : Tables,
            id : Optionally(Ids), old : Row, data : Data, tries : Nat, slug : Slugs,
            new : Row, cut : Optionally(Nat), aborted : BOOLEAN, missing : SUBSET Perms,
            during : SUBSET (Tables \X Ids)]

Types ==
  /\ tbl \in [Tables -> [Ids -> Row]]
  /\ log = [t \in Tables |-> [i \in Ids |-> log[t][i]]]
  /\ uploads \in Nat /\ files \in SUBSET Nat
  /\ req \in [Handlers -> Request]

(***************************************************************************)
(* What is known of a request, and that transactions do not share a row.   *)
(***************************************************************************)
InTx(r) == r.pc \in {"audit", "commit"}

\* What the transaction of r makes of its row.
Written(r) ==
  LET row == tbl[r.table][r.id] IN
  IF Deletes(r) THEN [row EXCEPT !.deleted = TRUE] ELSE Merged(row, r)

Planned(r) ==
  /\ r.pc = "idle" <=> r.op = "none"
  /\ r.pc = "idle" => r = Idle
  /\ r.table = "role" <=> r.op \in RoleOps
  /\ r.pc = "grant" => r.op = "seedRole" /\ r.id \in Ids
  /\ r.pc = "email" => r.op \in {"createUser", "register", "updateUser", "seedAdmin"}
  /\ r.pc = "role" => r.op \in {"register", "seedAdmin"}
  /\ r.pc = "slug" => r.op # "seedRole"
  /\ r.pc = "avatar" => r.op = "updateUser"
  /\ r.pc = "count" => r.op = "deleteRole"
  /\ r.op = "deleteRole" => r.pc \in {"count", "write", "audit", "commit"}
  /\ r.op # "seedRole" => r.data.name \in Names \cup {Null}
  /\ r.slug # Null => r.pc \in {"avatar", "write", "audit", "commit"}
  /\ ~Inserts(r) /\ (r.pc = "slug" \/ r.slug # Null) => Renamed(r.old, r.data)
  /\ Deletes(r) => r.data = NoData /\ r.slug = Null
  /\ r.op = "deleteRole" <=> Deletes(r) /\ r.table = "role"
  /\ r.table = "role" => r.data.avatar = Null /\ r.cut = Null /\ r.data.email = Null
  /\ r.cut # Null => r.pc \in {"slug", "write", "audit", "commit"}
  /\ r.cut # Null /\ r.op = "updateUser" => r.pc # "slug"
  /\ Inserts(r) /\ r.pc # "grant" => r.data.name # Null
  /\ Inserts(r) /\ r.table = "user" => r.data.email # Null
  /\ Inserts(r) /\ ~InTx(r) /\ r.pc # "grant" => r.id = Null

Placed(r) ==
  /\ r.pc = "grant" => Exists("role", r.id)
  /\ r.pc # "idle" /\ ~Inserts(r) => r.id \in Ids /\ Exists(r.table, r.id)
  /\ InTx(r) => r.id \in Ids /\ r.new = Written(r) /\ (Inserts(r) => ~Exists(r.table, r.id))

Alone ==
  \A p, q \in Handlers : InTransaction(p) /\ InTransaction(q) /\ p # q =>
    req[p].table # req[q].table \/ req[p].id # req[q].id

Blank == \A t \in Tables, i \in Ids : ~Exists(t, i) => tbl[t][i] = NoRow

Base ==
  /\ Types /\ Blank /\ Alone
  /\ \A p \in Handlers : Planned(req[p]) /\ Placed(req[p])

-----------------------------------------------------------------------------
LEMMA Distinct ==
  /\ 1 \in Ids /\ 2 \in Ids /\ Ids \subseteq Nat /\ Null \notin Ids /\ Null \notin Nat
  /\ SuperAdmin # Null /\ AdminName # Null /\ AdminEmail # Null
BY AccountsAssumption DEF AccountsAssumption, Ids

LEMMA SlugTypes ==
  /\ Null \in Slugs /\ SuperAdmin \in Slugs /\ ToSlug(AdminName) \in Slugs
  /\ \A name \in Names, tries \in Nat : Candidate(name, tries) \in Slugs
<1>1. Candidate(AdminName, 0) = ToSlug(AdminName)
  BY DEF Candidate
<1> QED BY <1>1, AccountsAssumption DEF AccountsAssumption, Slugs

LEMMA Empty == NoRow \in Row /\ NoData \in Data /\ Idle \in Request
<1>1. NoRow \in Row
  BY SlugTypes DEF NoRow, Row, Titles, Optionally
<1>2. NoData \in Data
  BY DEF NoData, Data, Titles, Optionally
<1> QED BY <1>1, <1>2, SlugTypes DEF Idle, Request, Labels, Tables, Optionally

LEMMA InitRows ==
  ASSUME Init
  PROVE  /\ tbl["user"][1].name = AdminName /\ tbl["user"][1].role = 2 /\ tbl["user"][1].avatar = 1
         /\ tbl["role"][1].slug = SuperAdmin /\ tbl["role"][2].slug = ToSlug(AdminName)
         /\ tbl["role"][1].name # Null /\ tbl["role"][2].name # Null
         /\ \A i \in Ids \ {1} : tbl["user"][i] = NoRow
         /\ \A i \in Ids \ {1, 2} : tbl["role"][i] = NoRow
         /\ \A t \in Tables, i \in Ids : ~tbl[t][i].deleted
<1>1. PICK new \in Perms :
        tbl = [user |-> [i \in Ids |-> IF i = 1
                THEN [NoRow EXCEPT !.name = AdminName, !.email = AdminEmail,
                        !.slug = ToSlug(AdminName), !.role = 2, !.avatar = 1]
                ELSE NoRow],
              role |-> [i \in Ids |-> CASE i = 1 -> [NoRow EXCEPT !.name = SuperAdmin,
                                               !.slug = SuperAdmin, !.access = Perms \ {new}]
                                        [] i = 2 -> [NoRow EXCEPT !.name = AdminName, !.slug = ToSlug(AdminName)]
                                        [] OTHER -> NoRow]]
  BY DEF Init
<1> DEFINE admin == [NoRow EXCEPT !.name = AdminName, !.email = AdminEmail,
                        !.slug = ToSlug(AdminName), !.role = 2, !.avatar = 1]
           first == [NoRow EXCEPT !.name = SuperAdmin, !.slug = SuperAdmin,
                        !.access = Perms \ {new}]
           second == [NoRow EXCEPT !.name = AdminName, !.slug = ToSlug(AdminName)]
<1>2. \A i \in Ids : /\ tbl["user"][i] = IF i = 1 THEN admin ELSE NoRow
                     /\ tbl["role"][i] = IF i = 1 THEN first ELSE IF i = 2 THEN second ELSE NoRow
  BY <1>1
<1>3. /\ admin.name = AdminName /\ admin.role = 2 /\ admin.avatar = 1 /\ ~admin.deleted
      /\ first.name = SuperAdmin /\ first.slug = SuperAdmin /\ ~first.deleted
      /\ second.name = AdminName /\ second.slug = ToSlug(AdminName) /\ ~second.deleted
      /\ ~NoRow.deleted
  BY DEF NoRow
<1> HIDE DEF admin, first, second
<1>4. \A t \in Tables, i \in Ids : ~tbl[t][i].deleted
  BY <1>2, <1>3 DEF Tables
<1> QED BY <1>2, <1>3, <1>4, Distinct

LEMMA InitBase == Init => Base
<1> SUFFICES ASSUME Init PROVE Base
  OBVIOUS
<1>1. PICK new \in Perms :
        tbl = [user |-> [i \in Ids |-> IF i = 1
                THEN [NoRow EXCEPT !.name = AdminName, !.email = AdminEmail,
                        !.slug = ToSlug(AdminName), !.role = 2, !.avatar = 1]
                ELSE NoRow],
              role |-> [i \in Ids |-> CASE i = 1 -> [NoRow EXCEPT !.name = SuperAdmin,
                                               !.slug = SuperAdmin, !.access = Perms \ {new}]
                                        [] i = 2 -> [NoRow EXCEPT !.name = AdminName, !.slug = ToSlug(AdminName)]
                                        [] OTHER -> NoRow]]
  BY DEF Init
<1> DEFINE admin == [NoRow EXCEPT !.name = AdminName, !.email = AdminEmail,
                        !.slug = ToSlug(AdminName), !.role = 2, !.avatar = 1]
           first == [NoRow EXCEPT !.name = SuperAdmin, !.slug = SuperAdmin,
                        !.access = Perms \ {new}]
           second == [NoRow EXCEPT !.name = AdminName, !.slug = ToSlug(AdminName)]
<1>2. admin \in Row /\ first \in Row /\ second \in Row
  BY Empty, SlugTypes, Distinct, AccountsAssumption
     DEF NoRow, Row, Titles, Optionally, AccountsAssumption
<1>3. \A i \in Ids : /\ tbl["user"][i] = IF i = 1 THEN admin ELSE NoRow
                     /\ tbl["role"][i] = IF i = 1 THEN first ELSE IF i = 2 THEN second ELSE NoRow
  BY <1>1
<1>4. admin.name # Null /\ first.name # Null /\ second.name # Null
  BY Distinct DEF NoRow
<1>5. tbl \in [Tables -> [Ids -> Row]]
  <2> DEFINE users == [i \in Ids |-> IF i = 1 THEN admin ELSE NoRow]
             roles == [i \in Ids |-> CASE i = 1 -> first [] i = 2 -> second [] OTHER -> NoRow]
  <2>1. users \in [Ids -> Row] /\ roles \in [Ids -> Row]
    BY <1>2, Empty
  <2>2. tbl = [user |-> users, role |-> roles]
    BY <1>1
  <2> HIDE DEF users, roles
  <2> QED BY <2>1, <2>2 DEF Tables
<1>6. Blank
  <2> HIDE DEF admin, first, second
  <2> QED BY <1>3, <1>4 DEF Blank, Exists, Tables
<1>7. Types
  BY <1>5, Empty DEF Init, Types
<1>8. Alone
  BY DEF Alone, Init, InTransaction, Idle
<1>9. ASSUME NEW p \in Handlers PROVE Planned(req[p]) /\ Placed(req[p])
  <2>1. req[p] = Idle
    BY DEF Init
  <2>2. Planned(Idle)
    BY Distinct DEF Planned, Idle, RoleOps, Inserts, Deletes, InTx, NoData
  <2>3. Placed(Idle)
    BY DEF Placed, Idle, InTx
  <2> QED BY <2>1, <2>2, <2>3
<1> QED BY <1>6, <1>7, <1>8, <1>9 DEF Base

-----------------------------------------------------------------------------
(***************************************************************************)
(* A request that begins.                                                  *)
(***************************************************************************)
Late == {"avatar", "write", "audit", "commit"}

\* What a new request knows and has done; up says whether it came with a file.
StartsAs(r, up) ==
  /\ r \in Request /\ r.pc # "idle" /\ ~InTx(r) /\ r.during = {}
  /\ Planned(r) /\ Placed(r)
  /\ r.old = NoRow \/ (r.id \in Ids /\ ~Inserts(r) /\ r.old = tbl[r.table][r.id])
  /\ r.data.avatar = IF up THEN uploads + 1 ELSE Null
  /\ r.cut # Null => /\ r.cut = r.old.avatar /\ r.pc \in {"slug", "write"}
                     /\ r.data.avatar # Null \/ Deletes(r)
  /\ AsksEmail(r) => r.pc = "email"
  /\ r.pc \in Late /\ (Inserts(r) \/ r.slug # Null) => FindBySlug(r.table, r.slug) = {}
  /\ r.data.role # Null => r.data.role \in Ids /\ Exists("role", r.data.role)
  /\ r.op = "deleteRole" => r.pc = "count"

Starts(p, r, up) ==
  /\ StartsAs(r, up)
  /\ req' = [req EXCEPT ![p] = r]
  /\ uploads' = IF up THEN uploads + 1 ELSE uploads
  /\ files' = (IF up THEN files \cup {uploads + 1} ELSE files) \ {r.cut}
  /\ UNCHANGED <<tbl, log, raced, unasked, strays, lost>>

\* Begin, with the removed file as the request remembers it.
LEMMA BeginStarts ==
  ASSUME Types, NEW p, NEW op, NEW up \in BOOLEAN, NEW removed, NEW r,
         Begin(p, op, up, removed, r), removed = {r.cut} \/ (removed = {} /\ r.cut = Null),
         StartsAs(r, up)
  PROVE  Starts(p, r, up)
BY Distinct DEF Starts, Begin, Upload, history, Types

LEMMA StoredData ==
  ASSUME Types, NEW d \in Data, NEW up \in BOOLEAN
  PROVE  /\ Stored(d, up) \in Data
         /\ Stored(d, up).avatar = IF up THEN uploads + 1 ELSE Null
         /\ Stored(d, up).name = d.name /\ Stored(d, up).email = d.email
         /\ Stored(d, up).role = d.role /\ Stored(d, up).access = d.access
<1>1. (IF up THEN uploads + 1 ELSE Null) \in Optionally(Nat)
  BY DEF Types, Optionally
<1> DEFINE a == IF up THEN uploads + 1 ELSE Null
<1> HIDE DEF a
<1>2. [d EXCEPT !.avatar = a] \in Data
  BY <1>1 DEF a, Data
<1>3. Stored(d, up) = [d EXCEPT !.avatar = a]
  BY DEF Stored, a
<1> QED BY <1>2, <1>3 DEF a, Data

LEMMA CreateUserStarts ==
  ASSUME Base, NEW p \in Handlers, NEW name \in Names, NEW email \in Emails, NEW role \in Ids,
         NEW up \in BOOLEAN, Exists("role", role), CreateUser(p, name, email, role, up)
  PROVE  \E r : Starts(p, r, up)
<1> DEFINE sent == [NoData EXCEPT !.name = name, !.email = email, !.role = role]
           d == Stored(sent, up)
           r == [Idle EXCEPT !.pc = "email", !.op = "createUser", !.data = d]
<1>0. sent \in Data /\ sent.name = name /\ sent.email = email /\ sent.role = role
  BY DEF NoData, Data, Titles, Optionally
<1>1. d \in Data /\ d.name = name /\ d.email = email /\ d.role = role
      /\ d.avatar = IF up THEN uploads + 1 ELSE Null
  <2> HIDE DEF sent
  <2> QED BY <1>0, StoredData DEF Base
<1>2. name # Null /\ email # Null
  BY AccountsAssumption DEF AccountsAssumption
<1> HIDE DEF d
<1>3. /\ r.pc = "email" /\ r.op = "createUser" /\ r.table = "user" /\ r.id = Null
      /\ r.old = NoRow /\ r.data = d /\ r.slug = Null /\ r.cut = Null /\ r.during = {}
  BY DEF Idle
<1>4. r \in Request
  BY <1>1, Empty DEF Idle, Request, Labels, Tables, UserOps
<1>5. Begin(p, "createUser", up, {}, r)
  BY DEF CreateUser, d
<1> HIDE DEF r
<1>6. Planned(r) /\ Placed(r)
  BY <1>1, <1>2, <1>3 DEF Planned, Placed, Inserts, Deletes, InTx, RoleOps
<1>7. StartsAs(r, up)
  BY <1>1, <1>3, <1>4, <1>6 DEF StartsAs, InTx, Late
<1> QED BY <1>3, <1>5, <1>7, BeginStarts DEF Base

LEMMA RegisterStarts ==
  ASSUME Base, NEW p \in Handlers, NEW name \in Names, NEW email \in Emails,
         Register(p, name, email)
  PROVE  \E r : Starts(p, r, FALSE)
<1> DEFINE d == [NoData EXCEPT !.name = name, !.email = email]
           r == [Idle EXCEPT !.pc = "email", !.op = "register", !.data = d]
<1>1. d \in Data /\ d.name = name /\ d.email = email /\ d.role = Null /\ d.avatar = Null
  BY DEF NoData, Data, Titles, Optionally
<1>2. name # Null /\ email # Null
  BY AccountsAssumption DEF AccountsAssumption
<1> HIDE DEF d
<1>3. /\ r.pc = "email" /\ r.op = "register" /\ r.table = "user" /\ r.id = Null
      /\ r.old = NoRow /\ r.data = d /\ r.slug = Null /\ r.cut = Null /\ r.during = {}
  BY DEF Idle
<1>4. r \in Request
  BY <1>1, Empty DEF Idle, Request, Labels, Tables, UserOps
<1>5. Begin(p, "register", FALSE, {}, r)
  BY DEF Register, d
<1> HIDE DEF r
<1>6. Planned(r) /\ Placed(r)
  BY <1>1, <1>2, <1>3 DEF Planned, Placed, Inserts, Deletes, InTx, RoleOps
<1>7. StartsAs(r, FALSE)
  BY <1>1, <1>3, <1>4, <1>6 DEF StartsAs, InTx, Late
<1> QED BY <1>3, <1>5, <1>7, BeginStarts DEF Base

LEMMA SeedAdminStarts ==
  ASSUME Base, NEW p \in Handlers, SeedAdmin(p)
  PROVE  \E r : Starts(p, r, FALSE)
<1> DEFINE d == [NoData EXCEPT !.name = AdminName, !.email = AdminEmail]
           r == [Idle EXCEPT !.pc = "email", !.op = "seedAdmin", !.data = d]
<1>1. d \in Data /\ d.name = AdminName /\ d.email = AdminEmail /\ d.role = Null /\ d.avatar = Null
  BY AccountsAssumption DEF AccountsAssumption, NoData, Data, Titles, Optionally
<1> HIDE DEF d
<1>3. /\ r.pc = "email" /\ r.op = "seedAdmin" /\ r.table = "user" /\ r.id = Null
      /\ r.old = NoRow /\ r.data = d /\ r.slug = Null /\ r.cut = Null /\ r.during = {}
  BY DEF Idle
<1>4. r \in Request
  BY <1>1, Empty DEF Idle, Request, Labels, Tables, UserOps
<1>5. Begin(p, "seedAdmin", FALSE, {}, r)
  BY DEF SeedAdmin, d
<1> HIDE DEF r
<1>6. Planned(r) /\ Placed(r)
  BY <1>1, Distinct, AccountsAssumption, <1>3 DEF Planned, Placed, Inserts, Deletes, InTx, RoleOps, AccountsAssumption
<1>7. StartsAs(r, FALSE)
  BY <1>1, <1>3, <1>4, <1>6 DEF StartsAs, InTx, Late
<1> QED BY <1>3, <1>5, <1>7, BeginStarts DEF Base

LEMMA Rows ==
  ASSUME Types, NEW t \in Tables, NEW i \in Ids
  PROVE  tbl[t][i] \in Row
BY DEF Types

LEMMA UpdateUserStarts ==
  ASSUME Base, NEW p \in Handlers, NEW i \in Ids, NEW role \in Optional(Ids),
         NEW name \in Optional(Names), NEW email \in Optional(Emails), NEW up \in BOOLEAN,
         role # Null => Exists("role", role),
         UpdateUser(p, i, name, email, role, up)
  PROVE  \E r : Starts(p, r, up)
<1> DEFINE old == tbl["user"][i]
           sent == [NoData EXCEPT !.name = name, !.email = email, !.role = role]
           d == Stored(sent, up)
           pc == IF email # Null /\ email # old.email THEN "email"
                 ELSE IF Renamed(old, d) THEN "slug" ELSE "avatar"
           r == [Idle EXCEPT !.op = "updateUser", !.id = i, !.old = old, !.data = d, !.pc = pc]
<1>0. sent \in Data /\ sent.name = name /\ sent.email = email /\ sent.role = role
  BY DEF NoData, Data, Titles, Optionally, Optional
<1>1. d \in Data /\ d.name = name /\ d.email = email /\ d.role = role
      /\ d.avatar = IF up THEN uploads + 1 ELSE Null
  <2> HIDE DEF sent
  <2> QED BY <1>0, StoredData DEF Base
<1>2. old \in Row /\ Exists("user", i)
  BY Rows DEF Base, Tables, UpdateUser, Live
<1>3. Begin(p, "updateUser", up, {}, r)
  BY DEF UpdateUser
<1>4. pc \in {"email", "slug", "avatar"} /\ (email # Null /\ email # old.email => pc = "email")
      /\ (pc = "slug" => Renamed(old, d))
  OBVIOUS
<1> HIDE DEF d, pc
<1>5. /\ r.pc = pc /\ r.op = "updateUser" /\ r.table = "user" /\ r.id = i
      /\ r.old = old /\ r.data = d /\ r.slug = Null /\ r.cut = Null /\ r.during = {}
  BY DEF Idle
<1>6. r \in Request
  BY <1>1, <1>2, <1>4, Empty DEF Idle, Request, Labels, Tables, UserOps, Optionally
<1> HIDE DEF r
<1>7. Planned(r) /\ Placed(r)
  BY <1>1, <1>2, <1>4, <1>5 DEF Planned, Placed, Inserts, Deletes, InTx, RoleOps, Optional, NoData
<1>8. StartsAs(r, up)
  <2>1. role # Null => role \in Ids /\ Exists("role", role)
    BY DEF Optional
  <2> QED BY <1>1, <1>4, <1>5, <1>6, <1>7, <2>1 DEF StartsAs, InTx, Late, AsksEmail, Inserts
<1> QED BY <1>3, <1>5, <1>8, BeginStarts DEF Base

LEMMA UpdateProfileStarts ==
  ASSUME Base, NEW p \in Handlers, NEW i \in Ids, NEW name \in Optional(Names),
         NEW email \in Optional(Emails), NEW up \in BOOLEAN,
         UpdateProfile(p, i, name, email, up)
  PROVE  \E r : Starts(p, r, up)
<1> DEFINE old == tbl["user"][i]
           sent == [NoData EXCEPT !.name = name, !.email = email]
           d == Stored(sent, up)
           cut == IF up THEN old.avatar ELSE Null
           pc == IF Renamed(old, d) THEN "slug" ELSE "write"
           r == [Idle EXCEPT !.op = "updateProfile", !.id = i, !.old = old, !.data = d,
                   !.cut = cut, !.pc = pc]
<1>0. sent \in Data /\ sent.name = name /\ sent.email = email /\ sent.role = Null
  BY DEF NoData, Data, Titles, Optionally, Optional
<1>1. d \in Data /\ d.name = name /\ d.email = email /\ d.role = Null
      /\ d.avatar = IF up THEN uploads + 1 ELSE Null
  <2> HIDE DEF sent
  <2> QED BY <1>0, StoredData DEF Base
<1>2. old \in Row /\ Exists("user", i)
  BY Rows DEF Base, Tables, UpdateProfile, Live
<1>3. Begin(p, "updateProfile", up, {cut}, r)
  BY DEF UpdateProfile
<1>4. pc \in {"slug", "write"} /\ (pc = "slug" => Renamed(old, d))
      /\ cut \in Optionally(Nat) /\ (cut # Null => up /\ cut = old.avatar)
  BY <1>2 DEF Row, Optionally
<1> HIDE DEF d, pc, cut
<1>5. /\ r.pc = pc /\ r.op = "updateProfile" /\ r.table = "user" /\ r.id = i
      /\ r.old = old /\ r.data = d /\ r.slug = Null /\ r.cut = cut /\ r.during = {}
  BY DEF Idle
<1>6. r \in Request
  <2>1. pc \in Labels /\ i \in Optionally(Ids) /\ "updateProfile" \in UserOps \cup RoleOps
    BY <1>4 DEF Labels, Optionally, UserOps
  <2> QED BY <1>1, <1>2, <1>4, <2>1, Empty DEF Request
<1> HIDE DEF r
<1>7. Planned(r) /\ Placed(r)
  BY <1>1, <1>2, <1>4, <1>5 DEF Planned, Placed, Inserts, Deletes, InTx, RoleOps, Optional, NoData
<1>8. StartsAs(r, up)
  <2>1. up => uploads + 1 # Null
    BY Distinct DEF Base, Types
  <2> QED BY <1>1, <1>4, <1>5, <1>6, <1>7, <2>1 DEF StartsAs, InTx, Late, AsksEmail, Inserts
<1> QED BY <1>3, <1>5, <1>8, BeginStarts DEF Base

LEMMA DeleteUserStarts ==
  ASSUME Base, NEW p \in Handlers, NEW i \in Ids, DeleteUser(p, i)
  PROVE  \E r : Starts(p, r, FALSE)
<1> DEFINE old == tbl["user"][i]
           r == [Idle EXCEPT !.op = "deleteUser", !.id = i, !.old = old, !.cut = old.avatar,
                   !.pc = "write"]
<1>2. old \in Row /\ Exists("user", i) /\ old.avatar \in Optionally(Nat)
  BY Rows DEF Base, Tables, DeleteUser, Live, Row
<1>3. Begin(p, "deleteUser", FALSE, {old.avatar}, r)
  BY DEF DeleteUser
<1>5. /\ r.pc = "write" /\ r.op = "deleteUser" /\ r.table = "user" /\ r.id = i
      /\ r.old = old /\ r.data = NoData /\ r.slug = Null /\ r.cut = old.avatar /\ r.during = {}
  BY DEF Idle
<1>6. r \in Request
  BY <1>2, Empty DEF Idle, Request, Labels, Tables, UserOps, Optionally
<1> HIDE DEF r
<1>7. Planned(r) /\ Placed(r)
  BY <1>2, <1>5 DEF Planned, Placed, Inserts, Deletes, InTx, RoleOps, Optional, NoData
<1>8. StartsAs(r, FALSE)
  BY <1>5, <1>6, <1>7 DEF StartsAs, InTx, Late, AsksEmail, Inserts, Deletes, NoData
<1> QED BY <1>3, <1>5, <1>8, BeginStarts DEF Base

LEMMA CreateRoleStarts ==
  ASSUME Base, NEW p \in Handlers, NEW title \in Names, NEW access \in SUBSET Perms,
         CreateRole(p, title, access)
  PROVE  \E r : Starts(p, r, FALSE)
<1> DEFINE d == [NoData EXCEPT !.name = title, !.access = access]
           r == [Idle EXCEPT !.pc = "slug", !.op = "createRole", !.table = "role", !.data = d]
<1>1. d \in Data /\ d.name = title /\ d.email = Null /\ d.role = Null /\ d.avatar = Null
      /\ title # Null
  BY AccountsAssumption DEF AccountsAssumption, NoData, Data, Titles, Optionally
<1> HIDE DEF d
<1>2. /\ r.pc = "slug" /\ r.op = "createRole" /\ r.table = "role" /\ r.id = Null
      /\ r.old = NoRow /\ r.data = d /\ r.slug = Null /\ r.cut = Null /\ r.during = {}
  BY DEF Idle
<1>3. r \in Request
  BY <1>1, Empty DEF Idle, Request, Labels, Tables, RoleOps
<1>4. Begin(p, "createRole", FALSE, {}, r)
  BY DEF CreateRole, d
<1> HIDE DEF r
<1>5. Planned(r) /\ Placed(r)
  BY <1>1, <1>2 DEF Planned, Placed, Inserts, Deletes, InTx, RoleOps
<1>6. StartsAs(r, FALSE)
  BY <1>1, <1>2, <1>3, <1>5 DEF StartsAs, InTx, Late, AsksEmail
<1> QED BY <1>2, <1>4, <1>6, BeginStarts DEF Base

LEMMA UpdateRoleStarts ==
  ASSUME Base, NEW p \in Handlers, NEW i \in Ids, NEW title \in Optional(Names),
         NEW access \in Optional(SUBSET Perms), UpdateRole(p, i, title, access)
  PROVE  \E r : Starts(p, r, FALSE)
<1> DEFINE old == tbl["role"][i]
           d == [NoData EXCEPT !.name = title, !.access = access]
           pc == IF Renamed(old, d) THEN "slug" ELSE "write"
           r == [Idle EXCEPT !.op = "updateRole", !.table = "role", !.id = i, !.old = old,
                   !.data = d, !.pc = pc]
<1>1. d \in Data /\ d.name = title /\ d.email = Null /\ d.role = Null /\ d.avatar = Null
  BY DEF NoData, Data, Titles, Optionally, Optional
<1>2. old \in Row /\ Exists("role", i)
  BY Rows DEF Base, Tables, UpdateRole, Live
<1>3. Begin(p, "updateRole", FALSE, {}, r)
  BY DEF UpdateRole
<1>4. pc \in {"slug", "write"} /\ (pc = "slug" => Renamed(old, d))
  OBVIOUS
<1> HIDE DEF d, pc
<1>5. /\ r.pc = pc /\ r.op = "updateRole" /\ r.table = "role" /\ r.id = i
      /\ r.old = old /\ r.data = d /\ r.slug = Null /\ r.cut = Null /\ r.during = {}
  BY DEF Idle
<1>6. r \in Request
  BY <1>1, <1>2, <1>4, Empty DEF Idle, Request, Labels, Tables, RoleOps, Optionally
<1> HIDE DEF r
<1>7. Planned(r) /\ Placed(r)
  BY <1>1, <1>2, <1>4, <1>5 DEF Planned, Placed, Inserts, Deletes, InTx, RoleOps, Optional, NoData
<1>8. StartsAs(r, FALSE)
  BY <1>1, <1>4, <1>5, <1>6, <1>7 DEF StartsAs, InTx, Late, AsksEmail, Inserts
<1> QED BY <1>3, <1>5, <1>8, BeginStarts DEF Base

LEMMA DeleteRoleStarts ==
  ASSUME Base, NEW p \in Handlers, NEW i \in Ids, DeleteRole(p, i)
  PROVE  \E r : Starts(p, r, FALSE)
<1> DEFINE old == tbl["role"][i]
           r == [Idle EXCEPT !.pc = "count", !.op = "deleteRole", !.table = "role", !.id = i,
                   !.old = old]
<1>2. old \in Row /\ Exists("role", i)
  BY Rows DEF Base, Tables, DeleteRole, Live
<1>3. Begin(p, "deleteRole", FALSE, {}, r)
  BY DEF DeleteRole
<1>5. /\ r.pc = "count" /\ r.op = "deleteRole" /\ r.table = "role" /\ r.id = i
      /\ r.old = old /\ r.data = NoData /\ r.slug = Null /\ r.cut = Null /\ r.during = {}
  BY DEF Idle
<1>6. r \in Request
  BY <1>2, Empty DEF Idle, Request, Labels, Tables, RoleOps, Optionally
<1> HIDE DEF r
<1>7. Planned(r) /\ Placed(r)
  BY <1>2, <1>5 DEF Planned, Placed, Inserts, Deletes, InTx, RoleOps, NoData
<1>8. StartsAs(r, FALSE)
  BY <1>5, <1>6, <1>7 DEF StartsAs, InTx, Late, AsksEmail, Inserts, NoData
<1> QED BY <1>3, <1>5, <1>8, BeginStarts DEF Base

LEMMA SeedRoleStarts ==
  ASSUME Base, NEW p \in Handlers, SeedRole(p)
  PROVE  \E r : Starts(p, r, FALSE)
<1> DEFINE found == FindBySlug("role", SuperAdmin)
           seed == [Idle EXCEPT !.op = "seedRole", !.table = "role"]
<1>1. CASE /\ found = {}
           /\ Begin(p, "seedRole", FALSE, {},
                [seed EXCEPT !.pc = "write", !.slug = SuperAdmin,
                   !.data = [NoData EXCEPT !.name = SuperAdmin, !.access = Perms]])
  <2> DEFINE d == [NoData EXCEPT !.name = SuperAdmin, !.access = Perms]
             r == [seed EXCEPT !.pc = "write", !.slug = SuperAdmin, !.data = d]
  <2>1. d \in Data /\ d.name = SuperAdmin /\ d.email = Null /\ d.role = Null /\ d.avatar = Null
        /\ SuperAdmin # Null
    BY Distinct DEF NoData, Data, Titles, Optionally
  <2>2. Begin(p, "seedRole", FALSE, {}, r)
    BY <1>1
  <2> HIDE DEF d
  <2>3. /\ r.pc = "write" /\ r.op = "seedRole" /\ r.table = "role" /\ r.id = Null
        /\ r.old = NoRow /\ r.data = d /\ r.slug = SuperAdmin /\ r.cut = Null /\ r.during = {}
    BY DEF Idle
  <2>4. r \in Request
    BY <2>1, Empty, SlugTypes DEF Idle, Request, Labels, Tables, RoleOps
  <2> HIDE DEF r
  <2>5. Planned(r) /\ Placed(r)
    BY <2>1, <2>3 DEF Planned, Placed, Inserts, Deletes, InTx, RoleOps
  <2>6. StartsAs(r, FALSE)
    BY <1>1, <2>1, <2>3, <2>4, <2>5 DEF StartsAs, InTx, Late, AsksEmail
  <2> QED BY <2>2, <2>3, <2>6, BeginStarts DEF Base
<1>2. CASE \E i \in found :
             LET missing == Perms \ tbl["role"][i].access IN
             /\ missing # {}
             /\ Begin(p, "seedRole", FALSE, {},
                  [seed EXCEPT !.pc = "grant", !.id = i, !.missing = missing])
  <2>1. PICK i \in found : Begin(p, "seedRole", FALSE, {},
               [seed EXCEPT !.pc = "grant", !.id = i, !.missing = Perms \ tbl["role"][i].access])
    BY <1>2
  <2> DEFINE missing == Perms \ tbl["role"][i].access
             r == [seed EXCEPT !.pc = "grant", !.id = i, !.missing = missing]
  <2>2. i \in Ids /\ Exists("role", i)
    BY DEF FindBySlug, Live
  <2>3. Begin(p, "seedRole", FALSE, {}, r)
    BY <2>1
  <2>4. missing \in SUBSET Perms
    OBVIOUS
  <2> HIDE DEF missing
  <2>5. /\ r.pc = "grant" /\ r.op = "seedRole" /\ r.table = "role" /\ r.id = i
        /\ r.old = NoRow /\ r.data = NoData /\ r.slug = Null /\ r.cut = Null /\ r.during = {}
    BY DEF Idle
  <2>6. r \in Request
    BY <2>2, <2>4, Empty DEF Idle, Request, Labels, Tables, RoleOps, Optionally
  <2> HIDE DEF r
  <2>7. Planned(r) /\ Placed(r)
    BY <2>2, <2>5 DEF Planned, Placed, Inserts, Deletes, InTx, RoleOps, NoData
  <2>8. StartsAs(r, FALSE)
    BY <2>5, <2>6, <2>7 DEF StartsAs, InTx, Late, AsksEmail, NoData
  <2> QED BY <2>3, <2>5, <2>8, BeginStarts DEF Base
<1> QED BY <1>1, <1>2 DEF SeedRole

LEMMA Starting ==
  ASSUME Base, NEW p \in Handlers, Start(p)
  PROVE  req[p].pc = "idle" /\ \E r, up : up \in BOOLEAN /\ Starts(p, r, up)
<1>1. req[p].pc = "idle"
  BY DEF Start
<1>2. \E up \in BOOLEAN : \E r : Starts(p, r, up)
  BY CreateUserStarts, RegisterStarts, UpdateUserStarts, UpdateProfileStarts, DeleteUserStarts,
     DeleteRoleStarts, CreateRoleStarts, UpdateRoleStarts, SeedRoleStarts, SeedAdminStarts, Zenon
     DEF Start
<1> QED BY <1>1, <1>2

-----------------------------------------------------------------------------
(***************************************************************************)
(* A request that takes a step without changing a row, and one that ends.  *)
(***************************************************************************)
SameRequest(r, s) ==
  /\ s.op = r.op /\ s.table = r.table /\ s.old = r.old /\ s.during = r.during
  /\ s.data.name = r.data.name /\ s.data.email = r.data.email
  /\ s.data.avatar = r.data.avatar

\* Request r becomes s, by what its step has found in the tables.
AdvancesAs(r, s) ==
  /\ s \in Request /\ r.pc # "idle" /\ s.pc # "idle" /\ Planned(s) /\ Placed(s)
  /\ SameRequest(r, s)
  /\ s.id # r.id => Inserts(r) /\ r.id = Null
  /\ InTx(s) /\ ~InTx(r) => ~Locked(s.table, s.id)
  /\ InTx(r) => InTx(s) /\ s.id = r.id
  /\ s.cut # r.cut => /\ r.cut = Null /\ r.pc = "avatar" /\ s.pc = "write"
                      /\ s.cut = r.old.avatar /\ r.data.avatar # Null
  /\ r.pc = "email" => FindByEmail(r.data.email) = {}
  /\ r.pc # "email" => s.pc # "email"
  /\ r.pc \in Late => s.pc \in Late /\ s.slug = r.slug
  /\ r.pc \notin Late /\ s.pc \in Late /\ (Inserts(s) \/ s.slug # Null) =>
       FindBySlugExcluding(s.table, s.slug, s.id) = {}
  /\ s.data.role # r.data.role => s.data.role \in Ids /\ Exists("role", s.data.role)
  /\ r.op = "deleteRole" /\ r.pc = "count" => CountUsers(r.id) = 0

Advances(p, s) ==
  /\ AdvancesAs(req[p], s)
  /\ req' = [req EXCEPT ![p] = s]
  /\ files' = IF s.cut = req[p].cut THEN files ELSE files \ {s.cut}
  /\ UNCHANGED <<tbl, log, uploads, raced, unasked, strays, lost>>

Ends(p) ==
  /\ req[p].pc # "idle"
  /\ Finish(p) /\ Lose(req[p])
  /\ UNCHANGED <<tbl, log, files, uploads, raced, unasked, strays>>

\* What every step of a request starts from.
LEMMA Known ==
  ASSUME Base, NEW p \in Handlers
  PROVE  req[p] \in Request /\ Planned(req[p]) /\ Placed(req[p])
BY DEF Base, Types

\* A request that is still looking things up: its row, if it has one, is not locked yet.
LEMMA EmailAdvances ==
  ASSUME Base, NEW p \in Handlers, CheckEmail(p)
  PROVE  (\E s : Advances(p, s)) \/ Ends(p)
<1> DEFINE r == req[p]
           s == [r EXCEPT !.pc = AfterEmail(r)]
<1>1. r \in Request /\ Planned(r) /\ Placed(r) /\ r.pc = "email"
  BY Known DEF CheckEmail
<1>2. CASE FindByEmail(r.data.email) = {}
  <2>1. req' = [req EXCEPT ![p] = s]
    BY <1>2 DEF CheckEmail, Goto
  <2>2. UNCHANGED <<tbl, files, uploads, log, raced, unasked, strays, lost>>
    BY DEF CheckEmail, history
  <2>3. /\ AfterEmail(r) \in {"role", "avatar", "slug"}
        /\ AfterEmail(r) = "role" <=> r.op \in {"register", "seedAdmin"}
        /\ AfterEmail(r) = "avatar" => r.op = "updateUser"
        /\ AfterEmail(r) = "slug" /\ r.op = "updateUser" => Renamed(r.old, r.data)
    BY DEF AfterEmail
  <2> DEFINE to == AfterEmail(r)
  <2> HIDE DEF to
  <2>4. /\ s \in Request /\ s.pc = to /\ s.op = r.op /\ s.table = r.table /\ s.id = r.id
        /\ s.old = r.old /\ s.data = r.data /\ s.slug = r.slug /\ s.cut = r.cut
        /\ s.during = r.during
    BY <1>1, <2>3 DEF to, Request, Labels
  <2> HIDE DEF r, s
  <2>5. Planned(s) /\ Placed(s)
    BY <1>1, <2>3, <2>4 DEF to, Planned, Placed, Inserts, Deletes, InTx
  <2>6. AdvancesAs(r, s)
    BY <1>1, <1>2, <2>3, <2>4, <2>5
       DEF to, AdvancesAs, SameRequest, InTx, Late, Planned, Inserts
  <2> QED BY <2>1, <2>2, <2>4, <2>6 DEF Advances, r
<1>3. CASE FindByEmail(r.data.email) # {}
  <2>1. r.cut = Null
    BY <1>1 DEF Planned
  <2> QED BY <1>1, <1>3, <2>1 DEF CheckEmail, Ends, Lose, history
<1> QED BY <1>2, <1>3

LEMMA RoleAdvances ==
  ASSUME Base, NEW p \in Handlers, FindRole(p)
  PROVE  (\E s : Advances(p, s)) \/ Ends(p)
<1> DEFINE r == req[p]
<1>1. r \in Request /\ Planned(r) /\ Placed(r) /\ r.pc = "role"
  BY Known DEF FindRole
<1>2. UNCHANGED <<tbl, files, uploads, log, raced, unasked, strays, lost>>
  BY DEF FindRole, history
<1>3. CASE Goto(p, "slug")
  <2> DEFINE s == [r EXCEPT !.pc = "slug"]
  <2>1. req' = [req EXCEPT ![p] = s]
    BY <1>3 DEF Goto
  <2>4. /\ s \in Request /\ s.pc = "slug" /\ s.op = r.op /\ s.table = r.table /\ s.id = r.id
        /\ s.old = r.old /\ s.data = r.data /\ s.slug = r.slug /\ s.cut = r.cut
        /\ s.during = r.during
    BY <1>1 DEF Request, Labels
  <2> HIDE DEF r, s
  <2>5. Planned(s) /\ Placed(s)
    BY <1>1, <2>4 DEF Planned, Placed, Inserts, Deletes, InTx
  <2>6. AdvancesAs(r, s)
    BY <1>1, <2>4, <2>5 DEF AdvancesAs, SameRequest, InTx, Late, Planned
  <2> QED BY <1>2, <2>1, <2>4, <2>6 DEF Advances, r
<1>4. CASE \E slug : \E role \in FindBySlug("role", slug) :
             req' = [req EXCEPT ![p].pc = "slug", ![p].data.role = role]
  <2> PICK slug : \E role \in FindBySlug("role", slug) :
             req' = [req EXCEPT ![p].pc = "slug", ![p].data.role = role]
    BY <1>4
  <2>0. PICK role \in FindBySlug("role", slug) :
             req' = [req EXCEPT ![p].pc = "slug", ![p].data.role = role]
    OBVIOUS
  <2> DEFINE d == [r.data EXCEPT !.role = role]
             s == [r EXCEPT !.pc = "slug", !.data = d]
  <2>1. req' = [req EXCEPT ![p] = s]
    BY <1>1, <2>0 DEF Request, Base, Types
  <2>2. role \in Ids /\ Exists("role", role)
    BY DEF FindBySlug, Live
  <2>3. /\ d \in Data /\ d.name = r.data.name /\ d.email = r.data.email
        /\ d.avatar = r.data.avatar /\ d.role = role
    BY <1>1, <2>2 DEF Request, Data, Optionally
  <2> HIDE DEF d
  <2>4. /\ s \in Request /\ s.pc = "slug" /\ s.op = r.op /\ s.table = r.table /\ s.id = r.id
        /\ s.old = r.old /\ s.data = d /\ s.slug = r.slug /\ s.cut = r.cut
        /\ s.during = r.during
    BY <1>1, <2>3 DEF Request, Labels
  <2> HIDE DEF r, s
  <2>5. Planned(s) /\ Placed(s)
    BY <1>1, <2>3, <2>4 DEF Planned, Placed, Inserts, Deletes, InTx
  <2>6. AdvancesAs(r, s)
    BY <1>1, <2>2, <2>3, <2>4, <2>5 DEF AdvancesAs, SameRequest, InTx, Late, Planned
  <2> QED BY <1>2, <2>1, <2>4, <2>6 DEF Advances, r
<1>5. CASE Finish(p)
  <2>1. r.cut = Null
    BY <1>1 DEF Planned
  <2> QED BY <1>1, <1>2, <1>5, <2>1 DEF Ends, Lose
<1> QED BY <1>3, <1>4, <1>5 DEF FindRole

LEMMA SlugAdvances ==
  ASSUME Base, NEW p \in Handlers, TrySlug(p)
  PROVE  \E s : Advances(p, s)
<1> DEFINE r == req[p]
           candidate == Candidate(r.data.name, r.tries)
           slug == IF candidate = <<>> /\ r.id # Null THEN Null ELSE candidate
<1>1. r \in Request /\ Planned(r) /\ Placed(r) /\ r.pc = "slug"
  BY Known DEF TrySlug
<1>2. UNCHANGED <<tbl, files, uploads, log, raced, unasked, strays, lost>>
  BY DEF TrySlug, history
<1>3. slug \in Slugs
  <2>1. r.data.name \in Names
    BY <1>1 DEF Planned, Renamed
  <2>2. candidate \in Slugs
    BY <1>1, <2>1, SlugTypes DEF Request
  <2> HIDE DEF candidate
  <2> QED BY <2>2, SlugTypes
<1>6. Inserts(r) \/ slug # Null => slug = candidate
  BY <1>1 DEF Planned, InTx
<1>4. CASE FindBySlugExcluding(r.table, candidate, r.id) = {}
  <2> DEFINE to == IF r.op = "updateUser" THEN "avatar" ELSE "write"
             s == [r EXCEPT !.slug = slug, !.pc = to]
  <2>1. req' = [req EXCEPT ![p] = s]
    BY <1>4 DEF TrySlug
  <2>3. to \in {"avatar", "write"} /\ (to = "avatar" => r.op = "updateUser")
    OBVIOUS
  <2> HIDE DEF to, slug, candidate
  <2>4. /\ s \in Request /\ s.pc = to /\ s.op = r.op /\ s.table = r.table /\ s.id = r.id
        /\ s.old = r.old /\ s.data = r.data /\ s.slug = slug /\ s.cut = r.cut
        /\ s.during = r.during
    BY <1>1, <1>3, <2>3 DEF Request, Labels
  <2> HIDE DEF r, s
  <2>5. Planned(s) /\ Placed(s)
    <3>1. ~Deletes(r)
      BY <1>1 DEF Planned, Renamed, NoData, Inserts, Deletes
    <3> QED BY <1>1, <2>3, <2>4, <3>1 DEF Planned, Placed, Inserts, Deletes, InTx
  <2>6. AdvancesAs(r, s)
    <3>1. Inserts(s) \/ s.slug # Null => FindBySlugExcluding(s.table, s.slug, s.id) = {}
      BY <1>4, <1>6, <2>4 DEF Inserts
    <3> QED BY <1>1, <2>3, <2>4, <2>5, <3>1 DEF AdvancesAs, SameRequest, InTx, Late, Planned
  <2> QED BY <1>2, <2>1, <2>4, <2>6 DEF Advances, r
<1>5. CASE FindBySlugExcluding(r.table, candidate, r.id) # {}
  <2> DEFINE s == [r EXCEPT !.tries = r.tries + 1]
  <2>1. req' = [req EXCEPT ![p] = s]
    BY <1>5 DEF TrySlug
  <2>4. /\ s \in Request /\ s.pc = r.pc /\ s.op = r.op /\ s.table = r.table /\ s.id = r.id
        /\ s.old = r.old /\ s.data = r.data /\ s.slug = r.slug /\ s.cut = r.cut
        /\ s.during = r.during
    BY <1>1 DEF Request
  <2> HIDE DEF r, s
  <2>5. Planned(s) /\ Placed(s)
    BY <1>1, <2>4 DEF Planned, Placed, Inserts, Deletes, InTx
  <2>6. AdvancesAs(r, s)
    BY <1>1, <2>4, <2>5 DEF AdvancesAs, SameRequest, InTx, Late, Planned
  <2> QED BY <1>2, <2>1, <2>4, <2>6 DEF Advances, r
<1> QED BY <1>4, <1>5

LEMMA AvatarAdvances ==
  ASSUME Base, NEW p \in Handlers, ReplaceAvatar(p)
  PROVE  \E s : Advances(p, s)
<1> DEFINE r == req[p]
           cut == IF r.data.avatar # Null THEN r.old.avatar ELSE Null
           s == [r EXCEPT !.pc = "write", !.cut = cut]
<1>1. r \in Request /\ Planned(r) /\ Placed(r) /\ r.pc = "avatar" /\ r.cut = Null
  BY Known DEF ReplaceAvatar, Planned
<1>2. UNCHANGED <<tbl, uploads, log, raced, unasked, strays, lost>> /\ files' = files \ {cut}
  BY DEF ReplaceAvatar, history
<1>3. req' = [req EXCEPT ![p] = s]
  BY DEF ReplaceAvatar
<1>4. cut \in Optionally(Nat) /\ (cut # Null => cut = r.old.avatar /\ r.data.avatar # Null)
  BY <1>1 DEF Request, Row, Optionally
<1>5. files' = IF cut = Null THEN files ELSE files \ {cut}
  BY <1>2, Distinct DEF Base, Types
<1> HIDE DEF cut
<1>6. /\ s \in Request /\ s.pc = "write" /\ s.op = r.op /\ s.table = r.table /\ s.id = r.id
      /\ s.old = r.old /\ s.data = r.data /\ s.slug = r.slug /\ s.cut = cut
      /\ s.during = r.during
  BY <1>1, <1>4 DEF Request, Labels
<1> HIDE DEF r, s
<1>7. Planned(s) /\ Placed(s)
  BY <1>1, <1>6 DEF Planned, Placed, Inserts, Deletes, InTx, RoleOps
<1>8. AdvancesAs(r, s)
  BY <1>1, <1>4, <1>6, <1>7 DEF AdvancesAs, SameRequest, InTx, Late, Planned
<1> QED BY <1>1, <1>2, <1>3, <1>5, <1>6, <1>8 DEF Advances, r

LEMMA CountAdvances ==
  ASSUME Base, NEW p \in Handlers, CountRoleUsers(p)
  PROVE  (\E s : Advances(p, s)) \/ Ends(p)
<1> DEFINE r == req[p]
<1>1. r \in Request /\ Planned(r) /\ Placed(r) /\ r.pc = "count"
  BY Known DEF CountRoleUsers
<1>2. UNCHANGED <<tbl, files, uploads, log, raced, unasked, strays, lost>>
  BY DEF CountRoleUsers, history
<1>3. CASE CountUsers(r.id) = 0
  <2> DEFINE s == [r EXCEPT !.pc = "write"]
  <2>1. req' = [req EXCEPT ![p] = s]
    BY <1>3 DEF CountRoleUsers, Goto
  <2>2. /\ s \in Request /\ s.pc = "write" /\ s.op = r.op /\ s.table = r.table /\ s.id = r.id
        /\ s.old = r.old /\ s.data = r.data /\ s.slug = r.slug /\ s.cut = r.cut
        /\ s.during = r.during
    BY <1>1 DEF Request, Labels
  <2> HIDE DEF r, s
  <2>3. Planned(s) /\ Placed(s)
    BY <1>1, <2>2 DEF Planned, Placed, Inserts, Deletes, InTx
  <2>4. AdvancesAs(r, s)
    BY <1>1, <1>3, <2>2, <2>3 DEF AdvancesAs, SameRequest, InTx, Late, Planned, Inserts
  <2> QED BY <1>2, <2>1, <2>2, <2>4 DEF Advances, r
<1>4. CASE CountUsers(r.id) # 0
  <2>1. r.cut = Null /\ Finish(p)
    BY <1>1, <1>4 DEF Planned, CountRoleUsers
  <2> QED BY <1>1, <1>2, <2>1 DEF Ends, Lose
<1> QED BY <1>3, <1>4

LEMMA MergedTypes ==
  ASSUME NEW row \in Row, NEW r \in Request
  PROVE  Merged(row, r) \in Row /\ [row EXCEPT !.deleted = TRUE] \in Row
<1>1. /\ Sent(r.data.name, row.name) \in Titles /\ Sent(r.data.email, row.email) \in Optionally(Emails)
      /\ Sent(r.data.role, row.role) \in Optionally(Ids)
      /\ Sent(r.data.avatar, row.avatar) \in Optionally(Nat)
      /\ Sent(r.slug, row.slug) \in Slugs
  BY DEF Sent, Row, Request, Data
<1>2. Sent(r.data.access, row.access) \in SUBSET Perms
  BY DEF Sent, Row, Request, Data, Optionally
<1> QED BY <1>1, <1>2 DEF Merged, Row

LEMMA WriteAdvances ==
  ASSUME Base, NEW p \in Handlers, Write(p)
  PROVE  \E s : Advances(p, s)
<1> DEFINE r == req[p]
<1>1. r \in Request /\ Planned(r) /\ Placed(r) /\ r.pc = "write"
  BY Known DEF Write
<1>2. UNCHANGED <<tbl, files, uploads, log, raced, unasked, strays, lost>>
  BY DEF Write, history
<1>3. PICK i \in IF Inserts(r) THEN Free(r.table) ELSE {r.id} :
        /\ ~Locked(r.table, i)
        /\ req' = [req EXCEPT ![p].id = i, ![p].pc = IF Audited(r) THEN "audit" ELSE "commit",
                     ![p].new = IF Deletes(r) THEN [tbl[r.table][i] EXCEPT !.deleted = TRUE]
                                ELSE Merged(tbl[r.table][i], r)]
  BY DEF Write
<1> DEFINE row == tbl[r.table][i]
           to == IF Audited(r) THEN "audit" ELSE "commit"
           new == IF Deletes(r) THEN [row EXCEPT !.deleted = TRUE] ELSE Merged(row, r)
           s == [r EXCEPT !.id = i, !.pc = to, !.new = new]
<1>4. req' = [req EXCEPT ![p] = s]
  BY <1>3
<1>5. /\ i \in Ids /\ (Inserts(r) => ~Exists(r.table, i) /\ r.id = Null)
      /\ (~Inserts(r) => i = r.id /\ Exists(r.table, i))
  BY <1>1 DEF Free, Planned, Placed, InTx
<1>6. row \in Row /\ new \in Row
  BY <1>1, <1>5, Rows, MergedTypes DEF Base, Request
<1>7. to \in {"audit", "commit"}
  OBVIOUS
<1>8. new = IF Deletes(r) THEN [row EXCEPT !.deleted = TRUE] ELSE Merged(row, r)
  OBVIOUS
<1> HIDE DEF to, new
<1>9. /\ s \in Request /\ s.pc = to /\ s.op = r.op /\ s.table = r.table /\ s.id = i
      /\ s.old = r.old /\ s.data = r.data /\ s.slug = r.slug /\ s.cut = r.cut
      /\ s.during = r.during /\ s.new = new
  BY <1>1, <1>5, <1>6, <1>7 DEF Request, Labels, Optionally
<1> HIDE DEF s
<1>10. Merged(row, s) = Merged(row, r) /\ Deletes(s) = Deletes(r) /\ Inserts(s) = Inserts(r)
  BY <1>9 DEF Merged, Deletes, Inserts
<1>11. s.new = Written(s)
  BY <1>8, <1>9, <1>10 DEF Written
<1> HIDE DEF r
<1>12. Planned(s)
  BY <1>1, <1>7, <1>9, <1>10 DEF Planned, InTx
<1>13. Placed(s)
  BY <1>5, <1>7, <1>9, <1>10, <1>11 DEF Placed, InTx
<1>14. AdvancesAs(r, s)
  BY <1>1, <1>3, <1>5, <1>7, <1>9, <1>12, <1>13
     DEF AdvancesAs, SameRequest, InTx, Late
<1> QED BY <1>2, <1>4, <1>9, <1>14 DEF Advances, r

LEMMA AuditAdvances ==
  ASSUME Base, NEW p \in Handlers, Audit(p)
  PROVE  \E s : Advances(p, s)
<1> DEFINE r == req[p]
<1>1. r \in Request /\ Planned(r) /\ Placed(r) /\ r.pc = "audit"
  BY Known DEF Audit
<1>2. UNCHANGED <<tbl, files, uploads, log, raced, unasked, strays, lost>>
  BY DEF Audit, history
<1>3. PICK fails \in {FALSE, CanFail} :
        req' = [req EXCEPT ![p].pc = "commit", ![p].aborted = fails]
  BY DEF Audit
<1> DEFINE s == [r EXCEPT !.pc = "commit", !.aborted = fails]
<1>4. req' = [req EXCEPT ![p] = s]
  BY <1>3
<1>5. fails \in BOOLEAN
  BY AccountsAssumption DEF AccountsAssumption
<1>6. /\ s \in Request /\ s.pc = "commit" /\ s.op = r.op /\ s.table = r.table /\ s.id = r.id
      /\ s.old = r.old /\ s.data = r.data /\ s.slug = r.slug /\ s.cut = r.cut
      /\ s.during = r.during /\ s.new = r.new
  BY <1>1, <1>5 DEF Request, Labels
<1> HIDE DEF r, s
<1>7. Written(s) = Written(r) /\ Deletes(s) = Deletes(r) /\ Inserts(s) = Inserts(r)
  BY <1>6 DEF Merged, Deletes, Inserts, Written
<1>8. Planned(s)
  BY <1>1, <1>6, <1>7 DEF Planned, InTx
<1>9. Placed(s)
  BY <1>1, <1>6, <1>7 DEF Placed, InTx
<1>10. AdvancesAs(r, s)
  BY <1>1, <1>6, <1>8, <1>9 DEF AdvancesAs, SameRequest, InTx, Late
<1> QED BY <1>2, <1>4, <1>6, <1>10 DEF Advances, r

\* A step of the system is one of five kinds.
Commits(p) == Commit(p) /\ ~req[p].aborted

LEMMA Stepping ==
  ASSUME Base, Next
  PROVE  \E p \in Handlers :
           \/ req[p].pc = "idle" /\ \E r, up : up \in BOOLEAN /\ Starts(p, r, up)
           \/ \E s : Advances(p, s)
           \/ Ends(p)
           \/ Commits(p)
           \/ GrantPermissions(p)
<1> PICK p \in Handlers : Start(p) \/ Step(p)
  BY DEF Next
<1>1. CASE Start(p)
  BY <1>1, Starting
<1>2. CASE CheckEmail(p) \/ FindRole(p) \/ TrySlug(p) \/ ReplaceAvatar(p) \/ CountRoleUsers(p)
           \/ Write(p) \/ Audit(p)
  BY <1>2, EmailAdvances, RoleAdvances, SlugAdvances, AvatarAdvances, CountAdvances,
     WriteAdvances, AuditAdvances, Zenon
<1>3. CASE Fail(p)
  BY <1>3 DEF Fail, Ends
<1>4. CASE Commit(p)
  BY <1>4 DEF Commit, Commits, Ends
<1>5. CASE GrantPermissions(p)
  BY <1>5
<1> QED BY <1>1, <1>2, <1>3, <1>4, <1>5 DEF Step

-----------------------------------------------------------------------------
(***************************************************************************)
(* Base is inductive.                                                      *)
(***************************************************************************)
\* Placed, for the tables T.
PlacedIn(T, r) ==
  /\ r.pc = "grant" => T["role"][r.id].name # Null
  /\ r.pc # "idle" /\ ~Inserts(r) => r.id \in Ids /\ T[r.table][r.id].name # Null
  /\ InTx(r) => /\ r.id \in Ids
                /\ r.new = IF Deletes(r) THEN [T[r.table][r.id] EXCEPT !.deleted = TRUE]
                           ELSE Merged(T[r.table][r.id], r)
                /\ Inserts(r) => T[r.table][r.id].name = Null

LEMMA Placing ==
  ASSUME NEW r
  PROVE  Placed(r) <=> PlacedIn(tbl, r)
BY DEF Placed, PlacedIn, Exists, Written

LEMMA PlannedNext ==
  ASSUME NEW q
  PROVE  Planned(req[q])' <=> Planned(req'[q])
BY DEF Planned, Inserts, Deletes, InTx, Renamed

LEMMA PlacedNext ==
  ASSUME NEW q
  PROVE  Placed(req[q])' <=> PlacedIn(tbl', req'[q])
BY DEF Placed, PlacedIn, Inserts, Deletes, InTx, Merged, Sent, Exists, Written

LEMMA IdleKnown == Planned(Idle) /\ \A T : PlacedIn(T, Idle)
BY Distinct DEF Planned, PlacedIn, Idle, RoleOps, Inserts, Deletes, InTx, NoData

LEMMA BaseMoves ==
  ASSUME Base, NEW p \in Handlers, NEW s \in Request, Planned(s), Placed(s),
         InTx(s) => \/ InTx(req[p]) /\ s.table = req[p].table /\ s.id = req[p].id
                    \/ ~Locked(s.table, s.id),
         req' = [req EXCEPT ![p] = s], UNCHANGED <<tbl, log>>,
         uploads' \in Nat, files' \in SUBSET Nat
  PROVE  Base'
<1>1. Types'
  BY DEF Base, Types
<1>2. Blank'
  BY DEF Base, Blank, Exists
<1>3. req'[p] = s /\ \A q \in Handlers \ {p} : req'[q] = req[q]
  BY DEF Base, Types
<1>4. Alone'
  <2> SUFFICES ASSUME NEW a \in Handlers, NEW b \in Handlers, InTransaction(a)', InTransaction(b)',
                      a # b
               PROVE  req'[a].table # req'[b].table \/ req'[a].id # req'[b].id
    BY DEF Alone
  <2> QED BY <1>3 DEF Base, Alone, InTransaction, InTx, Locked
<1>5. ASSUME NEW q \in Handlers PROVE (Planned(req[q]) /\ Placed(req[q]))'
  <2>1. req'[q] = s \/ req'[q] = req[q]
    BY <1>3
  <2>2. Planned(req'[q]) /\ Placed(req'[q])
    BY <2>1, Known
  <2> QED BY <2>2, Placing, PlannedNext, PlacedNext
<1> QED BY <1>1, <1>2, <1>4, <1>5 DEF Base

\* s is r once it is known that the row `me' was committed meanwhile.
Seen(r, s, me) ==
  /\ s \in Request /\ (r.pc = "idle" => s = r)
  /\ s.pc = r.pc /\ s.op = r.op /\ s.table = r.table /\ s.id = r.id /\ s.old = r.old
  /\ s.data = r.data /\ s.slug = r.slug /\ s.cut = r.cut /\ s.new = r.new
  /\ r.pc # "idle" => s.during = r.during \cup {me}

LEMMA Committed ==
  ASSUME Base, NEW p \in Handlers, Commits(p)
  PROVE  LET r == req[p] IN
         /\ r.table \in Tables /\ r.id \in Ids /\ r.new \in Row /\ r.new.name # Null
         /\ r.pc = "commit" /\ InTx(r) /\ r.new = Written(r)
         /\ Inserts(r) <=> ~Exists(r.table, r.id)
         /\ tbl' = [tbl EXCEPT ![r.table][r.id] = r.new]
         /\ \A t \in Tables, i \in Ids :
              tbl'[t][i] = IF t = r.table /\ i = r.id THEN r.new ELSE tbl[t][i]
         /\ req' \in [Handlers -> Request] /\ req'[p] = Idle
         /\ \A q \in Handlers \ {p} : Seen(req[q], req'[q], <<r.table, r.id>>)
         /\ UNCHANGED <<uploads, files, lost>>
<1> DEFINE r == req[p]
           me == <<r.table, r.id>>
<1>1. r \in Request /\ Planned(r) /\ Placed(r) /\ r.pc = "commit" /\ InTx(r)
  BY Known DEF Commits, Commit, InTx
<1>2. r.table \in Tables /\ r.id \in Ids /\ r.new \in Row /\ r.new = Written(r)
  BY <1>1 DEF Request, Placed
<1>3. Inserts(r) <=> ~Exists(r.table, r.id)
  BY <1>1 DEF Placed
<1>4. tbl[r.table][r.id] \in Row
  BY <1>2, Rows DEF Base
<1>5. r.new.name # Null
  <2>1. CASE Deletes(r)
    <3>1. r.new = [tbl[r.table][r.id] EXCEPT !.deleted = TRUE]
      BY <1>2, <2>1 DEF Written
    <3>2. ~Inserts(r)
      BY <2>1 DEF Inserts, Deletes
    <3> QED BY <1>3, <1>4, <3>1, <3>2 DEF Row, Exists
  <2>2. CASE ~Deletes(r)
    <3>1. r.new.name = Sent(r.data.name, tbl[r.table][r.id].name)
      BY <1>2, <1>4, <2>2 DEF Written, Merged, Row
    <3> QED BY <1>1, <1>3, <3>1, SMTT(20) DEF Planned, Sent, Exists
  <2> QED BY <2>1, <2>2
<1>6. tbl' = [tbl EXCEPT ![r.table][r.id] = r.new] /\ UNCHANGED <<uploads, files, lost>>
  BY DEF Commits, Commit
<1>7. \A t \in Tables, i \in Ids :
        tbl'[t][i] = IF t = r.table /\ i = r.id THEN r.new ELSE tbl[t][i]
  BY <1>2, <1>6 DEF Base, Types
<1>8. req' = [q \in Handlers |-> IF q = p THEN Idle
                                 ELSE IF req[q].pc = "idle" THEN req[q]
                                 ELSE [req[q] EXCEPT !.during = @ \cup {me}]]
  BY DEF Commits, Commit
<1>9. ASSUME NEW q \in Handlers \ {p} PROVE Seen(req[q], req'[q], me)
  <2>1. req[q] \in Request /\ me \in Tables \X Ids
    BY <1>2, Known
  <2>2. req'[q] = IF req[q].pc = "idle" THEN req[q] ELSE [req[q] EXCEPT !.during = @ \cup {me}]
    BY <1>8
  <2> HIDE DEF me, r
  <2> QED BY <2>1, <2>2 DEF Seen, Request
<1>10. req'[p] = Idle
  BY <1>8
<1>11. \A q \in Handlers : req'[q] \in Request
  BY <1>9, <1>10, Empty DEF Seen
<1>12. req' \in [Handlers -> Request]
  BY <1>8, <1>11
<1> QED BY <1>1, <1>2, <1>3, <1>5, <1>6, <1>7, <1>9, <1>10, <1>12

LEMMA Granted ==
  ASSUME Base, NEW p \in Handlers, GrantPermissions(p)
  PROVE  LET r == req[p] IN
         /\ r.id \in Ids /\ r.pc = "grant" /\ r.table = "role" /\ r.cut = Null /\ Exists("role", r.id)
         /\ ~Locked("role", r.id)
         /\ tbl' \in [Tables -> [Ids -> Row]]
         /\ \A t \in Tables, i \in Ids :
              /\ t # "role" \/ i # r.id => tbl'[t][i] = tbl[t][i]
              /\ \A f \in DOMAIN NoRow : f # "access" => tbl'[t][i][f] = tbl[t][i][f]
         /\ tbl'["role"][r.id].access = tbl["role"][r.id].access \cup r.missing
         /\ req' = [req EXCEPT ![p] = Idle]
         /\ UNCHANGED <<log, files, uploads, raced, unasked, strays, lost>>
<1> DEFINE r == req[p]
<1>1. r \in Request /\ Planned(r) /\ Placed(r) /\ r.pc = "grant"
  BY Known DEF GrantPermissions
<1>2. r.id \in Ids /\ r.table = "role" /\ Exists("role", r.id) /\ r.cut = Null
  BY <1>1 DEF Planned, Placed, RoleOps
<1>3. tbl' = [tbl EXCEPT !["role"][r.id].access = @ \cup r.missing]
  BY DEF GrantPermissions
<1>4. \A t \in Tables, i \in Ids : tbl'[t][i] = IF t = "role" /\ i = r.id
          THEN [tbl[t][i] EXCEPT !.access = @ \cup r.missing] ELSE tbl[t][i]
  BY <1>2, <1>3 DEF Base, Types, Tables
<1>5. \A t \in Tables, i \in Ids : tbl[t][i] \in Row
  BY Rows DEF Base
<1>6. r.missing \in SUBSET Perms
  BY <1>1 DEF Request
<1>7. ASSUME NEW t \in Tables, NEW i \in Ids PROVE tbl'[t][i] \in Row
  <2>1. tbl[t][i] \in Row
    BY <1>5
  <2>2. [tbl[t][i] EXCEPT !.access = @ \cup r.missing] \in Row
    <3> DEFINE row == tbl[t][i]
               more == r.missing
    <3> HIDE DEF row, more, r
    <3>1. row \in Row /\ more \in SUBSET Perms
      BY <1>6, <2>1 DEF row, more
    <3>2. row.access \cup more \in SUBSET Perms
      BY <3>1 DEF Row
    <3>3. [row EXCEPT !.access = row.access \cup more] \in Row
      BY <3>1, <3>2 DEF Row
    <3> QED BY <3>3 DEF row, more
  <2> QED BY <1>4, <2>1, <2>2
<1>8. tbl' \in [Tables -> [Ids -> Row]]
  BY <1>2, <1>3, <1>7 DEF Base, Types, Tables
<1>9. \A t \in Tables, i \in Ids :
              /\ t # "role" \/ i # r.id => tbl'[t][i] = tbl[t][i]
              /\ \A f \in DOMAIN NoRow : f # "access" => tbl'[t][i][f] = tbl[t][i][f]
  BY <1>4, <1>5 DEF Row, NoRow
<1>10. tbl'["role"][r.id].access = tbl["role"][r.id].access \cup r.missing
  BY <1>2, <1>4, <1>5 DEF Row, Tables
<1> QED BY <1>1, <1>2, <1>8, <1>9, <1>10 DEF GrantPermissions, Finish, history

LEMMA NextBase == Base /\ [Next]_vars => Base'
<1> SUFFICES ASSUME Base, [Next]_vars PROVE Base'
  OBVIOUS
<1>1. CASE UNCHANGED vars
  BY <1>1 DEF vars, Base, Types, Blank, Alone, InTransaction, Exists, Planned, Placed, Written
<1>2. ASSUME NEW p \in Handlers, NEW r, NEW up \in BOOLEAN, Starts(p, r, up), req[p].pc = "idle"
      PROVE  Base'
  <2>1. r \in Request /\ Planned(r) /\ Placed(r) /\ ~InTx(r)
    BY <1>2 DEF Starts, StartsAs
  <2>2. uploads' \in Nat /\ files' \in SUBSET Nat /\ UNCHANGED <<tbl, log>>
        /\ req' = [req EXCEPT ![p] = r]
    BY <1>2 DEF Starts, Base, Types
  <2> QED BY <2>1, <2>2, BaseMoves
<1>3. ASSUME NEW p \in Handlers, NEW s, Advances(p, s) PROVE Base'
  <2>1. s \in Request /\ Planned(s) /\ Placed(s) /\ s.table = req[p].table
        /\ (InTx(s) /\ ~InTx(req[p]) => ~Locked(s.table, s.id)) /\ (InTx(req[p]) => s.id = req[p].id)
    BY <1>3 DEF Advances, AdvancesAs, SameRequest
  <2>2. uploads' \in Nat /\ files' \in SUBSET Nat /\ UNCHANGED <<tbl, log>>
        /\ req' = [req EXCEPT ![p] = s]
    BY <1>3 DEF Advances, Base, Types
  <2> QED BY <2>1, <2>2, BaseMoves
<1>4. ASSUME NEW p \in Handlers, Ends(p) PROVE Base'
  <2>1. Planned(Idle) /\ Placed(Idle) /\ ~InTx(Idle)
    BY IdleKnown, Placing DEF InTx, Idle
  <2>2. uploads' \in Nat /\ files' \in SUBSET Nat /\ UNCHANGED <<tbl, log>>
        /\ req' = [req EXCEPT ![p] = Idle]
    BY <1>4 DEF Ends, Finish, Base, Types
  <2> QED BY <2>1, <2>2, BaseMoves, Empty
<1>5. ASSUME NEW p \in Handlers, Commits(p) PROVE Base'
  <2> DEFINE r == req[p]
  <2>1. /\ r.table \in Tables /\ r.id \in Ids /\ r.new \in Row /\ r.new.name # Null
        /\ tbl' = [tbl EXCEPT ![r.table][r.id] = r.new]
        /\ \A t \in Tables, i \in Ids :
              tbl'[t][i] = IF t = r.table /\ i = r.id THEN r.new ELSE tbl[t][i]
        /\ req' \in [Handlers -> Request] /\ req'[p] = Idle
        /\ \A q \in Handlers \ {p} : Seen(req[q], req'[q], <<r.table, r.id>>)
        /\ UNCHANGED <<uploads, files>> /\ InTx(r)
    BY <1>5, Committed
  <2>2. Types'
    <3>1. log' = [t \in Tables |-> [i \in Ids |-> log'[t][i]]]
      <4>1. log = [t \in Tables |-> [i \in Ids |-> log[t][i]]]
        BY DEF Base, Types
      <4>2. \/ log' = log
            \/ log' = [log EXCEPT ![r.table][r.id] = Entry(r)]
        BY <1>5 DEF Commits, Commit
      <4>3. CASE log' = log
        BY <4>1, <4>3
      <4>4. CASE log' = [log EXCEPT ![r.table][r.id] = Entry(r)]
        <5> DEFINE e == Entry(r)
                   k == r.table
                   n == r.id
        <5>1. log' = [log EXCEPT ![k][n] = e] /\ k \in Tables /\ n \in Ids
          BY <2>1, <4>4
        <5> HIDE DEF e, k, n
        <5> QED BY <4>1, <5>1
      <4> QED BY <4>2, <4>3, <4>4
    <3>2. tbl' \in [Tables -> [Ids -> Row]]
      BY <2>1 DEF Base, Types
    <3> QED BY <2>1, <3>1, <3>2 DEF Base, Types
  <2>3. Blank'
    BY <2>1 DEF Base, Blank, Exists
  <2>4. Alone'
    BY <2>1 DEF Base, Alone, InTransaction, Seen, Idle
  <2>5. ASSUME NEW q \in Handlers PROVE (Planned(req[q]) /\ Placed(req[q]))'
    <3>1. CASE q = p
      BY <2>1, <3>1, IdleKnown, PlannedNext, PlacedNext
    <3>2. CASE q # p
      <4> DEFINE old == req[q]
                 now == req'[q]
      <4>1. Planned(old) /\ Placed(old) /\ old \in Request /\ Seen(old, now, <<r.table, r.id>>)
        BY <2>1, <3>2, Known
      <4>2. InTx(old) => old.table # r.table \/ old.id # r.id
        BY <2>1, <3>2 DEF Base, Alone, InTransaction, InTx
      <4>3. \A t \in Tables, i \in Ids : tbl[t][i].name # Null => tbl'[t][i].name # Null
        BY <2>1
      <4>4. InTx(old) => (tbl'[old.table][old.id] = tbl[old.table][old.id])
        BY <2>1, <4>1, <4>2 DEF Placed, Request
      <4> HIDE DEF r, old, now
      <4>5. Planned(now)
        <5>1. CASE old.pc = "idle"
          BY <4>1, <5>1 DEF Seen
        <5>2. CASE old.pc # "idle"
          BY <4>1, <5>2 DEF Seen, Planned, Inserts, Deletes, InTx
        <5> QED BY <5>1, <5>2
      <4>6. /\ Deletes(now) = Deletes(old) /\ Inserts(now) = Inserts(old) /\ InTx(now) = InTx(old)
            /\ \A row : Merged(row, now) = Merged(row, old)
            /\ now.pc = old.pc /\ now.id = old.id /\ now.table = old.table /\ now.new = old.new
        BY <4>1 DEF Seen, Deletes, Inserts, Merged, InTx
      <4>7. PlacedIn(tbl, old) /\ old.table \in Tables /\ (old.pc = "grant" => old.id \in Ids)
        BY <4>1, Placing DEF Request, Planned
      <4>8. PlacedIn(tbl', now)
        BY <4>3, <4>4, <4>6, <4>7 DEF PlacedIn, Tables
      <4> QED BY <4>5, <4>8, PlannedNext, PlacedNext DEF now
    <3> QED BY <3>1, <3>2
  <2> QED BY <2>2, <2>3, <2>4, <2>5 DEF Base
<1>6. ASSUME NEW p \in Handlers, GrantPermissions(p) PROVE Base'
  <2> DEFINE r == req[p]
  <2>1. /\ r.id \in Ids /\ ~Locked("role", r.id) /\ Exists("role", r.id)
        /\ tbl' \in [Tables -> [Ids -> Row]] /\ UNCHANGED <<log, files, uploads>>
        /\ \A t \in Tables, i \in Ids : t # "role" \/ i # r.id => tbl'[t][i] = tbl[t][i]
        /\ req' = [req EXCEPT ![p] = Idle]
    BY <1>6, Granted
  <2>2. \A t \in Tables, i \in Ids : tbl'[t][i].name = tbl[t][i].name
    BY <1>6, Granted DEF NoRow
  <2>3. Types'
    BY <2>1, Empty DEF Base, Types
  <2>4. Blank'
    BY <2>1, <2>2 DEF Base, Blank, Exists
  <2>5. \A q \in Handlers : req'[q] = IF q = p THEN Idle ELSE req[q]
    BY <2>1 DEF Base, Types
  <2>6. Alone'
    BY <2>5 DEF Base, Alone, InTransaction, Idle
  <2>7. ASSUME NEW q \in Handlers PROVE (Planned(req[q]) /\ Placed(req[q]))'
    <3>1. CASE q = p
      BY <2>5, <3>1, IdleKnown, PlannedNext, PlacedNext
    <3>2. CASE q # p
      <4> DEFINE s == req[q]
      <4>1. Planned(s) /\ Placed(s) /\ s \in Request /\ req'[q] = s
        BY <2>5, <3>2, Known
      <4>2. InTx(s) => s.id \in Ids /\ s.table \in Tables /\ (s.table # "role" \/ s.id # r.id)
        BY <2>1, <4>1 DEF Locked, InTransaction, InTx, Placed, Request
      <4>3. InTx(s) => (tbl'[s.table][s.id] = tbl[s.table][s.id])
        BY <2>1, <4>2
      <4> HIDE DEF s, r
      <4>4. PlacedIn(tbl, s) /\ s.table \in Tables /\ (s.pc = "grant" => s.id \in Ids)
        BY <4>1, Placing DEF Request, Planned
      <4>5. PlacedIn(tbl', s)
        BY <2>2, <4>3, <4>4 DEF PlacedIn, Tables
      <4> QED BY <4>1, <4>5, PlannedNext, PlacedNext DEF s
    <3> QED BY <3>1, <3>2
  <2> QED BY <2>3, <2>4, <2>6, <2>7 DEF Base
<1> QED BY <1>1, <1>2, <1>3, <1>4, <1>5, <1>6, Stepping

LEMMA BaseHolds == Spec => []Base
BY InitBase, NextBase, PTL DEF Spec

-----------------------------------------------------------------------------
(***************************************************************************)
(* What a transaction makes of its row, and the fields it leaves alone.    *)
(***************************************************************************)
LEMMA Columns ==
  ASSUME NEW row \in Row
  PROVE  DOMAIN row = {"name", "email", "slug", "role", "avatar", "access", "deleted"}
BY DEF Row

LEMMA MergedFields ==
  ASSUME NEW row \in Row, NEW r
  PROVE  LET new == Merged(row, r) IN
         /\ new.name = Sent(r.data.name, row.name) /\ new.email = Sent(r.data.email, row.email)
         /\ new.role = Sent(r.data.role, row.role) /\ new.avatar = Sent(r.data.avatar, row.avatar)
         /\ new.access = Sent(r.data.access, row.access) /\ new.slug = Sent(r.slug, row.slug)
         /\ new.deleted = row.deleted
BY DEF Row, Merged

\* The fields of the row a transaction commits.
LEMMA NewRow ==
  ASSUME Base, NEW p \in Handlers, Commits(p)
  PROVE  LET r == req[p]
             row == tbl[r.table][r.id]
             new == r.new IN
         /\ row \in Row /\ new \in Row
         /\ Deletes(r) => /\ new.deleted /\ new.name = row.name /\ new.email = row.email
                          /\ new.role = row.role /\ new.avatar = row.avatar /\ new.slug = row.slug
                          /\ new.access = row.access
         /\ ~Deletes(r) =>
              /\ new.deleted = row.deleted
              /\ new.name = Sent(r.data.name, row.name) /\ new.email = Sent(r.data.email, row.email)
              /\ new.role = Sent(r.data.role, row.role)
              /\ new.avatar = Sent(r.data.avatar, row.avatar)
              /\ new.access = Sent(r.data.access, row.access)
              /\ new.slug = Sent(r.slug, row.slug)
<1> DEFINE r == req[p]
           row == tbl[r.table][r.id]
           new == r.new
<1>1. row \in Row /\ new \in Row
  BY Committed, Rows DEF Base
<1>2. new = IF Deletes(r) THEN [row EXCEPT !.deleted = TRUE] ELSE Merged(row, r)
  BY Committed DEF Written
<1> HIDE DEF r, row, new
<1>3. Deletes(r) => /\ new.deleted /\ new.name = row.name /\ new.email = row.email
                    /\ new.role = row.role /\ new.avatar = row.avatar /\ new.slug = row.slug
                    /\ new.access = row.access
  BY <1>1, <1>2 DEF Row
<1>4. ~Deletes(r) =>
        /\ new.deleted = row.deleted
        /\ new.name = Sent(r.data.name, row.name) /\ new.email = Sent(r.data.email, row.email)
        /\ new.role = Sent(r.data.role, row.role) /\ new.avatar = Sent(r.data.avatar, row.avatar)
        /\ new.access = Sent(r.data.access, row.access) /\ new.slug = Sent(r.slug, row.slug)
  BY <1>1, <1>2, MergedFields
<1> QED BY <1>1, <1>3, <1>4 DEF r, row, new

LEMMA CommitTouches ==
  ASSUME Base, NEW p \in Handlers, Commits(p), ~Inserts(req[p]),
         NEW f \in DOMAIN tbl[req[p].table][req[p].id],
         req[p].new[f] # tbl[req[p].table][req[p].id][f]
  PROVE  Touches(req[p], f)
<1> DEFINE r == req[p]
           row == tbl[r.table][r.id]
           new == r.new
<1>1. Planned(r)
  BY Known, SMTT(20)
<1>2. /\ row \in Row /\ new[f] # row[f]
      /\ Deletes(r) => /\ new.name = row.name /\ new.email = row.email /\ new.role = row.role
                       /\ new.avatar = row.avatar /\ new.slug = row.slug /\ new.access = row.access
      /\ ~Deletes(r) =>
           /\ new.deleted = row.deleted
           /\ new.name = Sent(r.data.name, row.name) /\ new.email = Sent(r.data.email, row.email)
           /\ new.role = Sent(r.data.role, row.role)
           /\ new.avatar = Sent(r.data.avatar, row.avatar)
           /\ new.access = Sent(r.data.access, row.access)
           /\ new.slug = Sent(r.slug, row.slug)
  BY NewRow
<1>3. f \in {"name", "email", "slug", "role", "avatar", "access", "deleted"}
  BY <1>2, Columns
<1> HIDE DEF r, row, new
<1>4. CASE Deletes(r)
  <2>1. f = "deleted"
    BY <1>2, <1>3, <1>4
  <2> QED BY <1>4, <2>1 DEF Touches, r
<1>5. CASE ~Deletes(r)
  <2>1. f # "deleted"
    BY <1>2, <1>5
  <2>2. CASE f = "slug"
    <3>1. r.slug # Null
      BY <1>2, <1>5, <2>2 DEF Sent
    <3> QED BY <1>1, <2>2, <3>1 DEF Planned, Touches, r
  <2>3. CASE f \notin {"slug", "deleted"}
    <3>1. r.data[f] # Null
      BY <1>2, <1>3, <1>5, <2>3 DEF Sent
    <3> QED BY <2>3, <3>1 DEF Touches, r
  <2> QED BY <2>1, <2>2, <2>3
<1> QED BY <1>4, <1>5

\* Whatever was committed between a request's reads and its write, a change
\* alters only what the request sent, and a seed run only adds permissions.
THEOREM EditsAreKept == Spec => EditsKept
<1> DEFINE Allowed(p, t, i, f) ==
             IF req[p].pc = "grant"
               THEN /\ f = "access" /\ tbl[t][i][f] \subseteq tbl'[t][i][f]
                    /\ tbl'[t][i][f] \ tbl[t][i][f] \subseteq req[p].missing
               ELSE Touches(req[p], f)
           A == \A t \in Tables, i \in Ids :
                  Exists(t, i) /\ tbl'[t][i] # tbl[t][i] =>
                    \E p \in Handlers :
                      /\ req[p].table = t /\ req[p].id = i /\ req'[p].pc = "idle"
                      /\ \A f \in DOMAIN tbl[t][i] :
                           tbl'[t][i][f] # tbl[t][i][f] => Allowed(p, t, i, f)
<1>1. ASSUME Base, [Next]_vars PROVE A
  <2>1. CASE UNCHANGED tbl
    BY <2>1
  <2>2. ASSUME NEW p \in Handlers, Commits(p) PROVE A
    <3> SUFFICES ASSUME NEW t \in Tables, NEW i \in Ids, Exists(t, i), tbl'[t][i] # tbl[t][i]
                 PROVE  /\ req[p].table = t /\ req[p].id = i /\ req'[p].pc = "idle"
                        /\ \A f \in DOMAIN tbl[t][i] :
                             tbl'[t][i][f] # tbl[t][i][f] => Allowed(p, t, i, f)
      OBVIOUS
    <3>0. /\ \A u \in Tables, j \in Ids : tbl'[u][j] =
                IF u = req[p].table /\ j = req[p].id THEN req[p].new ELSE tbl[u][j]
          /\ Inserts(req[p]) <=> ~Exists(req[p].table, req[p].id)
          /\ req'[p] = Idle /\ req[p].pc = "commit"
      BY <1>1, <2>2, Committed
    <3>1. /\ req[p].table = t /\ req[p].id = i /\ tbl'[t][i] = req[p].new
          /\ req'[p] = Idle /\ ~Inserts(req[p]) /\ req[p].pc = "commit"
      BY <3>0
    <3>2. \A f \in DOMAIN tbl[t][i] : tbl'[t][i][f] # tbl[t][i][f] => Touches(req[p], f)
      BY <1>1, <2>2, <3>1, CommitTouches
    <3> QED BY <3>1, <3>2 DEF Idle
  <2>3. ASSUME NEW p \in Handlers, GrantPermissions(p) PROVE A
    <3> SUFFICES ASSUME NEW t \in Tables, NEW i \in Ids, Exists(t, i), tbl'[t][i] # tbl[t][i]
                 PROVE  /\ req[p].table = t /\ req[p].id = i /\ req'[p].pc = "idle"
                        /\ \A f \in DOMAIN tbl[t][i] :
                             tbl'[t][i][f] # tbl[t][i][f] => Allowed(p, t, i, f)
      OBVIOUS
    <3>1. /\ t = "role" /\ i = req[p].id /\ req[p].table = "role" /\ req[p].pc = "grant"
          /\ \A f \in DOMAIN NoRow : f # "access" => tbl'[t][i][f] = tbl[t][i][f]
          /\ tbl'[t][i].access = tbl[t][i].access \cup req[p].missing
          /\ req' = [req EXCEPT ![p] = Idle]
      BY <1>1, <2>3, Granted
    <3>2. req'[p].pc = "idle"
      BY <1>1, <3>1 DEF Base, Types, Idle
    <3>3. DOMAIN tbl[t][i] = DOMAIN NoRow
      BY <1>1, Rows, Columns, Empty DEF Base
    <3> QED BY <3>1, <3>2, <3>3
  <2>4. UNCHANGED tbl \/ \E p \in Handlers : Commits(p) \/ GrantPermissions(p)
    BY <1>1, Stepping DEF vars, Starts, Advances, Ends
  <2> HIDE DEF A
  <2> QED BY <2>1, <2>2, <2>3, <2>4
<1> QED BY <1>1, BaseHolds, PTL DEF Spec, EditsKept

-----------------------------------------------------------------------------
(***************************************************************************)
(* The activity log.                                                       *)
(***************************************************************************)
NamesColumns == \A t \in Tables, i \in Ids : log[t][i] # Null => DOMAIN log[t][i] \subseteq DOMAIN NoRow

\* A row and its log entry are written by one transaction.
LEMMA CommitLogs ==
  ASSUME Base, LogDescribesRow, NamesColumns, NEW p \in Handlers, Commits(p)
  PROVE  LogDescribesRow' /\ NamesColumns'
<1> DEFINE r == req[p]
<1>1. /\ r.table \in Tables /\ r.id \in Ids /\ r.new \in Row /\ r.new.name # Null
      /\ r.new = Written(r)
      /\ Inserts(r) <=> ~Exists(r.table, r.id)
      /\ \A t \in Tables, i \in Ids :
           tbl'[t][i] = IF t = r.table /\ i = r.id THEN r.new ELSE tbl[t][i]
  BY Committed
<1>2. log' = IF Audited(r) THEN [log EXCEPT ![r.table][r.id] = Entry(r)] ELSE log
  BY DEF Commits, Commit
<1>3. \A t \in Tables, i \in Ids :
        log'[t][i] = IF t = r.table /\ i = r.id /\ Audited(r) THEN Entry(r) ELSE log[t][i]
  BY <1>1, <1>2 DEF Base, Types
<1>4. /\ \A f \in DOMAIN Entry(r) : Entry(r)[f] = r.new[f]
      /\ DOMAIN Entry(r) = {} => Deletes(r)
  BY DEF Entry
<1>5. Deletes(r) => r.new.deleted
  BY NewRow
<1>6. ~Audited(r) => Inserts(r)
  BY DEF Audited, Inserts
<1>9. NamesColumns'
  <2>1. DOMAIN Entry(r) \subseteq DOMAIN NoRow
    BY DEF Entry, NoRow
  <2> QED BY <1>3, <2>1 DEF NamesColumns
<1> SUFFICES ASSUME NEW t \in Tables, NEW i \in Ids, log'[t][i] # Null
             PROVE  /\ tbl'[t][i].name # Null
                    /\ DOMAIN log'[t][i] = {} => tbl'[t][i].deleted
                    /\ \A f \in DOMAIN log'[t][i] :
                         IF f = "access" THEN log'[t][i][f] \subseteq tbl'[t][i][f]
                         ELSE log'[t][i][f] = tbl'[t][i][f]
  BY <1>9 DEF LogDescribesRow, Exists
<1>7. CASE t = r.table /\ i = r.id
  <2>1. Audited(r)
    BY <1>1, <1>3, <1>6, <1>7 DEF LogDescribesRow
  <2>2. log'[t][i] = Entry(r) /\ tbl'[t][i] = r.new
    BY <1>1, <1>3, <1>7, <2>1
  <2> QED BY <1>1, <1>4, <1>5, <2>2
<1>8. CASE ~(t = r.table /\ i = r.id)
  <2>1. log'[t][i] = log[t][i] /\ tbl'[t][i] = tbl[t][i]
    BY <1>1, <1>3, <1>8
  <2> QED BY <2>1 DEF LogDescribesRow, Exists
<1> QED BY <1>7, <1>8

\* The audit trail and the tables agree, however requests overlap or fail.
THEOREM LogAgrees == Spec => []LogDescribesRow
<1>1. Init => LogDescribesRow /\ NamesColumns
  BY DEF Init, LogDescribesRow, NamesColumns
<1>2. ASSUME Base, LogDescribesRow, NamesColumns, [Next]_vars
      PROVE  LogDescribesRow' /\ NamesColumns'
  <2>1. CASE UNCHANGED <<tbl, log>>
    BY <1>2, <2>1 DEF LogDescribesRow, NamesColumns, Exists
  <2>2. ASSUME NEW p \in Handlers, GrantPermissions(p) PROVE LogDescribesRow' /\ NamesColumns'
    <3> DEFINE r == req[p]
    <3>1. /\ log' = log /\ r.id \in Ids
          /\ \A t \in Tables, i \in Ids :
               /\ t # "role" \/ i # r.id => tbl'[t][i] = tbl[t][i]
               /\ \A f \in DOMAIN NoRow : f # "access" => tbl'[t][i][f] = tbl[t][i][f]
          /\ tbl'["role"][r.id].access = tbl["role"][r.id].access \cup r.missing
      BY <1>2, <2>2, Granted
    <3> SUFFICES ASSUME NEW t \in Tables, NEW i \in Ids, log[t][i] # Null
                 PROVE  /\ tbl'[t][i].name # Null
                        /\ DOMAIN log[t][i] = {} => tbl'[t][i].deleted
                        /\ \A f \in DOMAIN log[t][i] :
                             IF f = "access" THEN log[t][i][f] \subseteq tbl'[t][i][f]
                             ELSE log[t][i][f] = tbl'[t][i][f]
      BY <1>2, <3>1 DEF LogDescribesRow, NamesColumns, Exists
    <3>2. /\ tbl[t][i].name # Null
          /\ DOMAIN log[t][i] = {} => tbl[t][i].deleted
          /\ \A f \in DOMAIN log[t][i] :
                IF f = "access" THEN log[t][i][f] \subseteq tbl[t][i][f]
                ELSE log[t][i][f] = tbl[t][i][f]
      BY <1>2 DEF LogDescribesRow, Exists
    <3>3. tbl'[t][i].name = tbl[t][i].name /\ tbl'[t][i].deleted = tbl[t][i].deleted
      BY <3>1 DEF NoRow
    <3>4. DOMAIN log[t][i] \subseteq DOMAIN NoRow
      BY <1>2 DEF NamesColumns
    <3>5. tbl[t][i].access \subseteq tbl'[t][i].access
      BY <3>1
    <3> HIDE DEF r
    <3> QED BY <3>1, <3>2, <3>3, <3>4, <3>5
  <2>3. UNCHANGED <<tbl, log>> \/ \E p \in Handlers : Commits(p) \/ GrantPermissions(p)
    BY <1>2, Stepping DEF vars, Starts, Advances, Ends
  <2> QED BY <1>2, <2>1, <2>2, <2>3, CommitLogs
<1> QED BY <1>1, <1>2, BaseHolds, PTL DEF Spec

-----------------------------------------------------------------------------
(***************************************************************************)
(* Roles and the users on them.                                            *)
(***************************************************************************)
\* Nobody is put on a role that never existed.
Assigned ==
  /\ \A u \in Ids : tbl["user"][u].role # Null =>
       tbl["user"][u].role \in Ids /\ Exists("role", tbl["user"][u].role)
  /\ \A p \in Handlers : req[p].data.role # Null =>
       req[p].data.role \in Ids /\ Exists("role", req[p].data.role)

\* After its count, deleteRole knows of everybody who has come to the role since.
Counted(p) ==
  req[p].op = "deleteRole" /\ req[p].pc \in {"write", "audit", "commit"} =>
    \A u \in Live("user") : tbl["user"][u].role = req[p].id => <<"user", u>> \in req[p].during

RolesInv == Assigned /\ NoStrandedUsers /\ \A p \in Handlers : Counted(p)

LEMMA CountZero ==
  ASSUME NEW i, CountUsers(i) = 0
  PROVE  \A u \in Live("user") : tbl["user"][u].role # i
<1> DEFINE S == {u \in Live("user") : tbl["user"][u].role = i}
<1>1. IsFiniteSet(Ids)
  BY FS_Interval, AccountsAssumption DEF Ids, AccountsAssumption
<1>2. S \subseteq Ids
  BY DEF Live
<1>3. IsFiniteSet(S)
  BY <1>1, <1>2, FS_Subset
<1>4. Cardinality(S) = 0
  BY DEF CountUsers
<1>5. S = {}
  BY <1>3, <1>4, FS_EmptySet
<1> QED BY <1>5

LEMMA RolesMove ==
  ASSUME Base, RolesInv, NEW p \in Handlers, NEW s \in Request, req' = [req EXCEPT ![p] = s],
         UNCHANGED <<tbl, raced, strays>>,
         s.data.role # Null => s.data.role \in Ids /\ Exists("role", s.data.role),
         s.op = "deleteRole" /\ s.pc \in {"write", "audit", "commit"} =>
           \A u \in Live("user") : tbl["user"][u].role = s.id => <<"user", u>> \in s.during
  PROVE  RolesInv'
<1>1. \A q \in Handlers : req'[q] = IF q = p THEN s ELSE req[q]
  BY DEF Base, Types
<1>2. Assigned'
  BY <1>1 DEF RolesInv, Assigned, Exists
<1>3. NoStrandedUsers'
  BY DEF RolesInv, NoStrandedUsers, Live, Exists, Raced
<1>4. \A q \in Handlers : Counted(q)'
  BY <1>1 DEF RolesInv, Counted, Live, Exists
<1> QED BY <1>2, <1>3, <1>4 DEF RolesInv

LEMMA CommitRoles ==
  ASSUME Base, RolesInv, NEW p \in Handlers, Commits(p)
  PROVE  RolesInv'
<1> DEFINE r == req[p]
           row == tbl[r.table][r.id]
<1>1. /\ r.table \in Tables /\ r.id \in Ids /\ r.new \in Row /\ r.new.name # Null
      /\ r.new = Written(r) /\ r.pc = "commit"
      /\ Inserts(r) <=> ~Exists(r.table, r.id)
      /\ \A t \in Tables, i \in Ids :
           tbl'[t][i] = IF t = r.table /\ i = r.id THEN r.new ELSE tbl[t][i]
      /\ req'[p] = Idle
      /\ \A q \in Handlers \ {p} : Seen(req[q], req'[q], <<r.table, r.id>>)
  BY Committed
<1>2. row \in Row /\ r \in Request /\ Planned(r)
  BY <1>1, Rows, Known DEF Base
<1>3. \/ r.new.role = row.role
      \/ r.data.role # Null /\ r.new.role = r.data.role
  BY NewRow DEF Sent
<1>4. r.data.role # Null /\ ~Deletes(r) => r.new.role = r.data.role
  BY NewRow DEF Sent
<1>5. Deletes(r) => r.new.deleted /\ r.data.role = Null
  BY <1>2, NewRow DEF Planned, NoData
<1>6. ~Deletes(r) => r.new.deleted = row.deleted
  BY NewRow
<1>7. ~Exists(r.table, r.id) => row = NoRow
  BY <1>1 DEF Base, Blank
<1>8. /\ raced' = raced \cup {<<<<r.table, r.id>>, other>> : other \in r.during}
      /\ strays' = IF r.table = "role" \/ r.data.role = Null THEN strays
                   ELSE IF r.data.role \in Live("role") THEN strays \ {r.id}
                   ELSE strays \cup {r.id}
  BY DEF Commits, Commit
<1>9. r.table = "role" => /\ r.op = "deleteRole" <=> Deletes(r)
                          /\ \A u \in Ids : tbl'["user"][u] = tbl["user"][u]
  BY <1>1, <1>2 DEF Planned, Tables
<1>10. r.table = "user" => \A i \in Ids : tbl'["role"][i] = tbl["role"][i]
  BY <1>1 DEF Tables
<1>11. \A t \in Tables, i \in Ids : tbl[t][i].name # Null => tbl'[t][i].name # Null
  BY <1>1
<1>12. Assigned'
  <2>1. ASSUME NEW u \in Ids, tbl'["user"][u].role # Null
        PROVE  LET i == tbl'["user"][u].role IN i \in Ids /\ tbl["role"][i].name # Null
    <3>1. CASE r.table = "user" /\ u = r.id
      <4>1. tbl'["user"][u] = r.new
        BY <1>1, <3>1 DEF Tables
      <4>2. r.new.role # Null
        BY <2>1, <4>1
      <4>3. r.new.role = tbl["user"][u].role \/ (r.data.role # Null /\ r.new.role = r.data.role)
        BY <1>3, <3>1
      <4> HIDE DEF r, row
      <4>4. r.new.role \in Ids /\ tbl["role"][r.new.role].name # Null
        BY <4>2, <4>3 DEF RolesInv, Assigned, Exists, r
      <4> QED BY <4>1, <4>4
    <3>2. CASE ~(r.table = "user" /\ u = r.id)
      <4>1. tbl'["user"][u] = tbl["user"][u]
        BY <1>1, <3>2 DEF Tables
      <4> QED BY <2>1, <4>1 DEF RolesInv, Assigned, Exists
    <3> QED BY <3>1, <3>2
  <2>2. ASSUME NEW q \in Handlers, req'[q].data.role # Null
        PROVE  LET i == req'[q].data.role IN i \in Ids /\ tbl["role"][i].name # Null
    <3>1. q # p
      BY <1>1, <2>2 DEF Idle, NoData
    <3>2. req'[q].data = req[q].data
      BY <1>1, <3>1 DEF Seen
    <3> QED BY <2>2, <3>2 DEF RolesInv, Assigned, Exists
  <2> QED BY <1>11, <2>1, <2>2 DEF Assigned, Exists, Tables
<1>13. NoStrandedUsers'
  <2> SUFFICES ASSUME NEW u \in Live("user")', tbl'["user"][u].role # Null,
                      tbl'["role"][tbl'["user"][u].role].deleted
               PROVE  u \in strays' \/ Raced(<<"user", u>>, <<"role", tbl["user"][u].role>>)'
    BY DEF NoStrandedUsers
  <2> DEFINE i == tbl'["user"][u].role
  <2>1. u \in Ids /\ tbl'["user"][u].name # Null /\ ~tbl'["user"][u].deleted /\ i \in Ids
    BY <1>12 DEF Live, Exists, Assigned
  <2>2. u \in Live("user") /\ tbl["user"][u].role = i /\ tbl["role"][i].deleted =>
          u \in strays \/ Raced(<<"user", u>>, <<"role", i>>)
    BY <2>1 DEF RolesInv, NoStrandedUsers
  <2>3. Raced(<<"user", u>>, <<"role", i>>) =>
          Raced(<<"user", u>>, <<"role", tbl["user"][u].role>>)'
    BY <1>8 DEF Raced
  <2>4. CASE r.table = "role"
    <3>1. u \in Live("user") /\ tbl["user"][u].role = i
      BY <1>9, <2>1, <2>4 DEF Live, Exists
    <3>2. strays' = strays
      BY <1>8, <2>4
    <3>3. CASE i = r.id /\ Deletes(r)
      <4>1. <<"user", u>> \in r.during
        BY <1>1, <1>9, <2>4, <3>1, <3>3 DEF RolesInv, Counted
      <4>2. <<<<"role", i>>, <<"user", u>>>> \in raced'
        BY <1>8, <2>4, <3>3, <4>1
      <4> QED BY <4>2 DEF Raced
    <3>4. CASE ~(i = r.id /\ Deletes(r))
      <4>1. tbl["role"][i].deleted
        BY <1>1, <1>6, <2>1, <2>4, <3>4 DEF Tables
      <4> QED BY <2>2, <2>3, <3>1, <3>2, <4>1
    <3> QED BY <3>3, <3>4
  <2>5. CASE r.table = "user"
    <3>1. tbl["role"][i].deleted
      BY <1>10, <2>1, <2>5
    <3>2. CASE u = r.id
      <4>1. tbl'["user"][u] = r.new /\ ~Deletes(r) /\ ~row.deleted
        BY <1>1, <1>5, <1>6, <2>1, <2>5, <3>2
      <4>2. CASE r.data.role # Null
        <5>1. i = r.data.role /\ i \notin Live("role")
          BY <1>4, <3>1, <4>1, <4>2 DEF Live
        <5> QED BY <1>8, <2>5, <3>2, <4>2, <5>1
      <4>3. CASE r.data.role = Null
        <5>1. row.role = i
          BY <1>3, <4>1, <4>3
        <5>2. Exists("user", u)
          BY <1>7, <2>5, <3>2, <5>1 DEF NoRow
        <5>3. u \in Live("user")
          BY <2>1, <2>5, <3>2, <4>1, <5>2 DEF Live
        <5> QED BY <1>8, <2>2, <2>3, <2>5, <3>1, <3>2, <4>3, <5>1, <5>3
      <4> QED BY <4>2, <4>3
    <3>3. CASE u # r.id
      <4>1. tbl'["user"][u] = tbl["user"][u]
        BY <1>1, <2>1, <3>3 DEF Tables
      <4>2. u \in Live("user") /\ tbl["user"][u].role = i
        BY <2>1, <4>1 DEF Live, Exists
      <4>3. u \in strays => u \in strays'
        BY <1>8, <3>3
      <4> QED BY <2>2, <2>3, <3>1, <4>2, <4>3
    <3> QED BY <3>2, <3>3
  <2> QED BY <1>1, <2>4, <2>5 DEF Tables
<1>14. ASSUME NEW q \in Handlers PROVE Counted(q)'
  <2>1. CASE q = p
    BY <1>1, <2>1 DEF Counted, Idle
  <2>2. CASE q # p
    <3> SUFFICES ASSUME req'[q].op = "deleteRole", req'[q].pc \in {"write", "audit", "commit"},
                        NEW u \in Live("user")', tbl'["user"][u].role = req'[q].id
                 PROVE  <<"user", u>> \in req'[q].during
      BY DEF Counted
    <3>1. /\ req[q].op = "deleteRole" /\ req[q].pc \in {"write", "audit", "commit"}
          /\ req'[q].id = req[q].id /\ req'[q].during = req[q].during \cup {<<r.table, r.id>>}
      BY <1>1, <2>2 DEF Seen
    <3>2. CASE r.table = "user" /\ u = r.id
      BY <3>1, <3>2
    <3>3. CASE ~(r.table = "user" /\ u = r.id)
      <4>1. u \in Ids /\ tbl'["user"][u] = tbl["user"][u]
        BY <1>1, <3>3 DEF Live, Tables
      <4>2. u \in Live("user")
        BY <4>1 DEF Live, Exists
      <4> QED BY <3>1, <4>1, <4>2 DEF RolesInv, Counted
    <3> QED BY <3>2, <3>3
  <2> QED BY <2>1, <2>2
<1> QED BY <1>12, <1>13, <1>14 DEF RolesInv

LEMMA GrantRoles ==
  ASSUME Base, RolesInv, NEW p \in Handlers, GrantPermissions(p)
  PROVE  RolesInv'
<1>1. /\ req' = [req EXCEPT ![p] = Idle] /\ UNCHANGED <<raced, strays>>
      /\ \A i \in Ids : tbl'["user"][i] = tbl["user"][i]
  BY Granted DEF Tables
<1>2. \A t \in Tables, i \in Ids : tbl'[t][i].name = tbl[t][i].name
                                   /\ tbl'[t][i].deleted = tbl[t][i].deleted
  BY Granted DEF NoRow
<1>3. \A q \in Handlers : req'[q] = IF q = p THEN Idle ELSE req[q]
  BY <1>1 DEF Base, Types
<1>4. Assigned'
  BY <1>1, <1>2, <1>3, SMTT(20) DEF RolesInv, Assigned, Exists, Idle, NoData, Tables
<1>5. NoStrandedUsers'
  <2> SUFFICES ASSUME NEW u \in Live("user")', tbl'["user"][u].role # Null,
                      tbl'["role"][tbl'["user"][u].role].deleted
               PROVE  u \in strays' \/ Raced(<<"user", u>>, <<"role", tbl["user"][u].role>>)'
    BY DEF NoStrandedUsers
  <2>1. u \in Live("user") /\ u \in Ids /\ tbl'["user"][u] = tbl["user"][u]
    BY <1>1 DEF Live, Exists
  <2>2. tbl["user"][u].role \in Ids
    BY <2>1 DEF RolesInv, Assigned
  <2>3. tbl["role"][tbl["user"][u].role].deleted
    BY <1>2, <2>1, <2>2 DEF Tables
  <2> QED BY <1>1, <2>1, <2>3 DEF RolesInv, NoStrandedUsers, Raced
<1>6. \A q \in Handlers : Counted(q)'
  BY <1>1, <1>3 DEF RolesInv, Counted, Live, Exists, Idle
<1> QED BY <1>4, <1>5, <1>6 DEF RolesInv

\* Deleting a role strands only users who came to it during or after the deletion.
THEOREM NobodyStranded == Spec => []NoStrandedUsers
<1>1. Init => RolesInv
  <2> SUFFICES ASSUME Init PROVE RolesInv
    OBVIOUS
  <2>1. \A p \in Handlers : req[p] = Idle
    BY DEF Init
  <2>0. NoRow.role = Null
    BY DEF NoRow
  <2>2. /\ \A u \in Ids : tbl["user"][u].role = (IF u = 1 THEN 2 ELSE Null)
        /\ tbl["role"][2].name # Null
        /\ \A i \in Ids : ~tbl["role"][i].deleted
    BY <2>0, InitRows DEF Tables
  <2>3. Assigned
    BY <2>1, <2>2, Distinct DEF Assigned, Exists, Idle, NoData
  <2>4. NoStrandedUsers
    BY <2>2, <2>3 DEF NoStrandedUsers, Assigned, Live
  <2>5. \A p \in Handlers : Counted(p)
    BY <2>1 DEF Counted, Idle
  <2> QED BY <2>3, <2>4, <2>5 DEF RolesInv
<1>2. ASSUME Base, RolesInv, [Next]_vars PROVE RolesInv'
  <2>1. CASE UNCHANGED vars
    BY <1>2, <2>1 DEF vars, RolesInv, Assigned, Counted, NoStrandedUsers, Live, Exists, Raced
  <2>2. ASSUME NEW p \in Handlers, NEW r, NEW up \in BOOLEAN, Starts(p, r, up) PROVE RolesInv'
    BY <1>2, <2>2, RolesMove DEF Starts, StartsAs
  <2>3. ASSUME NEW p \in Handlers, NEW s, Advances(p, s) PROVE RolesInv'
    <3> DEFINE r == req[p]
    <3>1. s \in Request /\ req' = [req EXCEPT ![p] = s] /\ UNCHANGED <<tbl, raced, strays>>
          /\ AdvancesAs(r, s)
      BY <2>3 DEF Advances, AdvancesAs
    <3>2. s.data.role # Null => s.data.role \in Ids /\ Exists("role", s.data.role)
      BY <1>2, <3>1 DEF AdvancesAs, RolesInv, Assigned
    <3>3. ASSUME s.op = "deleteRole", s.pc \in {"write", "audit", "commit"}
          PROVE  \A u \in Live("user") : tbl["user"][u].role = s.id => <<"user", u>> \in s.during
      <4>1. r.op = "deleteRole" /\ s.during = r.during /\ s.id = r.id
        BY <3>1, <3>3 DEF AdvancesAs, SameRequest, Inserts
      <4>2. CASE r.pc = "count"
        BY <3>1, <4>1, <4>2, CountZero DEF AdvancesAs
      <4>3. CASE r.pc # "count"
        <5>1. r.pc \in {"write", "audit", "commit"}
          BY <1>2, <4>1, <4>3, Known DEF Planned
        <5> QED BY <1>2, <4>1, <5>1 DEF RolesInv, Counted
      <4> QED BY <4>2, <4>3
    <3> QED BY <1>2, <3>1, <3>2, <3>3, RolesMove
  <2>4. ASSUME NEW p \in Handlers, Ends(p) PROVE RolesInv'
    <3>1. req' = [req EXCEPT ![p] = Idle] /\ UNCHANGED <<tbl, raced, strays>>
      BY <2>4 DEF Ends, Finish
    <3>2. Idle.data.role = Null /\ Idle.op = "none"
      BY DEF Idle, NoData
    <3> QED BY <1>2, <3>1, <3>2, RolesMove, Empty
  <2> QED BY <1>2, <2>1, <2>2, <2>3, <2>4, Stepping, CommitRoles, GrantRoles
<1>3. RolesInv => NoStrandedUsers
  BY DEF RolesInv
<1> QED BY <1>1, <1>2, <1>3, BaseHolds, PTL DEF Spec

-----------------------------------------------------------------------------
(***************************************************************************)
(* Avatars.  An upload belongs to one request, then to one row.            *)
(***************************************************************************)
AvatarOf(i) == tbl["user"][i].avatar

Owned ==
  \A i \in Ids : AvatarOf(i) # Null =>
    AvatarOf(i) <= uploads /\ \A j \in Ids : AvatarOf(j) = AvatarOf(i) => i = j

\* A request removes only what it is about to replace or delete.
CutForChange(p) ==
  req[p].cut # Null => /\ req[p].cut = req[p].old.avatar /\ req[p].table = "user"
                       /\ req[p].data.avatar # Null \/ Deletes(req[p])

\* The avatar a request has read is nobody else's.
OldOwned(p) ==
  req[p].table = "user" /\ req[p].old.avatar # Null =>
    /\ req[p].old.avatar <= uploads /\ ~Inserts(req[p])
    /\ \A i \in Ids : AvatarOf(i) = req[p].old.avatar => i = req[p].id

\* An upload that is not committed yet is on disk, and known to nobody else.
UploadKept(p) ==
  req[p].data.avatar # Null =>
    /\ req[p].data.avatar \in files /\ req[p].data.avatar <= uploads
    /\ \A i \in Ids : AvatarOf(i) # req[p].data.avatar
    /\ \A q \in Handlers : /\ req[q].table = "user" => req[q].old.avatar # req[p].data.avatar
                           /\ q # p => req[q].data.avatar # req[p].data.avatar

AvatarsInv ==
  /\ Owned /\ AvatarServed
  /\ \A p \in Handlers : CutForChange(p) /\ OldOwned(p) /\ UploadKept(p)

LEMMA AvatarTypes ==
  ASSUME Base
  PROVE  /\ \A i \in Ids : AvatarOf(i) \in Optionally(Nat)
         /\ \A p \in Handlers : /\ req[p].old.avatar \in Optionally(Nat)
                                /\ req[p].data.avatar \in Optionally(Nat)
                                /\ req[p].cut \in Optionally(Nat)
         /\ Null \notin files /\ uploads \in Nat /\ files \subseteq Nat
<1>1. \A i \in Ids : AvatarOf(i) \in Optionally(Nat)
  BY Rows DEF Base, AvatarOf, Row, Tables
<1>2. ASSUME NEW p \in Handlers
      PROVE  /\ req[p].old.avatar \in Optionally(Nat) /\ req[p].data.avatar \in Optionally(Nat)
             /\ req[p].cut \in Optionally(Nat)
  <2>1. req[p] \in Request
    BY Known
  <2>2. req[p].old \in Row /\ req[p].data \in Data /\ req[p].cut \in Optionally(Nat)
    BY <2>1 DEF Request
  <2> QED BY <2>2 DEF Row, Data
<1> QED BY <1>1, <1>2, Distinct DEF Base, Types

LEMMA IdleAvatars ==
  /\ Idle.old.avatar = Null /\ Idle.data.avatar = Null /\ Idle.cut = Null
BY DEF Idle, NoRow, NoData

LEMMA StartAvatars ==
  ASSUME Base, AvatarsInv, NEW p \in Handlers, NEW s, NEW up \in BOOLEAN, Starts(p, s, up),
         req[p].pc = "idle"
  PROVE  AvatarsInv'
<1>1. /\ s \in Request /\ tbl' = tbl /\ lost' = lost
      /\ s.old = NoRow \/ (s.id \in Ids /\ ~Inserts(s) /\ s.old = tbl[s.table][s.id])
      /\ s.data.avatar = IF up THEN uploads + 1 ELSE Null
      /\ s.cut # Null => s.cut = s.old.avatar /\ (s.data.avatar # Null \/ Deletes(s))
      /\ s.table = "role" => s.cut = Null /\ s.data.avatar = Null
      /\ uploads' = IF up THEN uploads + 1 ELSE uploads
      /\ files' = (IF up THEN files \cup {uploads + 1} ELSE files) \ {s.cut}
  BY DEF Starts, StartsAs, Planned
<1>2. \A q \in Handlers : req'[q] = IF q = p THEN s ELSE req[q]
  BY DEF Starts, Base, Types
<1>3. req[p] = Idle
  BY Known DEF Planned
<1>4. /\ \A i \in Ids : AvatarOf(i)' = AvatarOf(i)
      /\ \A i \in Ids : AvatarOf(i) \in Optionally(Nat)
      /\ Null \notin files /\ uploads \in Nat /\ files \subseteq Nat /\ Null \notin Nat
  BY <1>1, AvatarTypes, Distinct DEF AvatarOf
<1>5. s.table = "user" /\ s.old.avatar # Null =>
        /\ s.id \in Ids /\ ~Inserts(s) /\ s.old.avatar = AvatarOf(s.id)
  BY <1>1 DEF NoRow, AvatarOf
<1>6. s.table \in Tables
  BY <1>1 DEF Request
<1>7. s.cut # Null => s.table = "user" /\ s.id \in Ids /\ s.cut = AvatarOf(s.id) /\ s.cut <= uploads
  BY <1>1, <1>5, <1>6 DEF AvatarsInv, Owned, Tables
<1>8. Owned'
  BY <1>1, <1>4 DEF AvatarsInv, Owned, Optionally
<1>9. AvatarServed'
  <2> SUFFICES ASSUME NEW u \in Live("user")', AvatarOf(u)' # Null, AvatarOf(u)' \notin files'
               PROVE  AvatarOf(u)' \in lost' \/ \E q \in Handlers : req'[q].cut = AvatarOf(u)'
    BY DEF AvatarServed, AvatarOf
  <2>1. u \in Live("user") /\ u \in Ids /\ AvatarOf(u)' = AvatarOf(u)
    BY <1>1, <1>4 DEF Live, Exists
  <2>2. CASE AvatarOf(u) = s.cut
    BY <1>2, <2>1, <2>2
  <2>3. CASE AvatarOf(u) # s.cut
    <3>1. AvatarOf(u) \notin files
      BY <1>1, <2>1, <2>3
    <3>2. AvatarOf(u) \in lost \/ \E q \in Handlers : req[q].cut = AvatarOf(u)
      BY <2>1, <3>1 DEF AvatarsInv, AvatarServed, AvatarOf
    <3> QED BY <1>1, <1>2, <1>3, <2>1, <3>2, IdleAvatars
  <2> QED BY <2>2, <2>3
<1>10. ASSUME NEW q \in Handlers PROVE CutForChange(q)'
  <2>1. CASE q = p
    BY <1>1, <1>2, <1>7, <2>1 DEF CutForChange, Deletes
  <2>2. CASE q # p
    BY <1>2, <2>2 DEF AvatarsInv, CutForChange, Deletes
  <2> QED BY <2>1, <2>2
<1>11. ASSUME NEW q \in Handlers PROVE OldOwned(q)'
  <2>1. CASE q = p
    BY <1>1, <1>2, <1>4, <1>5, <2>1 DEF AvatarsInv, Owned, OldOwned, Inserts, Optionally
  <2>2. CASE q # p
    <3>1. OldOwned(q) /\ req'[q] = req[q] /\ req[q].old.avatar \in Optionally(Nat)
      BY <1>2, <2>2, AvatarTypes DEF AvatarsInv
    <3> QED BY <1>1, <1>4, <3>1 DEF OldOwned, Inserts, Optionally
  <2> QED BY <2>1, <2>2
<1>12. ASSUME NEW q \in Handlers PROVE UploadKept(q)'
  <2> SUFFICES ASSUME req'[q].data.avatar # Null
               PROVE  /\ req'[q].data.avatar \in files' /\ req'[q].data.avatar <= uploads'
                      /\ \A i \in Ids : AvatarOf(i) # req'[q].data.avatar
                      /\ \A o \in Handlers :
                           /\ req'[o].table = "user" => req'[o].old.avatar # req'[q].data.avatar
                           /\ o # q => req'[o].data.avatar # req'[q].data.avatar
    BY <1>4 DEF UploadKept
  <2>1. CASE q = p
    <3>1. up /\ req'[q].data.avatar = uploads + 1 /\ uploads' = uploads + 1
      BY <1>1, <1>2, <2>1
    <3>2. uploads + 1 \in files'
      BY <1>1, <1>4, <1>7, <3>1
    <3>3. \A i \in Ids : AvatarOf(i) # uploads + 1
      BY <1>4 DEF AvatarsInv, Owned, Optionally
    <3>4. ASSUME NEW o \in Handlers
          PROVE  /\ req'[o].table = "user" => req'[o].old.avatar # uploads + 1
                 /\ o # q => req'[o].data.avatar # uploads + 1
      <4>1. CASE o = p
        BY <1>2, <1>4, <1>5, <2>1, <3>3, <4>1
      <4>2. CASE o # p
        BY <1>2, <1>4, <4>2, AvatarTypes DEF AvatarsInv, OldOwned, UploadKept, Optionally
      <4> QED BY <4>1, <4>2
    <3> QED BY <1>4, <3>1, <3>2, <3>3, <3>4
  <2>2. CASE q # p
    <3> DEFINE x == req[q].data.avatar
    <3>1. /\ req'[q] = req[q] /\ x # Null /\ UploadKept(q) /\ x \in Nat
      BY <1>2, <2>2, AvatarTypes DEF AvatarsInv, Optionally
    <3>2. /\ x \in files /\ x <= uploads /\ \A i \in Ids : AvatarOf(i) # x
          /\ \A o \in Handlers : /\ req[o].table = "user" => req[o].old.avatar # x
                                 /\ o # q => req[o].data.avatar # x
      BY <3>1 DEF UploadKept
    <3>3. x \in files' /\ x <= uploads'
      BY <1>1, <1>4, <1>7, <3>1, <3>2
    <3>4. /\ s.table = "user" => s.old.avatar # x
          /\ s.data.avatar # x
      BY <1>1, <1>4, <1>5, <3>1, <3>2
    <3> QED BY <1>2, <3>1, <3>2, <3>3, <3>4
  <2> QED BY <2>1, <2>2
<1> QED BY <1>8, <1>9, <1>10, <1>11, <1>12 DEF AvatarsInv

LEMMA AdvanceAvatars ==
  ASSUME Base, AvatarsInv, NEW p \in Handlers, NEW s, Advances(p, s)
  PROVE  AvatarsInv'
<1> DEFINE r == req[p]
<1>1. /\ tbl' = tbl /\ lost' = lost /\ uploads' = uploads
      /\ s.op = r.op /\ s.table = r.table /\ s.old = r.old /\ s.data.avatar = r.data.avatar
      /\ s.id # r.id => Inserts(r)
      /\ s.cut # r.cut => /\ r.cut = Null /\ r.pc = "avatar"
                          /\ s.cut = r.old.avatar /\ r.data.avatar # Null
      /\ files' = IF s.cut = r.cut THEN files ELSE files \ {s.cut}
  BY DEF Advances, AdvancesAs, SameRequest
<1>2. \A q \in Handlers : req'[q] = IF q = p THEN s ELSE req[q]
  BY DEF Advances, Base, Types
<1>3. r.pc = "avatar" => r.table = "user"
  BY Known DEF Planned, RoleOps, Request, Tables
<1>4. \A i \in Ids : AvatarOf(i)' = AvatarOf(i)
  BY <1>1 DEF AvatarOf
<1>5. Owned'
  BY <1>1, <1>4 DEF AvatarsInv, Owned
<1>6. AvatarServed'
  <2> SUFFICES ASSUME NEW u \in Live("user")', AvatarOf(u)' # Null, AvatarOf(u)' \notin files'
               PROVE  AvatarOf(u)' \in lost' \/ \E q \in Handlers : req'[q].cut = AvatarOf(u)'
    BY DEF AvatarServed, AvatarOf
  <2>1. u \in Live("user") /\ u \in Ids /\ AvatarOf(u)' = AvatarOf(u)
    BY <1>1, <1>4 DEF Live, Exists
  <2>2. CASE AvatarOf(u) = s.cut
    BY <1>2, <2>1, <2>2
  <2>3. CASE AvatarOf(u) # s.cut
    <3>1. AvatarOf(u) \notin files
      BY <1>1, <2>1, <2>3
    <3>2. AvatarOf(u) \in lost \/ \E q \in Handlers : req[q].cut = AvatarOf(u)
      BY <2>1, <3>1 DEF AvatarsInv, AvatarServed, AvatarOf
    <3>3. r.cut # AvatarOf(u)
      BY <1>1, <2>1, <2>3
    <3> QED BY <1>1, <1>2, <2>1, <3>2, <3>3
  <2> QED BY <2>2, <2>3
<1>7. ASSUME NEW q \in Handlers PROVE CutForChange(q)'
  <2>1. CASE q = p
    BY <1>1, <1>2, <1>3, <2>1 DEF AvatarsInv, CutForChange, Deletes
  <2>2. CASE q # p
    BY <1>2, <2>2 DEF AvatarsInv, CutForChange, Deletes
  <2> QED BY <2>1, <2>2
<1>8. ASSUME NEW q \in Handlers PROVE OldOwned(q)'
  <2>1. OldOwned(q)
    BY DEF AvatarsInv
  <2>2. CASE q = p
    BY <1>1, <1>2, <1>4, <2>1, <2>2 DEF OldOwned, Inserts
  <2>3. CASE q # p
    BY <1>1, <1>2, <1>4, <2>1, <2>3 DEF OldOwned, Inserts
  <2> QED BY <2>2, <2>3
<1>9. ASSUME NEW q \in Handlers PROVE UploadKept(q)'
  <2> DEFINE x == req[q].data.avatar
  <2>1. \A o \in Handlers : /\ req'[o].table = req[o].table /\ req'[o].old = req[o].old
                            /\ req'[o].data.avatar = req[o].data.avatar
    BY <1>1, <1>2
  <2>2. x # Null =>
          /\ x \in files /\ x <= uploads /\ \A i \in Ids : AvatarOf(i) # x
          /\ \A o \in Handlers : /\ req[o].table = "user" => req[o].old.avatar # x
                                 /\ o # q => req[o].data.avatar # x
    BY DEF AvatarsInv, UploadKept
  <2>3. x # Null => x \in files'
    BY <1>1, <1>3, <2>2
  <2> QED BY <1>1, <1>4, <2>1, <2>2, <2>3 DEF UploadKept
<1> QED BY <1>5, <1>6, <1>7, <1>8, <1>9 DEF AvatarsInv

\* A request ends without a change to the avatars of users.
LEMMA EndAvatars ==
  ASSUME Base, AvatarsInv, NEW p \in Handlers, req' = [req EXCEPT ![p] = Idle],
         UNCHANGED <<files, uploads>>, lost \subseteq lost',
         req[p].cut # Null => req[p].cut \in lost',
         \A i \in Ids : tbl'["user"][i] = tbl["user"][i]
  PROVE  AvatarsInv'
<1>1. \A q \in Handlers : req'[q] = IF q = p THEN Idle ELSE req[q]
  BY DEF Base, Types
<1>2. \A i \in Ids : AvatarOf(i)' = AvatarOf(i)
  BY DEF AvatarOf
<1>3. Owned'
  BY <1>2 DEF AvatarsInv, Owned
<1>4. AvatarServed'
  <2> SUFFICES ASSUME NEW u \in Live("user")', AvatarOf(u)' # Null, AvatarOf(u)' \notin files'
               PROVE  AvatarOf(u)' \in lost' \/ \E q \in Handlers : req'[q].cut = AvatarOf(u)'
    BY DEF AvatarServed, AvatarOf
  <2>1. u \in Live("user") /\ u \in Ids /\ AvatarOf(u)' = AvatarOf(u)
    BY <1>2 DEF Live, Exists
  <2>2. AvatarOf(u) \in lost \/ \E q \in Handlers : req[q].cut = AvatarOf(u)
    BY <2>1 DEF AvatarsInv, AvatarServed, AvatarOf
  <2> QED BY <1>1, <2>1, <2>2
<1>5. ASSUME NEW q \in Handlers PROVE (CutForChange(q) /\ OldOwned(q) /\ UploadKept(q))'
  <2>1. CutForChange(q) /\ OldOwned(q) /\ UploadKept(q)
    BY DEF AvatarsInv
  <2>2. CASE q = p
    BY <1>1, <2>2, IdleAvatars DEF CutForChange, OldOwned, UploadKept
  <2>3. CASE q # p
    <3>1. req'[q] = req[q]
      BY <1>1, <2>3
    <3>2. (CutForChange(q) /\ OldOwned(q))'
      BY <1>2, <2>1, <3>1 DEF CutForChange, OldOwned, Inserts, Deletes
    <3>3. UploadKept(q)'
      <4>1. \A o \in Handlers : req'[o] = req[o]
                                \/ (req'[o].old.avatar = Null /\ req'[o].data.avatar = Null)
        BY <1>1, IdleAvatars
      <4> QED BY <1>2, <2>1, <3>1, <4>1 DEF UploadKept
    <3> QED BY <3>2, <3>3
  <2> QED BY <2>2, <2>3
<1> QED BY <1>3, <1>4, <1>5 DEF AvatarsInv

LEMMA CommitAvatars ==
  ASSUME Base, AvatarsInv, NEW p \in Handlers, Commits(p)
  PROVE  AvatarsInv'
<1> DEFINE r == req[p]
           row == tbl[r.table][r.id]
<1>1. /\ r.table \in Tables /\ r.id \in Ids
      /\ Inserts(r) <=> ~Exists(r.table, r.id)
      /\ \A t \in Tables, i \in Ids :
           tbl'[t][i] = IF t = r.table /\ i = r.id THEN r.new ELSE tbl[t][i]
      /\ req'[p] = Idle /\ UNCHANGED <<uploads, files, lost>>
      /\ \A q \in Handlers \ {p} : Seen(req[q], req'[q], <<r.table, r.id>>)
  BY Committed
<1>2. /\ Deletes(r) => r.new.deleted /\ r.data.avatar = Null
      /\ ~Deletes(r) => r.new.deleted = row.deleted
      /\ r.data.avatar = Null => r.new.avatar = row.avatar
      /\ r.data.avatar # Null => r.new.avatar = r.data.avatar
  BY NewRow, Known DEF Sent, Planned, NoData
<1>3. \A q \in Handlers \ {p} :
        /\ req'[q].table = req[q].table /\ req'[q].old = req[q].old /\ req'[q].data = req[q].data
        /\ req'[q].cut = req[q].cut /\ req'[q].op = req[q].op /\ req'[q].id = req[q].id
  BY <1>1 DEF Seen
<1>4. r.data.avatar # Null => r.table = "user"
  BY <1>1, Known DEF Planned, Tables
<1>5. ~Exists(r.table, r.id) => row.avatar = Null
  BY <1>1 DEF Base, Blank, NoRow
<1>6. \A i \in Ids : AvatarOf(i)' =
        IF r.table = "user" /\ i = r.id /\ r.data.avatar # Null THEN r.data.avatar ELSE AvatarOf(i)
  BY <1>1, <1>2 DEF AvatarOf, Tables
<1>7. r.data.avatar # Null =>
        /\ r.data.avatar \in files /\ r.data.avatar <= uploads
        /\ \A i \in Ids : AvatarOf(i) # r.data.avatar
        /\ \A q \in Handlers : /\ req[q].table = "user" => req[q].old.avatar # r.data.avatar
                               /\ q # p => req[q].data.avatar # r.data.avatar
  BY DEF AvatarsInv, UploadKept
<1>8. Owned'
  BY <1>1, <1>6, <1>7 DEF AvatarsInv, Owned
<1>9. AvatarServed'
  <2> SUFFICES ASSUME NEW u \in Live("user")', AvatarOf(u)' # Null, AvatarOf(u)' \notin files'
               PROVE  AvatarOf(u)' \in lost' \/ \E q \in Handlers : req'[q].cut = AvatarOf(u)'
    BY DEF AvatarServed, AvatarOf
  <2>1. u \in Ids /\ AvatarOf(u)' = AvatarOf(u)
        /\ ~(r.table = "user" /\ u = r.id /\ r.data.avatar # Null)
    BY <1>1, <1>6, <1>7 DEF Live
  <2>2. ~(r.table = "user" /\ u = r.id /\ Deletes(r))
    BY <1>1, <1>2 DEF Live
  <2>3. u \in Live("user")
    <3>1. CASE r.table = "user" /\ u = r.id
      <4>1. Exists("user", u)
        BY <1>5, <2>1, <3>1 DEF AvatarOf
      <4>2. ~tbl["user"][u].deleted
        BY <1>1, <1>2, <2>2, <3>1 DEF Live
      <4> QED BY <2>1, <4>1, <4>2 DEF Live
    <3>2. CASE ~(r.table = "user" /\ u = r.id)
      <4>1. tbl'["user"][u] = tbl["user"][u]
        BY <1>1, <2>1, <3>2 DEF Tables
      <4> QED BY <2>1, <4>1 DEF Live, Exists
    <3> QED BY <3>1, <3>2
  <2>4. AvatarOf(u) \in lost \/ \E q \in Handlers : req[q].cut = AvatarOf(u)
    BY <1>1, <2>1, <2>3 DEF AvatarsInv, AvatarServed, AvatarOf
  <2>5. r.cut # AvatarOf(u)
    <3> SUFFICES ASSUME r.cut = AvatarOf(u) PROVE FALSE
      OBVIOUS
    <3>1. CutForChange(p) /\ OldOwned(p) /\ r.cut # Null
      BY <2>1 DEF AvatarsInv
    <3>2. r.table = "user" /\ r.old.avatar = AvatarOf(u) /\ (r.data.avatar # Null \/ Deletes(r))
      BY <3>1 DEF CutForChange
    <3>3. u = r.id
      BY <2>1, <3>1, <3>2 DEF OldOwned
    <3> QED BY <2>1, <2>2, <3>2, <3>3
  <2> QED BY <1>1, <1>3, <2>1, <2>4, <2>5
<1>10. ASSUME NEW q \in Handlers PROVE (CutForChange(q) /\ OldOwned(q) /\ UploadKept(q))'
  <2>1. CutForChange(q) /\ OldOwned(q) /\ UploadKept(q)
    BY DEF AvatarsInv
  <2>2. CASE q = p
    BY <1>1, <2>2, IdleAvatars DEF CutForChange, OldOwned, UploadKept
  <2>3. CASE q # p
    <3>1. CutForChange(q)'
      BY <1>3, <2>1, <2>3 DEF CutForChange, Deletes
    <3>2. OldOwned(q)'
      BY <1>1, <1>3, <1>6, <1>7, <2>1, <2>3 DEF OldOwned, Inserts
    <3>3. UploadKept(q)'
      <4>1. \A o \in Handlers :
              \/ req'[o].old.avatar = Null /\ req'[o].data.avatar = Null
              \/ /\ req'[o].table = req[o].table /\ req'[o].old = req[o].old
                 /\ req'[o].data = req[o].data
        BY <1>1, <1>3, IdleAvatars
      <4>2. req'[q].data = req[q].data
        BY <1>3, <2>3
      <4> DEFINE x == req[q].data.avatar
      <4>3. x # Null =>
              /\ x \in files /\ x <= uploads /\ \A i \in Ids : AvatarOf(i) # x
              /\ \A o \in Handlers : /\ req[o].table = "user" => req[o].old.avatar # x
                                     /\ o # q => req[o].data.avatar # x
        BY <2>1 DEF UploadKept
      <4>4. x # Null => \A i \in Ids : AvatarOf(i)' # x
        BY <1>6, <2>3, <4>3
      <4> QED BY <1>1, <4>1, <4>2, <4>3, <4>4 DEF UploadKept
    <3> QED BY <3>1, <3>2, <3>3
  <2> QED BY <2>2, <2>3
<1> QED BY <1>8, <1>9, <1>10 DEF AvatarsInv

\* A live user's avatar is served unless a failed or unfinished change removed it.
THEOREM AvatarsServed == Spec => []AvatarServed
<1>1. Init => AvatarsInv
  <2> SUFFICES ASSUME Init PROVE AvatarsInv
    OBVIOUS
  <2>1. \A p \in Handlers : req[p] = Idle
    BY DEF Init
  <2>2. \A i \in Ids : AvatarOf(i) = IF i = 1 THEN 1 ELSE Null
    BY InitRows DEF AvatarOf, NoRow
  <2>3. files = {1} /\ uploads = 1
    BY DEF Init
  <2>4. Owned
    BY <2>2, <2>3 DEF Owned
  <2>5. AvatarServed
    BY <2>2, <2>3 DEF AvatarServed, AvatarOf, Live
  <2>6. \A p \in Handlers : CutForChange(p) /\ OldOwned(p) /\ UploadKept(p)
    BY <2>1, IdleAvatars DEF CutForChange, OldOwned, UploadKept
  <2> QED BY <2>4, <2>5, <2>6 DEF AvatarsInv
<1>2. ASSUME Base, AvatarsInv, [Next]_vars PROVE AvatarsInv'
  <2>1. CASE UNCHANGED vars
    BY <1>2, <2>1 DEF vars, AvatarsInv, Owned, AvatarServed, CutForChange, OldOwned, UploadKept,
                      AvatarOf, Live, Exists, Inserts, Deletes
  <2>2. ASSUME NEW p \in Handlers, Ends(p) PROVE AvatarsInv'
    BY <1>2, <2>2, EndAvatars DEF Ends, Finish, Lose
  <2>3. ASSUME NEW p \in Handlers, GrantPermissions(p) PROVE AvatarsInv'
    <3>1. /\ req' = [req EXCEPT ![p] = Idle] /\ UNCHANGED <<files, uploads, lost>>
          /\ req[p].cut = Null /\ \A i \in Ids : tbl'["user"][i] = tbl["user"][i]
      BY <1>2, <2>3, Granted DEF Tables
    <3> QED BY <1>2, <3>1, EndAvatars
  <2> QED BY <1>2, <2>1, <2>2, <2>3, Stepping, StartAvatars, AdvanceAvatars, CommitAvatars
<1>3. AvatarsInv => AvatarServed
  BY DEF AvatarsInv
<1> QED BY <1>1, <1>2, <1>3, BaseHolds, PTL DEF Spec

-----------------------------------------------------------------------------
(***************************************************************************)
(* Slugs and addresses.                                                    *)
(***************************************************************************)
\* Once makeUniqueSlug has answered, whoever has the slug was committed since.
SlugAsked(p) ==
  req[p].pc \in Late /\ (Inserts(req[p]) \/ req[p].slug # Null) =>
    \A j \in Live(req[p].table) \ {req[p].id} :
      tbl[req[p].table][j].slug = req[p].slug => <<req[p].table, j>> \in req[p].during

\* So it is with an address that was looked up.
EmailAsked(p) ==
  req[p].pc \notin {"idle", "email"} /\ AsksEmail(req[p]) =>
    \A j \in Live("user") \ {req[p].id} :
      tbl["user"][j].email = req[p].data.email => <<"user", j>> \in req[p].during

KeysInv == KeysUnique /\ \A p \in Handlers : SlugAsked(p) /\ EmailAsked(p)

LEMMA KeysMove ==
  ASSUME Base, KeysInv, NEW p \in Handlers, NEW s \in Request, req' = [req EXCEPT ![p] = s],
         UNCHANGED <<raced, unasked>>,
         \A t \in Tables, i \in Ids :
           /\ tbl'[t][i].name = tbl[t][i].name /\ tbl'[t][i].deleted = tbl[t][i].deleted
           /\ tbl'[t][i].slug = tbl[t][i].slug /\ tbl'[t][i].email = tbl[t][i].email,
         s.pc \in Late /\ (Inserts(s) \/ s.slug # Null) =>
           \A j \in Live(s.table) \ {s.id} :
             tbl[s.table][j].slug = s.slug => <<s.table, j>> \in s.during,
         s.pc \notin {"idle", "email"} /\ AsksEmail(s) =>
           \A j \in Live("user") \ {s.id} :
             tbl["user"][j].email = s.data.email => <<"user", j>> \in s.during
  PROVE  KeysInv'
<1>1. \A q \in Handlers : req'[q] = IF q = p THEN s ELSE req[q]
  BY DEF Base, Types
<1>2. \A t \in Tables : Live(t)' = Live(t) /\ Live(t) \subseteq Ids
  BY DEF Live, Exists
<1>3. KeysUnique'
  BY <1>2 DEF KeysInv, KeysUnique, Raced
<1>4. \A q \in Handlers : req'[q].table \in Tables
  BY <1>1, Known DEF Request
<1>5. ASSUME NEW q \in Handlers PROVE SlugAsked(q)'
  <2> SUFFICES ASSUME req'[q].pc \in Late, Inserts(req[q])' \/ req'[q].slug # Null,
                      NEW j \in Live(req'[q].table) \ {req'[q].id},
                      tbl[req'[q].table][j].slug = req'[q].slug
               PROVE  <<req'[q].table, j>> \in req'[q].during
    BY <1>2, <1>4 DEF SlugAsked, Late, Live, Exists
  <2>1. CASE q = p
    BY <1>1, <2>1 DEF Inserts
  <2>2. CASE q # p
    BY <1>1, <2>2 DEF KeysInv, SlugAsked, Inserts
  <2> QED BY <2>1, <2>2
<1>6. ASSUME NEW q \in Handlers PROVE EmailAsked(q)'
  <2> SUFFICES ASSUME req'[q].pc \notin {"idle", "email"}, AsksEmail(req[q])',
                      NEW j \in Live("user") \ {req'[q].id},
                      tbl["user"][j].email = req'[q].data.email
               PROVE  <<"user", j>> \in req'[q].during
    BY <1>2 DEF EmailAsked, Tables
  <2>1. CASE q = p
    BY <1>1, <2>1 DEF AsksEmail, Inserts
  <2>2. CASE q # p
    BY <1>1, <2>2 DEF KeysInv, EmailAsked, AsksEmail, Inserts
  <2> QED BY <2>1, <2>2
<1> QED BY <1>3, <1>5, <1>6 DEF KeysInv

LEMMA CommitKeys ==
  ASSUME Base, KeysInv, NEW p \in Handlers, Commits(p)
  PROVE  KeysInv'
<1> DEFINE r == req[p]
           row == tbl[r.table][r.id]
           me == <<r.table, r.id>>
<1>1. /\ r.table \in Tables /\ r.id \in Ids /\ r.pc = "commit"
      /\ Inserts(r) <=> ~Exists(r.table, r.id)
      /\ \A t \in Tables, i \in Ids :
           tbl'[t][i] = IF t = r.table /\ i = r.id THEN r.new ELSE tbl[t][i]
      /\ req'[p] = Idle
      /\ \A q \in Handlers \ {p} : Seen(req[q], req'[q], me)
  BY Committed
<1>2. /\ Deletes(r) => r.new.deleted
      /\ ~Deletes(r) => /\ r.new.deleted = row.deleted /\ r.new.slug = Sent(r.slug, row.slug)
                        /\ r.new.email = Sent(r.data.email, row.email)
  BY NewRow
<1>3. /\ raced' = raced \cup {<<me, other>> : other \in r.during}
      /\ unasked' = IF AsksEmail(r) THEN unasked \ {r.id}
                    ELSE IF r.new.email # row.email THEN unasked \cup {r.id} ELSE unasked
  BY DEF Commits, Commit
<1>4. /\ r.table = "role" => r.data.email = Null
      /\ Inserts(r) /\ r.table = "user" => r.data.email # Null
  BY Known DEF Planned
<1>5. ~Exists(r.table, r.id) => row.slug = Null
  BY <1>1 DEF Base, Blank, NoRow
<1>6. \A t \in Tables : \A i \in Live(t)' : t # r.table \/ i # r.id =>
        i \in Live(t) /\ tbl'[t][i] = tbl[t][i]
  BY <1>1 DEF Live, Exists
<1>0. PICK k \in Tables, n \in Ids : k = r.table /\ n = r.id
  BY <1>1
<1>7. n \in Live(k)' => ~Deletes(r) /\ (Inserts(r) \/ r.id \in Live(r.table))
  BY <1>0, <1>1, <1>2 DEF Live
<1>8. Deletes(r) \/ AsksEmail(r) \/ r.new.email # row.email \/ ~Inserts(r) \/ r.table = "role"
  BY <1>1, <1>4 DEF AsksEmail, Tables
<1>9. SlugAsked(p) /\ EmailAsked(p)
  BY DEF KeysInv
\* The committed row against another one.
<1>10. ASSUME NEW j \in Live(k)', j # n, n \in Live(k)',
              <<me, <<r.table, j>>>> \notin raced', <<<<r.table, j>>, me>> \notin raced'
       PROVE  /\ r.new.slug # tbl'[k][j].slug
              /\ k = "user" /\ {n, j} \cap unasked' = {} => r.new.email # tbl'[k][j].email
  <2>1. /\ j \in Live(r.table) /\ tbl'[r.table][j] = tbl[r.table][j] /\ ~Deletes(r)
        /\ Inserts(r) \/ r.id \in Live(r.table)
    BY <1>0, <1>1, <1>6, <1>7, <1>10
  <2>2. <<r.table, j>> \notin r.during /\ ~Raced(me, <<r.table, j>>)
    BY <1>0, <1>3, <1>10 DEF Raced
  <2>3. r.new.slug # tbl[r.table][j].slug
    <3>1. CASE Inserts(r) \/ r.slug # Null
      <4>1. r.new.slug = r.slug
        BY <1>1, <1>2, <1>5, <2>1, <3>1 DEF Sent
      <4> QED BY <1>0, <1>1, <1>9, <1>10, <2>1, <2>2, <3>1, <4>1 DEF SlugAsked, Late
    <3>2. CASE ~Inserts(r) /\ r.slug = Null
      <4>1. r.new.slug = row.slug /\ r.id \in Live(r.table)
        BY <1>2, <2>1, <3>2 DEF Sent
      <4> QED BY <1>0, <1>1, <1>10, <2>1, <2>2, <4>1 DEF KeysInv, KeysUnique
    <3> QED BY <3>1, <3>2
  <2>4. ASSUME r.table = "user", {r.id, j} \cap unasked' = {}
        PROVE  r.new.email # tbl[r.table][j].email
    <3>1. CASE AsksEmail(r)
      <4>1. r.new.email = r.data.email
        BY <1>2, <2>1, <3>1 DEF Sent, AsksEmail
      <4> QED BY <1>0, <1>1, <1>9, <1>10, <2>1, <2>2, <2>4, <3>1, <4>1 DEF EmailAsked
    <3>2. CASE ~AsksEmail(r)
      <4>1. r.new.email = row.email /\ unasked' = unasked
        BY <1>3, <2>4, <3>2
      <4>2. r.id \in Live(r.table)
        BY <1>4, <2>1, <2>4, <3>2 DEF AsksEmail
      <4> QED BY <1>0, <1>1, <1>10, <2>1, <2>2, <2>4, <4>1, <4>2 DEF KeysInv, KeysUnique
    <3> QED BY <3>1, <3>2
  <2> QED BY <1>0, <2>1, <2>3, <2>4
<1>11. KeysUnique'
  <2> SUFFICES ASSUME NEW t \in Tables, NEW i \in Live(t)', NEW j \in Live(t)', i # j,
                      <<<<t, i>>, <<t, j>>>> \notin raced', <<<<t, j>>, <<t, i>>>> \notin raced'
               PROVE  /\ tbl'[t][i].slug # tbl'[t][j].slug
                      /\ t = "user" /\ {i, j} \cap unasked' = {} =>
                           tbl'[t][i].email # tbl'[t][j].email
    BY DEF KeysUnique, Raced
  <2>0. tbl'[r.table][r.id] = r.new
    BY <1>1
  <2>1. CASE t = r.table /\ i = r.id
    BY <1>0, <1>10, <2>0, <2>1
  <2>2. CASE t = r.table /\ j = r.id
    <3>1. /\ r.new.slug # tbl'[k][i].slug
          /\ k = "user" /\ {n, i} \cap unasked' = {} => r.new.email # tbl'[k][i].email
      BY <1>0, <1>10, <2>2
    <3>2. {n, i} = {i, j}
      BY <1>0, <2>2
    <3> QED BY <1>0, <2>0, <2>2, <3>1, <3>2
  <2>3. CASE ~(t = r.table /\ r.id \in {i, j})
    <3>1. /\ i \in Live(t) /\ j \in Live(t) /\ tbl'[t][i] = tbl[t][i] /\ tbl'[t][j] = tbl[t][j]
      BY <1>6, <2>3
    <3>2. ~Raced(<<t, i>>, <<t, j>>)
      BY <1>3 DEF Raced
    <3>3. t = "user" /\ {i, j} \cap unasked' = {} => {i, j} \cap unasked = {}
      <4>1. CASE r.table = "user"
        BY <1>3, <2>3, <4>1
      <4>2. CASE r.table = "role"
        <5>1. ~AsksEmail(r)
          BY <1>4, <4>2 DEF AsksEmail
        <5> QED BY <1>3, <5>1
      <4> QED BY <1>1, <4>1, <4>2 DEF Tables
    <3> QED BY <3>1, <3>2, <3>3 DEF KeysInv, KeysUnique
  <2> QED BY <2>1, <2>2, <2>3
<1>12. ASSUME NEW q \in Handlers PROVE SlugAsked(q)' /\ EmailAsked(q)'
  <2>1. CASE q = p
    BY <1>1, <2>1 DEF SlugAsked, EmailAsked, Idle, Late
  <2>2. CASE q # p
    <3> DEFINE was == req[q]
               now == req'[q]
    <3>1. /\ Seen(was, now, me) /\ SlugAsked(q) /\ EmailAsked(q) /\ was.table \in Tables
      BY <1>1, <2>2, Known DEF KeysInv, Request
    <3>2. /\ now.pc = was.pc /\ now.op = was.op /\ now.table = was.table /\ now.id = was.id /\ now.old = was.old
          /\ now.data = was.data /\ now.slug = was.slug /\ (was.pc # "idle" => now.during = was.during \cup {me})
      BY <3>1 DEF Seen
    <3>3. PICK t \in Tables : t = was.table
      BY <3>1
    <3>4. (Inserts(req[q])' <=> Inserts(req[q])) /\ (AsksEmail(req[q])' <=> AsksEmail(req[q]))
      BY <3>2 DEF Inserts, AsksEmail
    <3>5. SlugAsked(q)'
      <4> SUFFICES ASSUME now.pc \in Late, Inserts(req[q]) \/ now.slug # Null,
                          NEW j \in Live(t)', j # now.id, tbl'[t][j].slug = now.slug
                   PROVE  <<t, j>> \in now.during
        BY <3>2, <3>3, <3>4 DEF SlugAsked, Late, Live, Exists
      <4>1. was.pc # "idle"
        BY <3>2 DEF Late
      <4>2. CASE t = r.table /\ j = r.id
        BY <3>2, <4>1, <4>2
      <4>3. CASE ~(t = r.table /\ j = r.id)
        <5>1. j \in Live(t) /\ tbl'[t][j] = tbl[t][j]
          BY <1>6, <4>3
        <5> QED BY <3>1, <3>2, <3>3, <4>1, <5>1 DEF SlugAsked
      <4> QED BY <4>2, <4>3
    <3>6. EmailAsked(q)'
      <4> SUFFICES ASSUME now.pc \notin {"idle", "email"}, AsksEmail(req[q]),
                          NEW j \in Live("user")', j # now.id, tbl'["user"][j].email = now.data.email
                   PROVE  <<"user", j>> \in now.during
        BY <3>4 DEF EmailAsked
      <4>1. was.pc # "idle"
        BY <3>2
      <4>2. CASE "user" = r.table /\ j = r.id
        BY <3>2, <4>1, <4>2
      <4>3. CASE ~("user" = r.table /\ j = r.id)
        <5>1. j \in Live("user") /\ tbl'["user"][j] = tbl["user"][j]
          BY <1>6, <4>3 DEF Tables
        <5> QED BY <3>1, <3>2, <4>1, <5>1 DEF EmailAsked
      <4> QED BY <4>2, <4>3
    <3> QED BY <3>5, <3>6
  <2> QED BY <2>1, <2>2
<1> QED BY <1>11, <1>12 DEF KeysInv

\* Two live rows share a slug, or two live users an address, only after an
\* overlap or a change of address that nobody looked up.
THEOREM KeysStayUnique == Spec => []KeysUnique
<1>1. Init => KeysInv
  <2> SUFFICES ASSUME Init PROVE KeysInv
    OBVIOUS
  <2>1. \A p \in Handlers : req[p] = Idle
    BY DEF Init
  <2>2. Live("user") \subseteq {1} /\ Live("role") \subseteq {1, 2}
    BY InitRows DEF Live, Exists, NoRow
  <2>3. tbl["role"][1].slug # tbl["role"][2].slug
    BY InitRows, SeedAssumption DEF SeedAssumption
  <2>4. KeysUnique
    <3> SUFFICES ASSUME NEW t \in Tables, NEW i \in Live(t), NEW j \in Live(t), i # j
                 PROVE  t = "role" /\ tbl[t][i].slug # tbl[t][j].slug
      BY DEF KeysUnique
    <3>1. t = "role" /\ i \in {1, 2} /\ j \in {1, 2}
      BY <2>2 DEF Tables
    <3> QED BY <2>3, <3>1
  <2>5. \A p \in Handlers : SlugAsked(p) /\ EmailAsked(p)
    BY <2>1 DEF SlugAsked, EmailAsked, Idle, Late
  <2> QED BY <2>4, <2>5 DEF KeysInv
<1>2. ASSUME Base, KeysInv, [Next]_vars PROVE KeysInv'
  <2>1. CASE UNCHANGED vars
    BY <1>2, <2>1 DEF vars, KeysInv, KeysUnique, SlugAsked, EmailAsked, AsksEmail, Inserts,
                      Live, Exists, Raced, Late
  <2>2. ASSUME NEW p \in Handlers, NEW r, NEW up \in BOOLEAN, Starts(p, r, up) PROVE KeysInv'
    <3>1. /\ r \in Request /\ req' = [req EXCEPT ![p] = r] /\ UNCHANGED <<tbl, raced, unasked>>
          /\ r.pc \in Late /\ (Inserts(r) \/ r.slug # Null) => FindBySlug(r.table, r.slug) = {}
          /\ AsksEmail(r) => r.pc = "email"
      BY <2>2 DEF Starts, StartsAs
    <3>2. r.pc \in Late /\ (Inserts(r) \/ r.slug # Null) =>
            \A j \in Live(r.table) \ {r.id} : tbl[r.table][j].slug # r.slug
      BY <3>1 DEF FindBySlug
    <3> QED BY <1>2, <3>1, <3>2, KeysMove
  <2>3. ASSUME NEW p \in Handlers, NEW s, Advances(p, s) PROVE KeysInv'
    <3> DEFINE r == req[p]
    <3>1. s \in Request /\ req' = [req EXCEPT ![p] = s] /\ UNCHANGED <<tbl, raced, unasked>>
          /\ AdvancesAs(r, s)
      BY <2>3 DEF Advances, AdvancesAs
    <3>2. /\ s.op = r.op /\ s.table = r.table /\ s.old = r.old /\ s.during = r.during
          /\ s.data.email = r.data.email /\ Inserts(s) = Inserts(r) /\ AsksEmail(s) = AsksEmail(r)
          /\ s.id # r.id => r.id = Null
      BY <3>1 DEF AdvancesAs, SameRequest, Inserts, AsksEmail
    <3>3. \A t : Null \notin Live(t)
      BY Distinct DEF Live
    <3>4. ASSUME s.pc \in Late, Inserts(s) \/ s.slug # Null,
                 NEW j \in Live(s.table) \ {s.id}, tbl[s.table][j].slug = s.slug
          PROVE  <<s.table, j>> \in s.during
      <4>1. CASE r.pc \in Late
        <5>1. s.slug = r.slug
          BY <3>1, <4>1 DEF AdvancesAs
        <5> QED BY <1>2, <3>2, <3>3, <3>4, <4>1, <5>1 DEF KeysInv, SlugAsked
      <4>2. CASE r.pc \notin Late
        <5>1. FindBySlugExcluding(s.table, s.slug, s.id) = {}
          BY <3>1, <3>4, <4>2 DEF AdvancesAs
        <5> QED BY <3>4, <5>1 DEF FindBySlugExcluding, FindBySlug
      <4> QED BY <4>1, <4>2
    <3>5. ASSUME s.pc \notin {"idle", "email"}, AsksEmail(s),
                 NEW j \in Live("user") \ {s.id}, tbl["user"][j].email = s.data.email
          PROVE  <<"user", j>> \in s.during
      <4>1. CASE r.pc = "email"
        <5>1. FindByEmail(r.data.email) = {}
          BY <3>1, <4>1 DEF AdvancesAs
        <5> QED BY <3>2, <3>5, <5>1 DEF FindByEmail
      <4>2. CASE r.pc # "email"
        <5>1. r.pc # "idle"
          BY <3>1 DEF AdvancesAs
        <5> QED BY <1>2, <3>2, <3>3, <3>5, <4>2, <5>1 DEF KeysInv, EmailAsked
      <4> QED BY <4>1, <4>2
    <3> HIDE DEF r
    <3> QED BY <1>2, <3>1, <3>4, <3>5, KeysMove
  <2>4. ASSUME NEW p \in Handlers, Ends(p) PROVE KeysInv'
    <3>1. req' = [req EXCEPT ![p] = Idle] /\ UNCHANGED <<tbl, raced, unasked>>
      BY <2>4 DEF Ends, Finish
    <3>2. Idle.pc = "idle" /\ Idle.pc \notin Late
      BY DEF Idle, Late
    <3> QED BY <1>2, <3>1, <3>2, KeysMove, Empty
  <2>5. ASSUME NEW p \in Handlers, GrantPermissions(p) PROVE KeysInv'
    <3>1. req' = [req EXCEPT ![p] = Idle] /\ UNCHANGED <<raced, unasked>>
      BY <1>2, <2>5, Granted
    <3>2. \A t \in Tables, i \in Ids :
            /\ tbl'[t][i].name = tbl[t][i].name /\ tbl'[t][i].deleted = tbl[t][i].deleted
            /\ tbl'[t][i].slug = tbl[t][i].slug /\ tbl'[t][i].email = tbl[t][i].email
      BY <1>2, <2>5, Granted DEF NoRow
    <3>3. Idle.pc = "idle" /\ Idle.pc \notin Late
      BY DEF Idle, Late
    <3> QED BY <1>2, <3>1, <3>2, <3>3, KeysMove, Empty
  <2> QED BY <1>2, <2>1, <2>2, <2>3, <2>4, <2>5, Stepping, CommitKeys
<1>3. KeysInv => KeysUnique
  BY DEF KeysInv
<1> QED BY <1>1, <1>2, <1>3, BaseHolds, PTL DEF Spec

-----------------------------------------------------------------------------
(***************************************************************************)
(* Pages.                                                                  *)
(***************************************************************************)
LEMMA MaxMin ==
  ASSUME NEW a \in Int, NEW b \in Int
  PROVE  /\ Max({a, b}) = IF a >= b THEN a ELSE b
         /\ Min({a, b}) = IF a <= b THEN a ELSE b
<1>1. /\ (IF a >= b THEN a ELSE b) \in {a, b} /\ \A y \in {a, b} : (IF a >= b THEN a ELSE b) >= y
      /\ (IF a <= b THEN a ELSE b) \in {a, b} /\ \A y \in {a, b} : (IF a <= b THEN a ELSE b) <= y
  OBVIOUS
<1>2. \A x \in {a, b} : (\A y \in {a, b} : x >= y) => x = IF a >= b THEN a ELSE b  OBVIOUS
<1>3. \A x \in {a, b} : (\A y \in {a, b} : x <= y) => x = IF a <= b THEN a ELSE b  OBVIOUS
<1> QED  BY <1>1, <1>2, <1>3 DEF Max, Min

LEMMA Parameters ==
  ASSUME NEW param \in Int \cup {NaN}
  PROVE  Page(param) \in Nat \ {0} /\ PerPage(param) \in 1 .. 100
<1>1. \A d \in Int : (IF param \in {NaN, 0} THEN d ELSE param) \in Int  OBVIOUS
<1>2. Page(param) \in Nat \ {0}
  <2> DEFINE a == IF param \in {NaN, 0} THEN 1 ELSE param
  <2>1. a \in Int  BY <1>1
  <2> HIDE DEF a
  <2>2. Max({1, a}) \in Nat \ {0}  BY <2>1, MaxMin
  <2> QED  BY <2>2 DEF Page, a
<1>3. PerPage(param) \in 1 .. 100
  <2> DEFINE a == IF param \in {NaN, 0} THEN 15 ELSE param
  <2>1. a \in Int  BY <1>1
  <2> HIDE DEF a
  <2> DEFINE b == Max({1, a})
  <2>2. b \in Nat \ {0}  BY <2>1, MaxMin
  <2> HIDE DEF b
  <2>3. Min({100, b}) = IF 100 <= b THEN 100 ELSE b  BY <2>2, MaxMin
  <2>4. Min({100, b}) \in 1 .. 100  BY <2>2, <2>3
  <2> QED  BY <2>4 DEF PerPage, a, b
<1> QED  BY <1>2, <1>3

\* The last page is the first that reaches the end.
LEMMA LastPages ==
  ASSUME NEW total \in Nat, NEW size \in Nat \ {0}
  PROVE  /\ LastPage(total, size) \in Nat \ {0}
         /\ total <= Skip(LastPage(total, size), size) + size
         /\ \A n \in Nat \ {0} : n < LastPage(total, size) <=> Skip(n, size) + size < total
         /\ LastPage(total, size) > 1 => Skip(LastPage(total, size), size) < total
<1> DEFINE q == (total + size - 1) \div size
           r == (total + size - 1) % size
<1>1. q \in Nat /\ r \in 0 .. (size - 1) /\ size * q + r = total + size - 1
  <2>1. total + size - 1 \in Nat  OBVIOUS
  <2> QED  BY <2>1
<1> HIDE DEF q, r
<1>2. LastPage(total, size) = IF q <= 1 THEN 1 ELSE q
  BY <1>1, MaxMin DEF LastPage, q
<1>3. \A n \in Nat \ {0} : Skip(n, size) + size = size * n  BY DEF Skip
<1>4. total <= size * q /\ size * q < total + size  BY <1>1
<1>5. \A n \in Nat : n < q => size * n + size <= size * q
  <2> SUFFICES ASSUME NEW n \in Nat, n < q  PROVE size * n + size <= size * q  OBVIOUS
  <2>1. n + 1 <= q  BY <1>1
  <2>2. size * (n + 1) <= size * q  BY <2>1, <1>1
  <2> QED  BY <2>2
<1>6. \A n \in Nat : n >= q => size * n >= size * q  BY <1>1
<1>7. ASSUME NEW n \in Nat \ {0}  PROVE n < LastPage(total, size) <=> size * n < total
  <2>1. CASE n < q
    <3>1. size * n < total  BY <1>4, <1>5, <2>1, <1>1
    <3> QED  BY <3>1, <2>1, <1>2, <1>1
  <2>2. CASE n >= q
    <3>1. size * n >= total  BY <1>4, <1>6, <2>2, <1>1
    <3> QED  BY <3>1, <2>2, <1>2, <1>1
  <2> QED  BY <2>1, <2>2, <1>1
<1>8. total <= size * LastPage(total, size)
  <2>1. CASE q <= 1
    <3>1. size * q <= size * 1  BY <2>1, <1>1
    <3> QED  BY <3>1, <2>1, <1>2, <1>4, <1>1
  <2> QED  BY <2>1, <1>2, <1>4, <1>1
<1>9. LastPage(total, size) > 1 => Skip(LastPage(total, size), size) < total
  BY <1>1, <1>2, <1>4 DEF Skip
<1> QED  BY <1>1, <1>2, <1>3, <1>7, <1>8, <1>9

LEMMA SkipNat ==
  ASSUME NEW n \in Nat \ {0}, NEW size \in Nat \ {0}
  PROVE  Skip(n, size) \in Nat /\ Skip(n + 1, size) = Skip(n, size) + size
BY DEF Skip

\* What Window cuts out of s.
LEMMA Windows ==
  ASSUME NEW S, NEW s \in Seq(S), NEW page \in Nat \ {0}, NEW size \in Nat \ {0}
  PROVE  LET w == Window(s, page, size)
             skip == Skip(page, size)
             upto == IF skip + size <= Len(s) THEN skip + size ELSE Len(s) IN
         /\ w \in Seq(S)
         /\ Len(w) = IF skip < Len(s) THEN upto - skip ELSE 0
         /\ \A k \in 1 .. Len(w) : w[k] = s[skip + k] /\ skip + k \in 1 .. Len(s)
         /\ \A i \in 1 .. Len(s) : i \in skip + 1 .. skip + size <=> i - skip \in 1 .. Len(w)
<1> DEFINE w == Window(s, page, size)
           skip == Skip(page, size)
           upto == IF skip + size <= Len(s) THEN skip + size ELSE Len(s)
<1> HIDE DEF w
<1>0. Len(s) \in Nat  BY LenProperties
<1>1. skip \in Nat /\ Len(s) \in Nat  BY SkipNat, <1>0
<1> HIDE DEF skip
<1>2. upto \in Nat /\ Min({skip + size, Len(s)}) = upto
  <2>1. skip + size \in Int /\ Len(s) \in Int  BY <1>1
  <2>2. Min({skip + size, Len(s)}) = upto  BY <2>1, MaxMin
  <2> QED  BY <1>1, <2>2
<1>3. w = SubSeq(s, skip + 1, upto)  BY <1>2 DEF Window, skip, w
<1>4. \A i \in skip + 1 .. upto : s[i] \in S  BY <1>1, <1>2
<1>5. /\ w \in Seq(S)
      /\ Len(w) = IF skip + 1 <= upto THEN upto - (skip + 1) + 1 ELSE 0
      /\ \A i \in 1 .. upto - (skip + 1) + 1 : w[i] = s[(skip + 1) + i - 1]
  BY <1>1, <1>2, <1>3, <1>4, SubSeqProperties
<1>6. Len(w) = IF skip < Len(s) THEN upto - skip ELSE 0  BY <1>1, <1>2, <1>5
<1>7. ASSUME NEW k \in 1 .. Len(w)  PROVE w[k] = s[skip + k] /\ skip + k \in 1 .. Len(s)
  <2>1. k \in Nat /\ k >= 1 /\ skip + k <= upto /\ upto <= Len(s)  BY <1>1, <1>2, <1>6
  <2>2. w[k] = s[(skip + 1) + k - 1]  BY <2>1, <1>1, <1>2, <1>5
  <2>3. (skip + 1) + k - 1 = skip + k  BY <2>1, <1>1
  <2> QED  BY <2>1, <2>2, <2>3, <1>1
<1>8. ASSUME NEW i \in 1 .. Len(s)
      PROVE  i \in skip + 1 .. skip + size <=> i - skip \in 1 .. Len(w)
  <2>1. CASE skip < i /\ i <= skip + size
    <3>1. Len(w) = upto - skip /\ i <= upto  BY <2>1, <1>1, <1>2, <1>6
    <3> QED  BY <3>1, <2>1, <1>1, <1>2
  <2>2. CASE ~(skip < i /\ i <= skip + size)
    <3>1. i - skip \in 1 .. Len(w) => skip < i /\ i <= skip + size  BY <1>1, <1>2, <1>6
    <3> QED  BY <3>1, <2>2, <1>1
  <2> QED  BY <2>1, <2>2
<1> QED  BY <1>5, <1>6, <1>7, <1>8 DEF w, skip

(***************************************************************************)
(* The pages partition the rows, for every query string and every number   *)
(* of rows.                                                                *)
(***************************************************************************)
THEOREM PagesAlwaysPartition ==
  ASSUME NEW params \in SUBSET (Int \cup {NaN}), NEW totals \in SUBSET Nat
  PROVE  PagesPartition(params, totals)
<1> SUFFICES ASSUME NEW pageParam \in params, NEW sizeParam \in params, NEW total \in totals
             PROVE  LET page == Page(pageParam)
                        size == PerPage(sizeParam)
                        last == LastPage(total, size)
                        rows == [i \in 1 .. total |-> i]
                        pages == [n \in 1 .. last |-> Window(rows, n, size)] IN
                    /\ page >= 1 /\ size \in 1 .. 100
                    /\ \A i \in 1 .. total : \E n \in 1 .. last : \A m \in 1 .. last :
                         i \in ToSet(pages[m]) <=> m = n
                    /\ \A n \in 1 .. last : \A k \in DOMAIN pages[n] :
                         pages[n][k] = Skip(n, size) + k
                    /\ NextPage(total, last, size) = NaN /\ PrevPage(1) = NaN
                    /\ \A n \in 1 .. last - 1 :
                         NextPage(total, n, size) = n + 1 /\ PrevPage(n + 1) = n
                    /\ page > last => Window(rows, page, size) = <<>>
                    /\ page <= last /\ total > 0 =>
                         LET w == Window(rows, page, size) IN
                         From(total, page, size) = Head(w) /\ To(total, page, size) = w[Len(w)]
  BY DEF PagesPartition
<1> DEFINE page == Page(pageParam)
           size == PerPage(sizeParam)
           last == LastPage(total, size)
           rows == [i \in 1 .. total |-> i]
           pages == [n \in 1 .. last |-> Window(rows, n, size)]
           upto(n) == IF Skip(n, size) + size <= total THEN Skip(n, size) + size ELSE total
<1>1. page \in Nat \ {0} /\ size \in 1 .. 100  BY Parameters
<1> HIDE DEF page, size
<1>2. total \in Nat /\ size \in Nat \ {0}  BY <1>1
<1>3. /\ last \in Nat \ {0} /\ total <= Skip(last, size) + size
      /\ \A n \in Nat \ {0} : n < last <=> Skip(n, size) + size < total
  BY <1>2, LastPages
<1> HIDE DEF last
<1>4. rows \in Seq(Nat) /\ Len(rows) = total /\ \A i \in 1 .. total : rows[i] = i
  BY <1>2
<1> HIDE DEF rows
<1>5. \A n \in Nat \ {0} : Skip(n, size) \in Nat  BY <1>2, SkipNat
<1>6. \A n \in Nat \ {0} :
        /\ Window(rows, n, size) \in Seq(Nat)
        /\ Len(Window(rows, n, size)) = IF Skip(n, size) < total THEN upto(n) - Skip(n, size) ELSE 0
        /\ \A k \in 1 .. Len(Window(rows, n, size)) : Window(rows, n, size)[k] = Skip(n, size) + k
        /\ \A i \in 1 .. total : i \in Skip(n, size) + 1 .. Skip(n, size) + size
                                  <=> i - Skip(n, size) \in 1 .. Len(Window(rows, n, size))
  <2> SUFFICES ASSUME NEW n \in Nat \ {0}
               PROVE  /\ Window(rows, n, size) \in Seq(Nat)
                      /\ Len(Window(rows, n, size)) = IF Skip(n, size) < total
                                                       THEN upto(n) - Skip(n, size) ELSE 0
                      /\ \A k \in 1 .. Len(Window(rows, n, size)) :
                           Window(rows, n, size)[k] = Skip(n, size) + k
                      /\ \A i \in 1 .. total :
                           i \in Skip(n, size) + 1 .. Skip(n, size) + size
                           <=> i - Skip(n, size) \in 1 .. Len(Window(rows, n, size))
    OBVIOUS
  <2> DEFINE w == Window(rows, n, size)
  <2>1. /\ w \in Seq(Nat)
        /\ Len(w) = IF Skip(n, size) < Len(rows)
                    THEN (IF Skip(n, size) + size <= Len(rows)
                          THEN Skip(n, size) + size ELSE Len(rows)) - Skip(n, size)
                    ELSE 0
        /\ \A k \in 1 .. Len(w) : w[k] = rows[Skip(n, size) + k] /\ Skip(n, size) + k \in 1 .. Len(rows)
        /\ \A i \in 1 .. Len(rows) : i \in Skip(n, size) + 1 .. Skip(n, size) + size
                                       <=> i - Skip(n, size) \in 1 .. Len(w)
    BY <1>2, <1>4, Windows
  <2> HIDE DEF w
  <2>2. \A k \in 1 .. Len(w) : w[k] = Skip(n, size) + k  BY <2>1, <1>4
  <2> QED  BY <2>1, <2>2, <1>4 DEF w
<1> HIDE DEF upto
<1>7. \A i \in 1 .. total, m \in 1 .. last :
        i \in ToSet(pages[m]) <=> Skip(m, size) < i /\ i <= Skip(m, size) + size
  <2> SUFFICES ASSUME NEW i \in 1 .. total, NEW m \in 1 .. last
               PROVE  i \in ToSet(Window(rows, m, size))
                      <=> Skip(m, size) < i /\ i <= Skip(m, size) + size
    OBVIOUS
  <2> DEFINE w == Window(rows, m, size)
             skip == Skip(m, size)
  <2>0. m \in Nat \ {0} /\ i \in Nat /\ skip \in Nat  BY <1>3, <1>5, <1>2
  <2>1. /\ w \in Seq(Nat) /\ \A k \in 1 .. Len(w) : w[k] = skip + k
        /\ i \in skip + 1 .. skip + size <=> i - skip \in 1 .. Len(w)
    BY <2>0, <1>6
  <2> HIDE DEF w, skip
  <2>2. Len(w) \in Nat /\ DOMAIN w = 1 .. Len(w)  BY <2>1, LenProperties
  <2>3. i \in ToSet(w) <=> \E k \in 1 .. Len(w) : i = skip + k
    BY <2>1, <2>2 DEF ToSet
  <2>4. (\E k \in 1 .. Len(w) : i = skip + k) <=> i - skip \in 1 .. Len(w)
    <3>1. ASSUME NEW k \in 1 .. Len(w), i = skip + k  PROVE i - skip \in 1 .. Len(w)
      BY <3>1, <2>0, <2>2
    <3>2. ASSUME i - skip \in 1 .. Len(w)  PROVE \E k \in 1 .. Len(w) : i = skip + k
      <4>1. i = skip + (i - skip)  BY <2>0
      <4> QED  BY <3>2, <4>1
    <3> QED  BY <3>1, <3>2
  <2>5. i \in skip + 1 .. skip + size <=> skip < i /\ i <= skip + size  BY <2>0, <1>2
  <2> QED  BY <2>1, <2>3, <2>4, <2>5 DEF w, skip
<1>8. ASSUME NEW i \in 1 .. total
      PROVE  \E n \in 1 .. last : \A m \in 1 .. last : i \in ToSet(pages[m]) <=> m = n
  <2> DEFINE n == LastPage(i, size)
  <2>0. i \in Nat \ {0} /\ i <= total  BY <1>2
  <2>1. /\ n \in Nat \ {0} /\ i <= Skip(n, size) + size
        /\ \A m \in Nat \ {0} : m < n <=> Skip(m, size) + size < i
        /\ n > 1 => Skip(n, size) < i
    BY <2>0, <1>2, LastPages
  <2> HIDE DEF n
  <2>2. n \in 1 .. last
    <3>1. ~(Skip(last, size) + size < i)  BY <2>0, <1>2, <1>3, <1>5
    <3> QED  BY <3>1, <2>1, <1>3
  <2>3. Skip(1, size) = 0  BY <1>2 DEF Skip
  <2>4. Skip(n, size) < i  BY <2>0, <2>1, <2>3
  <2>5. ASSUME NEW m \in 1 .. last, m > n  PROVE i <= Skip(m, size)
    <3>1. m - 1 \in Nat \ {0} /\ ~(m - 1 < n) /\ m = (m - 1) + 1  BY <2>1, <2>5, <1>3
    <3>2. ~(Skip(m - 1, size) + size < i)  BY <2>1, <3>1
    <3>3. Skip(m, size) = Skip(m - 1, size) + size /\ Skip(m - 1, size) \in Nat
      BY <3>1, <1>2, SkipNat
    <3> QED  BY <3>2, <3>3, <2>0, <1>2
  <2>6. ASSUME NEW m \in 1 .. last, m < n  PROVE Skip(m, size) + size < i
    BY <2>1, <2>6, <1>3
  <2>7. \A m \in 1 .. last : Skip(m, size) < i /\ i <= Skip(m, size) + size <=> m = n
    <3> SUFFICES ASSUME NEW m \in 1 .. last
                 PROVE  Skip(m, size) < i /\ i <= Skip(m, size) + size <=> m = n
      OBVIOUS
    <3>1. m \in Nat \ {0} /\ Skip(m, size) \in Nat  BY <1>3, <1>5
    <3>2. CASE m > n  BY <2>0, <2>1, <2>5, <3>1, <3>2
    <3>3. CASE m < n  BY <2>0, <2>1, <2>6, <3>1, <3>3, <1>2
    <3>4. CASE m = n  BY <2>1, <2>4, <3>4
    <3> QED  BY <3>1, <3>2, <3>3, <3>4, <2>1
  <2> QED  BY <1>7, <2>2, <2>7
<1>9. ASSUME NEW n \in 1 .. last, NEW k \in DOMAIN pages[n]  PROVE pages[n][k] = Skip(n, size) + k
  <2>1. n \in Nat \ {0} /\ pages[n] = Window(rows, n, size)  BY <1>3
  <2>2. DOMAIN pages[n] = 1 .. Len(Window(rows, n, size))  BY <2>1, <1>6, LenProperties
  <2> QED  BY <2>1, <2>2, <1>6
<1>10. /\ NextPage(total, last, size) = NaN /\ PrevPage(1) = NaN
       /\ \A n \in 1 .. last - 1 : NextPage(total, n, size) = n + 1 /\ PrevPage(n + 1) = n
  <2>1. \A n : NextPage(total, n, size) = IF n < last THEN n + 1 ELSE NaN  BY DEF NextPage, last
  <2>2. \A n : PrevPage(n) = IF n > 1 THEN n - 1 ELSE NaN  BY DEF PrevPage
  <2>3. ~(last < last) /\ ~(1 > 1)  BY <1>3
  <2>4. \A n \in 1 .. last - 1 : n < last /\ n + 1 > 1 /\ (n + 1) - 1 = n  BY <1>3
  <2> QED  BY <2>1, <2>2, <2>3, <2>4
<1>11. ASSUME page > last  PROVE Window(rows, page, size) = <<>>
  <2>1. page - 1 \in Nat \ {0} /\ ~(page - 1 < last) /\ page = (page - 1) + 1
    BY <1>1, <1>3, <1>11
  <2>2. Skip(page, size) = Skip(page - 1, size) + size /\ Skip(page - 1, size) \in Nat
    BY <2>1, <1>2, SkipNat
  <2>3. ~(Skip(page, size) < total)  BY <2>1, <2>2, <1>2, <1>3
  <2>4. Window(rows, page, size) \in Seq(Nat) /\ Len(Window(rows, page, size)) = 0
    BY <2>3, <1>1, <1>6
  <2> QED  BY <2>4, EmptySeq
<1>12. ASSUME page <= last, total > 0
       PROVE  LET w == Window(rows, page, size) IN
              From(total, page, size) = Head(w) /\ To(total, page, size) = w[Len(w)]
  <2> DEFINE w == Window(rows, page, size)
             skip == Skip(page, size)
  <2>1. skip \in Nat /\ skip < total
    <3>1. CASE page = 1  BY <3>1, <1>2, <1>12 DEF Skip
    <3>2. CASE page # 1
      <4>1. page - 1 \in Nat \ {0} /\ page - 1 < last /\ page = (page - 1) + 1
        BY <3>2, <1>1, <1>3, <1>12
      <4>2. skip = Skip(page - 1, size) + size /\ Skip(page - 1, size) \in Nat
        BY <4>1, <1>2, SkipNat
      <4> QED  BY <4>1, <4>2, <1>2, <1>3
    <3> QED  BY <3>1, <3>2
  <2>2. /\ w \in Seq(Nat) /\ Len(w) = upto(page) - skip
        /\ \A k \in 1 .. Len(w) : w[k] = skip + k
    BY <2>1, <1>1, <1>6
  <2>3. upto(page) = IF skip + size <= total THEN skip + size ELSE total  BY DEF upto
  <2> HIDE DEF w, skip
  <2>4. Len(w) \in Nat \ {0} /\ skip + Len(w) = upto(page) /\ upto(page) \in Nat
    BY <2>1, <2>2, <2>3, <1>2
  <2>5. Head(w) = skip + 1
    <3>1. w # <<>>  BY <2>2, <2>4
    <3>2. Head(w) = w[1]  BY <2>2, <3>1
    <3> QED  BY <3>2, <2>2, <2>4
  <2>6. w[Len(w)] = upto(page)  BY <2>2, <2>4
  <2>7. From(total, page, size) = skip + 1  BY <1>12 DEF From, skip
  <2>8. Min({skip + size, total}) = upto(page)
    <3>1. skip + size \in Int /\ total \in Int  BY <2>1, <1>2
    <3> QED  BY <3>1, <2>3, MaxMin
  <2>9. To(total, page, size) = upto(page)  BY <2>8, <1>12 DEF To, skip
  <2> QED  BY <2>5, <2>6, <2>7, <2>9 DEF w
<1> QED  BY <1>1, <1>8, <1>9, <1>10, <1>11, <1>12 DEF last, rows, page, size

-----------------------------------------------------------------------------
(***************************************************************************)
(* A walk through the pages, in terms of the place each row has in the     *)
(* list: how many rows are ahead of it.                                    *)
(***************************************************************************)
SortKeys == {"createdAt", "name"}
Words == {Null} \cup Emails \cup UNION {ToSet(n) : n \in Names}

Walk == [pc : {"idle", "ask", "done"}, table : Tables, sort : SortKeys, dir : {"asc", "desc"},
         search : Words, size : 1 .. 100, page : Nat \ {0}, rows : Seq(Ids) \cup {Null},
         total : Nat \cup {Null}, seen : Seq(Ids), stay : SUBSET Ids,
         met : SUBSET {"gone", "came", "torn"}]

Now(w) == Listed(w.table, w.search)
Ahead(w, i) ==
  {j \in Now(w) : Before(Listable(w.table, j), Listable(w.table, i), w.sort, w.dir)}
Place(w, i) == Cardinality(Ahead(w, i))

\* The places of the page: the responses so far covered those before it.
Past(w) == Skip(w.page, w.size)
Upto(w) == Past(w) + w.size

Reached(w) == IF w.rows = Null THEN ToSet(w.seen) ELSE ToSet(w.seen) \cup ToSet(w.rows)

\* While rows are only inserted, and between responses: a row that was there from
\* the start never moves forward, so it is either collected or still ahead.
Collected(w) ==
  /\ w.pc = "ask" =>
       /\ w.stay \subseteq Now(w)
       /\ \A i \in w.stay : Place(w, i) < Past(w) => i \in ToSet(w.seen)
       /\ w.rows # Null => \A i \in w.stay : Place(w, i) < Upto(w) => i \in Reached(w)
       /\ w.rows = Null /\ w.total # Null => w.total = Cardinality(Now(w))
       /\ w.rows # Null /\ w.total # Null /\ w.total <= Upto(w) => w.stay \subseteq Reached(w)
  /\ w.pc = "done" => w.stay \subseteq ToSet(w.seen)

\* How many rows the page has.
PageLength(w) ==
  LET n == Cardinality(Now(w)) IN
  IF Past(w) < n THEN (IF Upto(w) <= n THEN Upto(w) ELSE n) - Past(w) ELSE 0

\* While the list does not change: the responses are its pages.
Undisturbed(w) ==
  /\ w.pc = "ask" =>
       /\ \A i \in ToSet(w.seen) : i \in Now(w) /\ Place(w, i) < Past(w)
       /\ w.page = 1 \/ Past(w) < Cardinality(Now(w))
       /\ w.rows # Null =>
            /\ IsInjective(w.rows) /\ Len(w.rows) = PageLength(w)
            /\ \A i \in ToSet(w.rows) :
                 i \in Now(w) /\ Past(w) <= Place(w, i) /\ Place(w, i) < Upto(w)
       /\ w.total # Null => w.total = Cardinality(Now(w))
  /\ IsInjective(w.seen)

Walked(w) ==
  /\ w \in Walk
  /\ w.met \cap {"gone", "torn"} = {} => Collected(w)
  /\ w.met = {} => Undisturbed(w)

ListInv == Base /\ Walked(walk)

-----------------------------------------------------------------------------
\* A row of a list, as far as its order goes.
ListRow == [id : Int, key : [createdAt : Int, name : Int]]

LEMMA RowKeys ==
  ASSUME Base, NEW t \in Tables, NEW i \in Live(t)
  PROVE  /\ Listable(t, i) \in ListRow /\ Listable(t, i).id = i /\ i \in Ids
         /\ \A sort \in SortKeys : Listable(t, i).key[sort] \in Int
<1>1. i \in Ids /\ tbl[t][i].name # Null  BY DEF Live, Exists
<1>2. tbl[t][i].name \in Names \cup {SuperAdmin}  BY <1>1 DEF Base, Types, Row, Titles
<1>3. NameOrder[tbl[t][i].name] \in Int  BY <1>2, ListingsAssumption
<1>4. i \in Int  BY <1>1 DEF Ids
<1> QED  BY <1>1, <1>3, <1>4 DEF Listable, ListRow, SortKeys

\* Before orders rows with different ids.
LEMMA Ordered ==
  ASSUME NEW sort \in SortKeys, NEW dir
  PROVE  /\ \A a \in ListRow : ~Before(a, a, sort, dir)
         /\ \A a, b \in ListRow : a.id # b.id => Before(a, b, sort, dir) \/ Before(b, a, sort, dir)
         /\ \A a, b \in ListRow : ~(Before(a, b, sort, dir) /\ Before(b, a, sort, dir))
         /\ \A a, b, c \in ListRow :
              Before(a, b, sort, dir) /\ Before(b, c, sort, dir) => Before(a, c, sort, dir)
<1>1. \A a \in ListRow : a.id \in Int /\ a.key[sort] \in Int
  BY DEF ListRow, SortKeys
<1> QED  BY <1>1 DEF Before

\* The place of a row of the list.
LEMMA Places ==
  ASSUME Base, NEW w \in Walk
  PROVE  /\ Now(w) \subseteq Ids /\ Now(w) \subseteq Live(w.table)
         /\ IsFiniteSet(Now(w)) /\ Cardinality(Now(w)) \in Nat
         /\ \A i : IsFiniteSet(Ahead(w, i)) /\ Place(w, i) \in Nat
         /\ \A i \in Now(w) : Place(w, i) < Cardinality(Now(w))
<1>1. Now(w) \subseteq Ids /\ Now(w) \subseteq Live(w.table)  BY DEF Now, Listed, Live
<1>2. IsFiniteSet(Ids)  BY AccountsAssumption, FS_Interval DEF Ids
<1>3. IsFiniteSet(Now(w)) /\ Cardinality(Now(w)) \in Nat
  BY <1>1, <1>2, FS_Subset, FS_CardinalityType
<1>4. \A i : Ahead(w, i) \subseteq Now(w)  BY DEF Ahead
<1>5. \A i : IsFiniteSet(Ahead(w, i)) /\ Place(w, i) \in Nat
  BY <1>3, <1>4, FS_Subset, FS_CardinalityType DEF Place
<1>6. ASSUME NEW i \in Now(w)  PROVE Place(w, i) < Cardinality(Now(w))
  <2>1. w.table \in Tables /\ w.sort \in SortKeys  BY DEF Walk
  <2>2. Listable(w.table, i) \in ListRow  BY <2>1, <1>1, RowKeys
  <2>3. i \notin Ahead(w, i)  BY <2>1, <2>2, Ordered DEF Ahead
  <2>4. Cardinality(Ahead(w, i)) # Cardinality(Now(w))  BY <2>3, <1>3, <1>4, FS_Subset
  <2>5. Cardinality(Ahead(w, i)) <= Cardinality(Now(w))  BY <1>3, <1>4, FS_Subset
  <2> QED  BY <2>4, <2>5, <1>3, <1>5 DEF Place
<1> QED  BY <1>1, <1>3, <1>5, <1>6

\* In an order of the list every row stands at its place.
LEMMA Sorted ==
  ASSUME Base, NEW w \in Walk, NEW s \in Orders(ListRows(w.table, w.search), w.sort, w.dir)
  PROVE  /\ s \in Seq(ListRow) /\ Len(s) = Cardinality(Now(w))
         /\ \A k \in 1 .. Len(s) : s[k].id \in Now(w) /\ Place(w, s[k].id) = k - 1
         /\ \A i \in Now(w) : \E k \in 1 .. Len(s) : s[k].id = i
<1> DEFINE R == ListRows(w.table, w.search)
           n == Cardinality(R)
<1>1. w.table \in Tables /\ w.sort \in SortKeys  BY DEF Walk
<1>2. \A i \in Now(w) : Listable(w.table, i) \in ListRow /\ Listable(w.table, i).id = i
  BY <1>1, RowKeys, Places
<1>3. R = {Listable(w.table, i) : i \in Now(w)}  BY DEF ListRows, Now
<1> HIDE DEF R
<1>4. IsFiniteSet(R) /\ n = Cardinality(Now(w)) /\ n \in Nat
  <2> DEFINE f == [i \in Now(w) |-> Listable(w.table, i)]
  <2>1. f \in Bijection(Now(w), R)
    <3>1. f \in [Now(w) -> R] /\ \A r \in R : \E i \in Now(w) : f[i] = r  BY <1>3
    <3>2. \A i, j \in Now(w) : f[i] = f[j] => i = j  BY <1>2
    <3> QED  BY <3>1, <3>2, Fun_IsBij
  <2>2. ExistsBijection(Now(w), R)  BY <2>1 DEF ExistsBijection
  <2> QED  BY <2>2, Places, FS_Bijection
<1>5. /\ s \in [1 .. n -> R] /\ \A k, m \in 1 .. n : k # m => s[k] # s[m]
      /\ \A k, m \in 1 .. n : k < m => ~Before(s[m], s[k], w.sort, w.dir)
  <2>1. s \in SetToSeqs(R)
        /\ \A k, m \in DOMAIN s : k < m => ~Before(s[m], s[k], w.sort, w.dir)
    BY DEF Orders, R
  <2>2. s \in [1 .. n -> R] /\ \A k, m \in 1 .. n : k # m => s[k] # s[m]
    BY <2>1 DEF SetToSeqs
  <2> QED  BY <2>1, <2>2
<1> HIDE DEF n
<1>6. s \in Surjection(1 .. n, R)
  <2>1. s \in Injection(1 .. n, R)  BY <1>5, Fun_IsInj
  <2>2. IsFiniteSet(1 .. n) /\ Cardinality(1 .. n) = n  BY <1>4, FS_Interval
  <2> QED  BY <2>1, <2>2, <1>4, FS_Injection DEF n
<1>7. R \subseteq ListRow  BY <1>2, <1>3
<1>8. s \in Seq(ListRow) /\ Len(s) = n  BY <1>4, <1>5, <1>7
<1>9. \A k \in 1 .. n : /\ s[k] \in ListRow /\ s[k].id \in Now(w)
                        /\ s[k] = Listable(w.table, s[k].id)
  BY <1>2, <1>3, <1>5
<1>10. \A i \in Now(w) : \E k \in 1 .. n : s[k].id = i
  <2> SUFFICES ASSUME NEW i \in Now(w)  PROVE \E k \in 1 .. n : s[k].id = i  OBVIOUS
  <2>1. Listable(w.table, i) \in R  BY <1>3
  <2>2. PICK k \in 1 .. n : s[k] = Listable(w.table, i)  BY <2>1, <1>6 DEF Surjection
  <2> QED  BY <2>2, <1>2
<1>11. \A k, m \in 1 .. n : Before(s[k], s[m], w.sort, w.dir) <=> k < m
  <2> SUFFICES ASSUME NEW k \in 1 .. n, NEW m \in 1 .. n
               PROVE  Before(s[k], s[m], w.sort, w.dir) <=> k < m
    OBVIOUS
  <2>1. CASE k < m
    <3>1. s[k] # s[m]  BY <2>1, <1>5
    <3>2. s[k].id # s[m].id  BY <3>1, <1>9
    <3> QED  BY <2>1, <3>2, <1>1, <1>5, <1>9, Ordered
  <2>2. CASE m < k  BY <2>2, <1>5
  <2>3. CASE k = m  BY <2>3, <1>1, <1>9, Ordered
  <2> QED  BY <2>1, <2>2, <2>3, <1>4
<1>12. ASSUME NEW k \in 1 .. n  PROVE Place(w, s[k].id) = k - 1
  <2> DEFINE g == [m \in 1 .. (k - 1) |-> s[m].id]
  <2>0. k \in Nat /\ \A m \in 1 .. (k - 1) : m \in 1 .. n  BY <1>4
  <2>1. Ahead(w, s[k].id) = {i \in Now(w) : Before(Listable(w.table, i), s[k], w.sort, w.dir)}
    BY <1>9 DEF Ahead
  <2>2. \A m \in 1 .. n : s[m].id \in Ahead(w, s[k].id) <=> m < k
    BY <2>1, <1>9, <1>11
  <2>3. g \in [1 .. (k - 1) -> Ahead(w, s[k].id)]  BY <2>0, <2>2
  <2>4. \A a, b \in 1 .. (k - 1) : g[a] = g[b] => a = b  BY <2>0, <1>5, <1>9
  <2>5. \A i \in Ahead(w, s[k].id) : \E m \in 1 .. (k - 1) : g[m] = i
    <3> SUFFICES ASSUME NEW i \in Ahead(w, s[k].id)
                 PROVE  \E m \in 1 .. (k - 1) : g[m] = i
      OBVIOUS
    <3>1. PICK m \in 1 .. n : s[m].id = i  BY <1>10 DEF Ahead
    <3>2. m < k  BY <2>2, <3>1
    <3> QED  BY <3>1, <3>2, <2>0, <1>4
  <2>6. g \in Bijection(1 .. (k - 1), Ahead(w, s[k].id))  BY <2>3, <2>4, <2>5, Fun_IsBij
  <2>7. IsFiniteSet(1 .. (k - 1)) /\ Cardinality(1 .. (k - 1)) = k - 1
    BY <2>0, FS_Interval
  <2>8. ExistsBijection(1 .. (k - 1), Ahead(w, s[k].id))  BY <2>6 DEF ExistsBijection
  <2> QED  BY <2>7, <2>8, FS_Bijection DEF Place
<1> QED  BY <1>4, <1>8, <1>9, <1>10, <1>12

\* What findMany returns: the rows whose places are on the page.
LEMMA PageRows ==
  ASSUME Base, NEW w \in Walk, NEW s \in Orders(ListRows(w.table, w.search), w.sort, w.dir)
  PROVE  LET rows == [n \in DOMAIN Window(s, w.page, w.size) |-> Window(s, w.page, w.size)[n].id] IN
         /\ rows \in Seq(Ids) /\ Len(rows) = PageLength(w) /\ IsInjective(rows)
         /\ \A i \in ToSet(rows) : i \in Now(w) /\ Past(w) <= Place(w, i) /\ Place(w, i) < Upto(w)
         /\ \A i \in Now(w) : Past(w) <= Place(w, i) /\ Place(w, i) < Upto(w) => i \in ToSet(rows)
<1>1. w.page \in Nat \ {0} /\ w.size \in Nat \ {0}
  <2>1. w.page \in Nat \ {0} /\ w.size \in 1 .. 100  BY DEF Walk
  <2> QED  BY <2>1
<1> DEFINE cut == Window(s, w.page, w.size)
           rows == [n \in DOMAIN cut |-> cut[n].id]
           skip == Past(w)
<1>2. skip \in Nat /\ Upto(w) = skip + w.size  BY <1>1, SkipNat DEF Past, Upto
<1>3. /\ s \in Seq(ListRow) /\ Len(s) = Cardinality(Now(w)) /\ Len(s) \in Nat
      /\ \A k \in 1 .. Len(s) : s[k].id \in Now(w) /\ Place(w, s[k].id) = k - 1
      /\ \A i \in Now(w) : \E k \in 1 .. Len(s) : s[k].id = i
  BY Sorted, Places
<1>4. /\ cut \in Seq(ListRow)
      /\ Len(cut) = IF skip < Len(s)
                    THEN (IF skip + w.size <= Len(s) THEN skip + w.size ELSE Len(s)) - skip ELSE 0
      /\ \A k \in 1 .. Len(cut) : cut[k] = s[skip + k] /\ skip + k \in 1 .. Len(s)
      /\ \A i \in 1 .. Len(s) : i \in skip + 1 .. skip + w.size <=> i - skip \in 1 .. Len(cut)
  BY <1>1, <1>3, Windows DEF Past
<1> HIDE DEF cut, skip
<1>5. Len(cut) \in Nat /\ DOMAIN cut = 1 .. Len(cut)  BY <1>4, LenProperties
<1>6. /\ DOMAIN rows = 1 .. Len(cut)
      /\ \A k \in 1 .. Len(cut) : rows[k] = s[skip + k].id
  BY <1>4, <1>5
<1>7. \A k \in 1 .. Len(cut) : rows[k] \in Now(w) /\ Place(w, rows[k]) = skip + k - 1
  BY <1>2, <1>3, <1>4, <1>6
<1>8. rows \in Seq(Ids) /\ Len(rows) = Len(cut)
  <2>1. \A k \in 1 .. Len(cut) : rows[k] \in Ids  BY <1>7, Places
  <2> QED  BY <2>1, <1>5
<1> HIDE DEF rows
<1>9. Len(rows) = PageLength(w)
  <2>1. PageLength(w) = IF skip < Len(s)
                        THEN (IF Upto(w) <= Len(s) THEN Upto(w) ELSE Len(s)) - skip ELSE 0
    BY <1>3 DEF PageLength, skip
  <2> QED  BY <2>1, <1>2, <1>4, <1>8
<1>10. IsInjective(rows)
  <2>1. \A a, b \in 1 .. Len(cut) : rows[a] = rows[b] => a = b
    <3> SUFFICES ASSUME NEW a \in 1 .. Len(cut), NEW b \in 1 .. Len(cut), rows[a] = rows[b]
                 PROVE  a = b
      OBVIOUS
    <3>1. skip + a - 1 = skip + b - 1  BY <1>7
    <3> QED  BY <3>1, <1>2, <1>5
  <2> QED  BY <2>1, <1>6 DEF IsInjective
<1>11. ASSUME NEW i \in ToSet(rows)
       PROVE  i \in Now(w) /\ skip <= Place(w, i) /\ Place(w, i) < Upto(w)
  <2>1. PICK k \in 1 .. Len(cut) : rows[k] = i  BY <1>6 DEF ToSet
  <2>2. k \in Nat /\ (skip + k) - skip = k  BY <1>2, <1>5
  <2>3. skip + k \in skip + 1 .. skip + w.size
    <3>1. skip + k \in 1 .. Len(s)  BY <1>4
    <3>2. (skip + k) - skip \in 1 .. Len(cut)  BY <2>2
    <3> QED  BY <3>1, <3>2, <1>4
  <2>4. i \in Now(w) /\ Place(w, i) = skip + k - 1  BY <2>1, <1>7
  <2> QED  BY <2>3, <2>4, <1>1, <1>2, <1>5
<1>12. ASSUME NEW i \in Now(w), skip <= Place(w, i), Place(w, i) < Upto(w)
       PROVE  i \in ToSet(rows)
  <2>1. PICK k \in 1 .. Len(s) : s[k].id = i /\ Place(w, i) = k - 1  BY <1>3
  <2>2. k \in Nat /\ skip < k /\ k <= skip + w.size  BY <2>1, <1>1, <1>2, <1>3, <1>12
  <2>3. k \in skip + 1 .. skip + w.size  BY <2>2, <1>1, <1>2
  <2>4. k - skip \in 1 .. Len(cut)  BY <2>3, <1>4
  <2>6. skip + (k - skip) = k  BY <2>2, <1>2
  <2>5. rows[k - skip] = i /\ k - skip \in DOMAIN rows  BY <2>1, <2>4, <2>6, <1>6
  <2> QED  BY <2>5 DEF ToSet
<1> QED  BY <1>8, <1>9, <1>10, <1>11, <1>12 DEF rows, cut, skip

\* What a walk asks for does not change while it is under way.
SameQuery(v, w) ==
  v.table = w.table /\ v.search = w.search /\ v.sort = w.sort /\ v.dir = w.dir

LEMMA SameList ==
  ASSUME NEW v, NEW w, SameQuery(v, w)
  PROVE  Now(v) = Now(w) /\ \A i : Place(v, i) = Place(w, i)
<1>1. Now(v) = Now(w)  BY DEF Now, SameQuery
<1>2. \A i : Ahead(v, i) = Ahead(w, i)  BY <1>1 DEF Ahead, SameQuery
<1> QED  BY <1>1, <1>2 DEF Place

\* The invariant is about the tables and the walk alone.
LEMMA SameTables ==
  ASSUME NEW w, tbl' = tbl, Walked(w)
  PROVE  Walked(w)'
<1>1. \A t, search : Listed(t, search)' = Listed(t, search)
  BY DEF Listed, Live, Exists, Found
<1>2. Now(w)' = Now(w)  BY <1>1 DEF Now
<1>3. \A t, i : Listable(t, i)' = Listable(t, i)  BY DEF Listable
<1>4. \A i : Ahead(w, i)' = Ahead(w, i)  BY <1>2, <1>3 DEF Ahead
<1>5. \A i : Place(w, i)' = Place(w, i)  BY <1>4 DEF Place
<1>6. PageLength(w)' = PageLength(w) /\ Past(w)' = Past(w) /\ Upto(w)' = Upto(w)
  BY <1>2 DEF PageLength, Past, Upto
<1>7. Collected(w)' <=> Collected(w)  BY <1>2, <1>5, <1>6 DEF Collected, Reached
<1>8. Undisturbed(w)' <=> Undisturbed(w)  BY <1>2, <1>5, <1>6 DEF Undisturbed
<1> QED  BY <1>7, <1>8 DEF Walked, Walk

LEMMA WalkPages ==
  ASSUME NEW w \in Walk
  PROVE  /\ w.page \in Nat \ {0} /\ w.size \in Nat \ {0} /\ w.table \in Tables
         /\ Past(w) \in Nat /\ Upto(w) = Past(w) + w.size /\ Upto(w) \in Nat
<1>1. w.page \in Nat \ {0} /\ w.size \in 1 .. 100 /\ w.table \in Tables  BY DEF Walk
<1>2. w.size \in Nat \ {0}  BY <1>1
<1>3. Past(w) \in Nat  BY <1>1, <1>2, SkipNat DEF Past
<1>4. Upto(w) = Past(w) + w.size  BY DEF Upto
<1> QED  BY <1>1, <1>2, <1>3, <1>4

-----------------------------------------------------------------------------
(***************************************************************************)
(* Each step keeps the walk's part of the invariant.                       *)
(***************************************************************************)
LEMMA WalkStarts ==
  ASSUME Base, NEW v \in Walk, v.pc = "ask", v.page = 1, v.rows = Null, v.total = Null,
         v.seen = <<>>, v.stay = Now(v)
  PROVE  Walked(v)
<1>1. Past(v) = 0
  <2>1. v.size \in Int  BY WalkPages
  <2> QED  BY <2>1 DEF Past, Skip
<1>2. \A i : Place(v, i) \in Nat  BY Places
<1>3. Collected(v)  BY <1>1, <1>2 DEF Collected
<1>4. ToSet(v.seen) = {} /\ IsInjective(v.seen)  BY DEF ToSet, IsInjective
<1>5. Undisturbed(v)  BY <1>4 DEF Undisturbed
<1> QED  BY <1>3, <1>5 DEF Walked

\* A step that sets one field of a walk keeps the others.
LEMMA SetPage ==
  ASSUME NEW w \in Walk, NEW x \in Nat \ {0}
  PROVE  LET v == [w EXCEPT !.page = x]
         IN  /\ v \in Walk
             /\ v.pc = w.pc /\ v.page = x /\ v.size = w.size /\ v.rows = w.rows
             /\ v.total = w.total /\ v.seen = w.seen /\ v.stay = w.stay /\ v.met = w.met
             /\ v.table = w.table /\ v.search = w.search /\ v.sort = w.sort /\ v.dir = w.dir
BY DEF Walk

LEMMA SetRows ==
  ASSUME NEW w \in Walk, NEW x \in Seq(Ids)
  PROVE  LET v == [w EXCEPT !.rows = x]
         IN  /\ v \in Walk
             /\ v.pc = w.pc /\ v.page = w.page /\ v.size = w.size /\ v.rows = x
             /\ v.total = w.total /\ v.seen = w.seen /\ v.stay = w.stay /\ v.met = w.met
             /\ v.table = w.table /\ v.search = w.search /\ v.sort = w.sort /\ v.dir = w.dir
BY DEF Walk

LEMMA SetTotal ==
  ASSUME NEW w \in Walk, NEW x \in Nat
  PROVE  LET v == [w EXCEPT !.total = x]
         IN  /\ v \in Walk
             /\ v.pc = w.pc /\ v.page = w.page /\ v.size = w.size /\ v.rows = w.rows
             /\ v.total = x /\ v.seen = w.seen /\ v.stay = w.stay /\ v.met = w.met
             /\ v.table = w.table /\ v.search = w.search /\ v.sort = w.sort /\ v.dir = w.dir
BY DEF Walk

LEMMA SetMet ==
  ASSUME NEW w \in Walk, NEW x \in SUBSET {"gone", "came", "torn"}
  PROVE  LET v == [w EXCEPT !.met = x]
         IN  /\ v \in Walk
             /\ v.pc = w.pc /\ v.page = w.page /\ v.size = w.size /\ v.rows = w.rows
             /\ v.total = w.total /\ v.seen = w.seen /\ v.stay = w.stay /\ v.met = x
             /\ v.table = w.table /\ v.search = w.search /\ v.sort = w.sort /\ v.dir = w.dir
BY DEF Walk

LEMMA SetDone ==
  ASSUME NEW w \in Walk
  PROVE  LET v == [w EXCEPT !.pc = "done"]
         IN  /\ v \in Walk
             /\ v.pc = "done" /\ v.page = w.page /\ v.size = w.size /\ v.rows = w.rows
             /\ v.total = w.total /\ v.seen = w.seen /\ v.stay = w.stay /\ v.met = w.met
             /\ v.table = w.table /\ v.search = w.search /\ v.sort = w.sort /\ v.dir = w.dir
BY DEF Walk

LEMMA PageFound ==
  ASSUME Base, NEW w, Walked(w), w.pc = "ask", w.rows = Null,
         NEW s \in Orders(ListRows(w.table, w.search), w.sort, w.dir),
         NEW rows, rows = [n \in DOMAIN Window(s, w.page, w.size) |->
                             Window(s, w.page, w.size)[n].id]
  PROVE  Walked([w EXCEPT !.rows = rows])
<1> DEFINE v == [w EXCEPT !.rows = rows]
<1>1. w \in Walk  BY DEF Walked
<1>2. /\ rows \in Seq(Ids) /\ Len(rows) = PageLength(w) /\ IsInjective(rows)
      /\ \A i \in ToSet(rows) : i \in Now(w) /\ Past(w) <= Place(w, i) /\ Place(w, i) < Upto(w)
      /\ \A i \in Now(w) : Past(w) <= Place(w, i) /\ Place(w, i) < Upto(w) => i \in ToSet(rows)
  BY <1>1, PageRows
<1>3. /\ v \in Walk /\ v.rows = rows /\ v.pc = w.pc /\ v.page = w.page /\ v.size = w.size
      /\ v.total = w.total /\ v.seen = w.seen /\ v.stay = w.stay /\ v.met = w.met
      /\ v.table = w.table /\ v.search = w.search /\ v.sort = w.sort /\ v.dir = w.dir
  BY <1>1, <1>2, SetRows
<1> HIDE DEF v
<1>4. Now(v) = Now(w) /\ \A i : Place(v, i) = Place(w, i)
  BY <1>3, SameList DEF SameQuery
<1>5. Past(v) = Past(w) /\ Upto(v) = Upto(w)  BY <1>3 DEF Past, Upto
<1>6. PageLength(v) = PageLength(w)  BY <1>4, <1>5 DEF PageLength
<1>7. /\ Past(w) \in Nat /\ Upto(w) \in Nat /\ Cardinality(Now(w)) \in Nat
      /\ \A i : Place(w, i) \in Nat
      /\ \A i \in Now(w) : Place(w, i) < Cardinality(Now(w))
  BY <1>1, Places, WalkPages
<1>8. ASSUME Collected(w)  PROVE Collected(v)
  <2>1. /\ w.stay \subseteq Now(w)
        /\ \A i \in w.stay : Place(w, i) < Past(w) => i \in ToSet(w.seen)
        /\ w.total # Null => w.total = Cardinality(Now(w))
    BY <1>8 DEF Collected
  <2>2. \A i \in w.stay : Place(w, i) < Upto(w) => i \in ToSet(w.seen) \cup ToSet(rows)
    BY <2>1, <1>2, <1>7
  <2>3. w.total # Null /\ w.total <= Upto(w) => w.stay \subseteq ToSet(w.seen) \cup ToSet(rows)
    <3> SUFFICES ASSUME w.total # Null, w.total <= Upto(w), NEW i \in w.stay
                 PROVE  i \in ToSet(w.seen) \cup ToSet(rows)
      OBVIOUS
    <3>1. i \in Now(w) /\ w.total = Cardinality(Now(w))  BY <2>1
    <3>2. Place(w, i) < Upto(w)  BY <3>1, <1>7
    <3> QED  BY <3>2, <2>2
  <2> QED  BY <2>1, <2>2, <2>3, <1>3, <1>4, <1>5 DEF Collected, Reached
<1>9. ASSUME Undisturbed(w)  PROVE Undisturbed(v)
  BY <1>2, <1>3, <1>4, <1>5, <1>6, <1>9 DEF Undisturbed
<1> QED  BY <1>3, <1>8, <1>9 DEF Walked, v

LEMMA PageCounted ==
  ASSUME Base, NEW w, Walked(w), w.pc = "ask", w.total = Null,
         NEW n, n = Cardinality(Now(w))
  PROVE  Walked([w EXCEPT !.total = n])
<1> DEFINE v == [w EXCEPT !.total = n]
<1>1. w \in Walk  BY DEF Walked
<1>2. /\ Past(w) \in Nat /\ Upto(w) \in Nat /\ n \in Nat /\ \A i : Place(w, i) \in Nat
      /\ \A i \in Now(w) : Place(w, i) < n
  BY <1>1, Places, WalkPages
<1>3. /\ v \in Walk /\ v.total = n /\ v.pc = w.pc /\ v.page = w.page /\ v.size = w.size
      /\ v.rows = w.rows /\ v.seen = w.seen /\ v.stay = w.stay /\ v.met = w.met
      /\ v.table = w.table /\ v.search = w.search /\ v.sort = w.sort /\ v.dir = w.dir
  BY <1>1, <1>2, SetTotal
<1> HIDE DEF v
<1>4. Now(v) = Now(w) /\ \A i : Place(v, i) = Place(w, i)
  BY <1>3, SameList DEF SameQuery
<1>5. Past(v) = Past(w) /\ Upto(v) = Upto(w) /\ Reached(v) = Reached(w)
  BY <1>3 DEF Past, Upto, Reached
<1>6. PageLength(v) = PageLength(w)  BY <1>4, <1>5 DEF PageLength
<1>7. ASSUME Collected(w)  PROVE Collected(v)
  <2>1. /\ w.stay \subseteq Now(w)
        /\ w.rows # Null => \A i \in w.stay : Place(w, i) < Upto(w) => i \in Reached(w)
    BY <1>7 DEF Collected
  <2>2. w.rows # Null /\ n <= Upto(w) => w.stay \subseteq Reached(w)
    <3> SUFFICES ASSUME w.rows # Null, n <= Upto(w), NEW i \in w.stay  PROVE i \in Reached(w)
      OBVIOUS
    <3>1. Place(w, i) < Upto(w)  BY <2>1, <1>2
    <3> QED  BY <3>1, <2>1
  <2> QED  BY <2>1, <2>2, <1>3, <1>4, <1>5, <1>7 DEF Collected
<1>8. ASSUME Undisturbed(w)  PROVE Undisturbed(v)
  BY <1>3, <1>4, <1>5, <1>6, <1>8 DEF Undisturbed
<1> QED  BY <1>3, <1>7, <1>8 DEF Walked, v

LEMMA Joined ==
  ASSUME NEW S, NEW a \in Seq(S), NEW b \in Seq(S)
  PROVE  /\ a \o b \in Seq(S) /\ ToSet(a \o b) = ToSet(a) \cup ToSet(b)
         /\ IsInjective(a) /\ IsInjective(b) /\ ToSet(a) \cap ToSet(b) = {} => IsInjective(a \o b)
<1> DEFINE c == a \o b
           m == Len(a)
           n == Len(b)
<1>1. m \in Nat /\ n \in Nat /\ DOMAIN a = 1 .. m /\ DOMAIN b = 1 .. n  BY LenProperties
<1>2. /\ c \in Seq(S) /\ Len(c) = m + n
      /\ \A i \in 1 .. m + n : c[i] = IF i <= m THEN a[i] ELSE b[i - m]
  BY ConcatProperties
<1> HIDE DEF c, m, n
<1>3. DOMAIN c = 1 .. m + n  BY <1>2, LenProperties
<1>4. \A i \in 1 .. m : i \in 1 .. m + n /\ c[i] = a[i]  BY <1>1, <1>2
<1>5. \A i \in 1 .. n : m + i \in 1 .. m + n /\ c[m + i] = b[i]
  <2> SUFFICES ASSUME NEW i \in 1 .. n  PROVE m + i \in 1 .. m + n /\ c[m + i] = b[i]  OBVIOUS
  <2>1. m + i \in 1 .. m + n /\ ~(m + i <= m) /\ (m + i) - m = i  BY <1>1
  <2> QED  BY <2>1, <1>2
<1>6. \A i \in 1 .. m + n : \/ i \in 1 .. m /\ c[i] = a[i]
                            \/ i - m \in 1 .. n /\ c[i] = b[i - m] /\ ~(i \in 1 .. m)
  BY <1>1, <1>2
<1>7. ToSet(c) = ToSet(a) \cup ToSet(b)
  <2>1. ToSet(c) \subseteq ToSet(a) \cup ToSet(b)  BY <1>1, <1>3, <1>6 DEF ToSet
  <2>2. ToSet(a) \subseteq ToSet(c)  BY <1>1, <1>3, <1>4 DEF ToSet
  <2>3. ToSet(b) \subseteq ToSet(c)  BY <1>1, <1>3, <1>5 DEF ToSet
  <2> QED  BY <2>1, <2>2, <2>3
<1>8. ASSUME IsInjective(a), IsInjective(b), ToSet(a) \cap ToSet(b) = {}  PROVE IsInjective(c)
  <2>1. ASSUME NEW i \in 1 .. m + n, NEW j \in 1 .. m + n, c[i] = c[j]  PROVE i = j
    <3>0. i \in Int /\ j \in Int  BY <1>1
    <3>1. CASE i \in 1 .. m /\ j \in 1 .. m  BY <3>1, <2>1, <1>1, <1>4, <1>8 DEF IsInjective
    <3>2. CASE i \notin 1 .. m /\ j \notin 1 .. m
      <4>1. i - m \in 1 .. n /\ j - m \in 1 .. n /\ b[i - m] = b[j - m]
        BY <3>2, <2>1, <1>6
      <4>2. i - m = j - m  BY <4>1, <1>1, <1>8 DEF IsInjective
      <4> QED  BY <4>2, <3>0, <1>1
    <3>3. CASE i \in 1 .. m /\ j \notin 1 .. m
      <4>1. c[i] \in ToSet(a) /\ c[j] \in ToSet(b)  BY <3>3, <1>1, <1>4, <1>6 DEF ToSet
      <4> QED  BY <4>1, <2>1, <1>8
    <3>4. CASE i \notin 1 .. m /\ j \in 1 .. m
      <4>1. c[j] \in ToSet(a) /\ c[i] \in ToSet(b)  BY <3>4, <1>1, <1>4, <1>6 DEF ToSet
      <4> QED  BY <4>1, <2>1, <1>8
    <3> QED  BY <3>1, <3>2, <3>3, <3>4
  <2> QED  BY <2>1, <1>3 DEF IsInjective
<1> QED  BY <1>2, <1>7, <1>8 DEF c

LEMMA PageFollowed ==
  ASSUME Base, NEW w, Walked(w), w.pc = "ask", w.rows # Null, w.total # Null,
         NEW got, got = [w EXCEPT !.seen = w.seen \o w.rows, !.rows = Null, !.total = Null],
         NEW next, next = NextPage(w.total, w.page, w.size)
  PROVE  /\ next = NaN => Walked([got EXCEPT !.pc = "done"])
         /\ next # NaN => Walked([got EXCEPT !.page = next])
<1>1. w \in Walk  BY DEF Walked
<1>2. w.seen \in Seq(Ids) /\ w.rows \in Seq(Ids) /\ w.total \in Nat  BY <1>1 DEF Walk
<1> DEFINE all == w.seen \o w.rows
<1>3. /\ all \in Seq(Ids) /\ ToSet(all) = ToSet(w.seen) \cup ToSet(w.rows)
      /\ ToSet(all) = Reached(w)
      /\ IsInjective(w.seen) /\ IsInjective(w.rows) /\ ToSet(w.seen) \cap ToSet(w.rows) = {}
           => IsInjective(all)
  BY <1>2, Joined DEF Reached
<1> HIDE DEF all
<1>4. /\ got \in Walk /\ got.seen = all /\ got.rows = Null /\ got.total = Null
      /\ got.pc = w.pc /\ got.page = w.page /\ got.size = w.size
      /\ got.stay = w.stay /\ got.met = w.met
      /\ got.table = w.table /\ got.search = w.search /\ got.sort = w.sort /\ got.dir = w.dir
  BY <1>1, <1>3 DEF Walk, all
<1>5. /\ w.page \in Nat \ {0} /\ w.size \in Nat \ {0} /\ Past(w) \in Nat /\ Upto(w) \in Nat
      /\ Upto(w) = Past(w) + w.size /\ Cardinality(Now(w)) \in Nat
      /\ \A i : Place(w, i) \in Nat
  BY <1>1, Places, WalkPages
<1>6. w.page < LastPage(w.total, w.size) <=> Upto(w) < w.total
  BY <1>2, <1>5, LastPages DEF Past, Upto
<1>7. w.page + 1 \in Nat \ {0} /\ w.page + 1 # NaN  BY <1>5, ListingsAssumption
<1>8. next = IF Upto(w) < w.total THEN w.page + 1 ELSE NaN  BY <1>6 DEF NextPage
<1>9. w.met = {} /\ Undisturbed(w) => IsInjective(all)
  <2> SUFFICES ASSUME Undisturbed(w)  PROVE IsInjective(all)  OBVIOUS
  <2>1. /\ \A i \in ToSet(w.seen) : Place(w, i) < Past(w)
        /\ \A i \in ToSet(w.rows) : Past(w) <= Place(w, i)
        /\ IsInjective(w.seen) /\ IsInjective(w.rows)
    BY DEF Undisturbed
  <2>2. ToSet(w.seen) \cap ToSet(w.rows) = {}  BY <2>1, <1>5
  <2> QED  BY <2>1, <2>2, <1>3
<1>10. ASSUME next = NaN  PROVE Walked([got EXCEPT !.pc = "done"])
  <2> DEFINE v == [got EXCEPT !.pc = "done"]
  <2>1. v \in Walk /\ v.pc = "done" /\ v.seen = all /\ v.stay = w.stay /\ v.met = w.met
    <3>1. PICK u : u = got  OBVIOUS
    <3>2. u \in Walk /\ u.seen = all /\ u.stay = w.stay /\ u.met = w.met  BY <3>1, <1>4
    <3>3. v = [u EXCEPT !.pc = "done"]  BY <3>1
    <3> HIDE DEF v
    <3> QED  BY <3>2, <3>3, SetDone
  <2> HIDE DEF v
  <2>2. w.total <= Upto(w)  BY <1>2, <1>5, <1>7, <1>8, <1>10
  <2>3. Collected(w) => Collected(v)  BY <2>1, <2>2, <1>3 DEF Collected
  <2>4. w.met = {} /\ Undisturbed(w) => Undisturbed(v)  BY <2>1, <1>9 DEF Undisturbed
  <2> QED  BY <2>1, <2>3, <2>4 DEF Walked, v
<1>11. ASSUME next # NaN  PROVE Walked([got EXCEPT !.page = next])
  <2> DEFINE v == [got EXCEPT !.page = next]
  <2>0. next = w.page + 1 /\ Upto(w) < w.total  BY <1>8, <1>11
  <2>1. /\ v \in Walk /\ v.pc = "ask" /\ v.page = w.page + 1 /\ v.size = w.size
        /\ v.rows = Null /\ v.total = Null /\ v.seen = all /\ v.stay = w.stay /\ v.met = w.met
        /\ v.table = w.table /\ v.search = w.search /\ v.sort = w.sort /\ v.dir = w.dir
    <3>1. PICK u : u = got  OBVIOUS
    <3>2. /\ u \in Walk /\ u.seen = all /\ u.rows = Null /\ u.total = Null
          /\ u.pc = "ask" /\ u.size = w.size /\ u.stay = w.stay /\ u.met = w.met
          /\ u.table = w.table /\ u.search = w.search /\ u.sort = w.sort /\ u.dir = w.dir
      BY <3>1, <1>4
    <3>3. next \in Nat \ {0}  BY <2>0, <1>5
    <3>4. v = [u EXCEPT !.page = next]  BY <3>1
    <3> HIDE DEF v
    <3> QED  BY <2>0, <3>2, <3>3, <3>4, SetPage
  <2> HIDE DEF v
  <2>2. Now(v) = Now(w) /\ \A i : Place(v, i) = Place(w, i)
    BY <2>1, SameList DEF SameQuery
  <2>3. Past(v) = Upto(w)  BY <2>1, <1>5, SkipNat DEF Past, Upto
  <2>4. Collected(w) => Collected(v)
    BY <2>1, <2>2, <2>3, <1>3 DEF Collected
  <2>5. ASSUME w.met = {}, Undisturbed(w)  PROVE Undisturbed(v)
    <3>1. \A i \in ToSet(all) : i \in Now(w) /\ Place(w, i) < Upto(w)
      <4>1. /\ \A i \in ToSet(w.seen) : i \in Now(w) /\ Place(w, i) < Past(w)
            /\ \A i \in ToSet(w.rows) : i \in Now(w) /\ Place(w, i) < Upto(w)
        BY <2>5 DEF Undisturbed
      <4>2. \A i \in ToSet(w.seen) : Place(w, i) < Upto(w)  BY <4>1, <1>5
      <4> QED  BY <4>1, <4>2, <1>3
    <3>2. Upto(w) < Cardinality(Now(w))  BY <2>0, <2>5 DEF Undisturbed
    <3> QED  BY <3>1, <3>2, <2>1, <2>2, <2>3, <2>5, <1>9 DEF Undisturbed
  <2> QED  BY <2>1, <2>4, <2>5 DEF Walked, v
<1> QED  BY <1>10, <1>11

\* What a change of the tables does to the list of a walk under way.
LEMMA ListChanged ==
  ASSUME NEW w \in Walk,
         \A r \in ListRows(w.table, w.search) : \E s \in ListRows(w.table, w.search)' :
           s.id = r.id /\ s.key[w.sort] = r.key[w.sort]
  PROVE  /\ Now(w) \subseteq Now(w)' /\ Now(w)' \subseteq Ids
         /\ \A i \in Now(w) : Place(w, i) <= Place(w, i)'
         /\ (\A s \in ListRows(w.table, w.search)' :
               \E r \in ListRows(w.table, w.search) : r.id = s.id)
            => Now(w)' = Now(w) /\ \A i \in Now(w) : Place(w, i)' = Place(w, i)
<1> DEFINE key(i) == Listable(w.table, i).key[w.sort]
<1>1. /\ ListRows(w.table, w.search) = {Listable(w.table, i) : i \in Now(w)}
      /\ ListRows(w.table, w.search)' = {Listable(w.table, i)' : i \in Now(w)'}
  BY DEF ListRows, Now
<1>2. \A i : Listable(w.table, i).id = i /\ Listable(w.table, i)'.id = i  BY DEF Listable
<1>3. \A i \in Now(w) : i \in Now(w)' /\ key(i)' = key(i)  BY <1>1, <1>2
<1>4. Now(w) \subseteq Ids /\ Now(w)' \subseteq Ids  BY DEF Now, Listed, Live
<1>5. IsFiniteSet(Now(w)')
  <2>1. IsFiniteSet(Ids)  BY AccountsAssumption, FS_Interval DEF Ids
  <2> QED  BY <2>1, <1>4, FS_Subset
<1>6. \A i, j \in Now(w) : Before(Listable(w.table, j), Listable(w.table, i), w.sort, w.dir)'
                           <=> Before(Listable(w.table, j), Listable(w.table, i), w.sort, w.dir)
  BY <1>2, <1>3 DEF Before
<1>7. \A i \in Now(w) : Ahead(w, i) \subseteq Ahead(w, i)'  BY <1>3, <1>6 DEF Ahead
<1>8. \A i : Ahead(w, i)' \subseteq Now(w)'  BY DEF Ahead
<1>9. \A i \in Now(w) : Place(w, i) <= Place(w, i)'
  <2> SUFFICES ASSUME NEW i \in Now(w)  PROVE Place(w, i) <= Place(w, i)'  OBVIOUS
  <2>1. IsFiniteSet(Ahead(w, i)')  BY <1>5, <1>8, FS_Subset
  <2> QED  BY <2>1, <1>7, FS_Subset DEF Place
<1>10. ASSUME \A s \in ListRows(w.table, w.search)' :
                \E r \in ListRows(w.table, w.search) : r.id = s.id
       PROVE  Now(w)' = Now(w) /\ \A i \in Now(w) : Place(w, i)' = Place(w, i)
  <2>1. ASSUME NEW i \in Now(w)'  PROVE i \in Now(w)
    <3>1. PICK r \in ListRows(w.table, w.search) : r.id = Listable(w.table, i)'.id
      BY <1>1, <1>10
    <3>2. PICK j \in Now(w) : r = Listable(w.table, j)  BY <1>1
    <3> QED  BY <3>1, <3>2, <1>2
  <2>2. Now(w)' = Now(w)  BY <2>1, <1>3
  <2>3. \A i \in Now(w) : Ahead(w, i)' = Ahead(w, i)  BY <2>2, <1>6 DEF Ahead
  <2> QED  BY <2>2, <2>3 DEF Place
<1> QED  BY <1>3, <1>4, <1>9, <1>10

\* A walk that meets a change keeps everything but its notes about changes.
Meets(v, w, met) ==
  /\ v \in Walk /\ v.met = met /\ v.pc = w.pc /\ v.page = w.page /\ v.size = w.size
  /\ v.rows = w.rows /\ v.total = w.total /\ v.seen = w.seen /\ v.stay = w.stay
  /\ v.table = w.table /\ v.search = w.search /\ v.sort = w.sort /\ v.dir = w.dir

LEMMA WalkWatches ==
  ASSUME Base, NEW w, Walked(w), w.pc = "ask",
         NEW gone \in BOOLEAN, NEW came \in BOOLEAN,
         gone <=> \E r \in ListRows(w.table, w.search) : ~\E s \in ListRows(w.table, w.search)' :
                    s.id = r.id /\ s.key[w.sort] = r.key[w.sort],
         came <=> \E s \in ListRows(w.table, w.search)' :
                    ~\E r \in ListRows(w.table, w.search) : r.id = s.id,
         NEW met, met = w.met \cup (IF gone THEN {"gone"} ELSE {})
                               \cup (IF came THEN {"came"} ELSE {})
                               \cup (IF came /\ ((w.rows = Null) # (w.total = Null))
                                     THEN {"torn"} ELSE {}),
         NEW v, Meets(v, w, met)
  PROVE  Walked(v)'
<1>1. w \in Walk  BY DEF Walked
<1>2. /\ v \in Walk /\ v.met = met /\ v.pc = w.pc /\ v.page = w.page /\ v.size = w.size
      /\ v.rows = w.rows /\ v.total = w.total /\ v.seen = w.seen /\ v.stay = w.stay
      /\ v.table = w.table /\ v.search = w.search /\ v.sort = w.sort /\ v.dir = w.dir
  BY DEF Meets
<1>3. /\ Now(v)' = Now(w)' /\ \A i : Place(v, i)' = Place(w, i)'
  <2>1. Now(v)' = Now(w)'  BY <1>2 DEF Now
  <2>2. \A i : Ahead(v, i)' = Ahead(w, i)'  BY <2>1, <1>2 DEF Ahead
  <2> QED  BY <2>1, <2>2 DEF Place
<1>4. Past(v)' = Past(w) /\ Upto(v)' = Upto(w) /\ Reached(v)' = Reached(w)
  BY <1>2 DEF Past, Upto, Reached
<1>5. "gone" \notin met => ~gone  BY Zenon
<1>6. met = {} => ~gone /\ ~came /\ w.met = {}
  <2>1. "came" \notin met => ~came  BY Zenon
  <2> QED  BY <1>5, <2>1
<1>7. ASSUME met \cap {"gone", "torn"} = {}  PROVE Collected(v)'
  <2>1. ~gone /\ w.met \cap {"gone", "torn"} = {}  BY <1>5, <1>7
  <2>2. (w.rows = Null) # (w.total = Null) => ~came
    <3>1. "torn" \notin met  BY <1>7
    <3> QED  BY <3>1, Zenon
  <2>3. /\ Now(w) \subseteq Now(w)' /\ Now(w)' \subseteq Ids
        /\ \A i \in Now(w) : Place(w, i) <= Place(w, i)'
        /\ ~came => Now(w)' = Now(w)
    BY <2>1, <1>1, ListChanged
  <2>4. /\ w.stay \subseteq Now(w)
        /\ \A i \in w.stay : Place(w, i) < Past(w) => i \in ToSet(w.seen)
        /\ w.rows # Null => \A i \in w.stay : Place(w, i) < Upto(w) => i \in Reached(w)
        /\ w.rows = Null /\ w.total # Null => w.total = Cardinality(Now(w))
        /\ w.rows # Null /\ w.total # Null /\ w.total <= Upto(w) => w.stay \subseteq Reached(w)
    BY <2>1 DEF Walked, Collected
  <2>5. \A i : Place(w, i) \in Nat  BY <1>1, Places
  <2>6. \A i \in Now(w) : Place(w, i)' \in Nat
    <3>1. IsFiniteSet(Ids)  BY AccountsAssumption, FS_Interval DEF Ids
    <3>2. \A i : Ahead(w, i)' \subseteq Ids  BY <2>3 DEF Ahead
    <3>3. \A i : Cardinality(Ahead(w, i)') \in Nat  BY <3>1, <3>2, FS_Subset, FS_CardinalityType
    <3> QED  BY <3>3 DEF Place
  <2>7. Past(w) \in Nat /\ Upto(w) \in Nat  BY <1>1, WalkPages
  <2>8. \A i \in w.stay : Place(w, i)' < Past(w) => i \in ToSet(w.seen)
    BY <2>3, <2>4, <2>5, <2>6, <2>7
  <2>9. w.rows # Null => \A i \in w.stay : Place(w, i)' < Upto(w) => i \in Reached(w)
    BY <2>3, <2>4, <2>5, <2>6, <2>7
  <2>10. w.rows = Null /\ w.total # Null => w.total = Cardinality(Now(w)')
    BY <2>2, <2>3, <2>4
  <2>11. w.stay \subseteq Now(w)'  BY <2>3, <2>4
  <2> QED  BY <2>4, <2>8, <2>9, <2>10, <2>11, <1>2, <1>3, <1>4 DEF Collected
<1>8. ASSUME met = {}  PROVE Undisturbed(v)'
  <2>1. ~gone /\ ~came /\ w.met = {}  BY <1>6, <1>8
  <2>2. Now(w)' = Now(w) /\ \A i \in Now(w) : Place(w, i)' = Place(w, i)
    BY <2>1, <1>1, ListChanged
  <2>3. Undisturbed(w)  BY <2>1 DEF Walked
  <2>4. PageLength(v)' = PageLength(w)  BY <2>2, <1>3, <1>4 DEF PageLength
  <2> QED  BY <2>2, <2>3, <2>4, <1>2, <1>3, <1>4 DEF Undisturbed
<1>9. (v \in Walk)'  BY <1>2 DEF Walk
<1> QED  BY <1>2, <1>7, <1>8, <1>9 DEF Walked

\* A walk that is not under way is not disturbed.
LEMMA WalkRests ==
  ASSUME NEW w, Walked(w), w.pc # "ask"
  PROVE  Walked(w)'
<1>1. Collected(w) => Collected(w)'  BY DEF Collected
<1>2. Undisturbed(w) => Undisturbed(w)'  BY DEF Undisturbed
<1> QED  BY <1>1, <1>2 DEF Walked, Walk

LEMMA Watching ==
  ASSUME Base, Walked(walk), Observed
  PROVE  Walked(walk)'
<1>0. PICK w : w = walk  OBVIOUS
<1> DEFINE gone == \E r \in ListRows(w.table, w.search) : ~\E s \in ListRows(w.table, w.search)' :
                     s.id = r.id /\ s.key[w.sort] = r.key[w.sort]
           came == \E s \in ListRows(w.table, w.search)' :
                     ~\E r \in ListRows(w.table, w.search) : r.id = s.id
           met == w.met \cup (IF gone THEN {"gone"} ELSE {})
                        \cup (IF came THEN {"came"} ELSE {})
                        \cup (IF came /\ ((w.rows = Null) # (w.total = Null))
                              THEN {"torn"} ELSE {})
<1>1. walk' = IF w.pc # "ask" \/ tbl' = tbl THEN w ELSE [w EXCEPT !.met = met]
  BY <1>0, SMTT(20) DEF Observed
<1>2. Walked(w)  BY <1>0
<1>3. PICK v : v = walk'  OBVIOUS
<1>4. CASE w.pc # "ask"
  <2>1. v = w  BY <1>1, <1>3, <1>4
  <2> QED  BY <2>1, <1>2, <1>3, <1>4, WalkRests
<1>5. CASE w.pc = "ask" /\ tbl' = tbl
  <2>1. v = w  BY <1>1, <1>3, <1>5
  <2> QED  BY <2>1, <1>2, <1>3, <1>5, SameTables
<1>6. CASE w.pc = "ask" /\ tbl' # tbl
  <2>1. gone \in BOOLEAN /\ came \in BOOLEAN  OBVIOUS
  <2>2. PICK g1 \in BOOLEAN : g1 <=> gone  BY <2>1
  <2>3. PICK c1 \in BOOLEAN : c1 <=> came  BY <2>1
  <2>4. PICK m : m = w.met \cup (IF g1 THEN {"gone"} ELSE {})
                            \cup (IF c1 THEN {"came"} ELSE {})
                            \cup (IF c1 /\ ((w.rows = Null) # (w.total = Null))
                                  THEN {"torn"} ELSE {})
    OBVIOUS
  <2>5. v = [w EXCEPT !.met = m]
    <3>1. v = [w EXCEPT !.met = met]  BY <1>1, <1>3, <1>6
    <3> HIDE DEF gone, came
    <3>2. met = m  BY <2>2, <2>3, <2>4
    <3> QED  BY <3>1, <3>2
  <2>6. w \in Walk /\ m \in SUBSET {"gone", "came", "torn"}
    <3>1. w \in Walk  BY <1>2 DEF Walked
    <3>2. w.met \subseteq {"gone", "came", "torn"}  BY <3>1 DEF Walk
    <3> QED  BY <3>1, <3>2, <2>4
  <2>7. Meets(v, w, m)  BY <2>5, <2>6, SetMet DEF Meets
  <2>8. Walked(v)'  BY <1>2, <1>6, <2>2, <2>3, <2>4, <2>7, WalkWatches
  <2> QED  BY <2>8, <1>3
<1> QED  BY <1>4, <1>5, <1>6

LEMMA BaseKept ==
  ASSUME Base, UNCHANGED <<tbl, files, uploads, log, req>>
  PROVE  Base'
<1>1. Types' /\ Blank'  BY DEF Base, Types, Blank, Exists
<1>2. Alone'  BY DEF Base, Alone, InTransaction
<1>3. \A t, i : Exists(t, i)' <=> Exists(t, i)  BY DEF Exists
<1>4. \A r : Written(r)' = Written(r)  BY DEF Written
<1>5. \A r : Placed(r) => Placed(r)'  BY <1>3, <1>4 DEF Placed
<1>6. \A p \in Handlers : (Planned(req[p]) /\ Placed(req[p]))'  BY <1>5 DEF Base
<1> QED  BY <1>1, <1>2, <1>6 DEF Base

LEMMA NewWalk ==
  ASSUME Base, NEW t \in Tables, NEW sortParam, NEW dirParam, NEW search \in Words,
         NEW sizeParam \in Sizes, StartWalk(t, sortParam, dirParam, search, sizeParam)
  PROVE  Walked(walk)'
<1>0. PICK v : v = walk'  OBVIOUS
<1> DEFINE sort == SortBy({"createdAt", "name"}, sortParam, "createdAt")
           dir == SortDir(dirParam, "desc")
           size == PerPage(sizeParam)
<1>1. sort \in SortKeys /\ dir \in {"asc", "desc"}  BY DEF SortBy, SortDir, SortKeys
<1>2. size \in 1 .. 100 /\ Page(NaN) = 1
  <2>1. size \in 1 .. 100  BY ListingsAssumption, Parameters
  <2>2. Max({1, 1}) = 1  BY MaxMin
  <2> QED  BY <2>1, <2>2 DEF Page
<1> HIDE DEF sort, dir, size
<1>3. v = [NoWalk EXCEPT !.pc = "ask", !.table = t, !.search = search, !.sort = sort,
             !.dir = dir, !.size = size, !.page = 1, !.stay = Listed(t, search)]
  BY <1>0, <1>2 DEF StartWalk, sort, dir, size
<1>4. Listed(t, search) \subseteq Ids  BY DEF Listed, Live
<1>5. /\ v.pc = "ask" /\ v.page = 1 /\ v.rows = Null /\ v.total = Null /\ v.seen = <<>>
      /\ v.table = t /\ v.search = search /\ v.stay = Listed(t, search)
  BY <1>3 DEF NoWalk
<1>6. v \in Walk
  <2>1. <<>> \in Seq(Ids)  BY EmptySeq
  <2>2. v = [pc |-> "ask", table |-> t, sort |-> sort, dir |-> dir, search |-> search,
             size |-> size, page |-> 1, rows |-> Null, total |-> Null, seen |-> <<>>,
             stay |-> Listed(t, search), met |-> {}]
    BY <1>3 DEF NoWalk
  <2> QED  BY <1>1, <1>2, <1>4, <2>1, <2>2 DEF Walk
<1>7. Walked(v)  BY <1>5, <1>6, WalkStarts DEF Now
<1>8. tbl' = tbl  BY DEF StartWalk
<1> QED  BY <1>0, <1>7, <1>8, SameTables

LEMMA ListInitInv == ListInit => ListInv
<1> SUFFICES ASSUME ListInit  PROVE ListInv  OBVIOUS
<1>1. Base  BY InitBase DEF ListInit
<1>2. walk = NoWalk  BY DEF ListInit
<1>3. walk \in Walk
  <2>1. <<>> \in Seq(Ids)  BY EmptySeq
  <2> QED  BY <1>2, <2>1 DEF NoWalk, Walk, Words, SortKeys, Tables
<1>4. walk.pc = "idle" /\ walk.seen = <<>>  BY <1>2 DEF NoWalk
<1>5. Collected(walk) /\ Undisturbed(walk)
  <2>1. IsInjective(walk.seen)  BY <1>4 DEF IsInjective
  <2> QED  BY <1>4, <2>1 DEF Collected, Undisturbed
<1> QED  BY <1>1, <1>3, <1>5 DEF ListInv, Walked

LEMMA ListNextInv == ListInv /\ [ListNext]_<<vars, walk>> => ListInv'
<1> SUFFICES ASSUME ListInv, [ListNext]_<<vars, walk>>  PROVE ListInv'  OBVIOUS
<1>0. Base /\ Walked(walk)  BY DEF ListInv
<1>1. PICK w : w = walk  OBVIOUS
<1>2. PICK v : v = walk'  OBVIOUS
<1>3. UNCHANGED vars => Base' /\ tbl' = tbl  BY <1>0, NextBase DEF vars
<1>4. CASE Next /\ Observed
  <2>1. Base'  BY <1>0, <1>4, NextBase
  <2>2. Walked(walk)'  BY <1>0, <1>4, Watching
  <2> QED  BY <2>1, <2>2 DEF ListInv
<1>5. ASSUME NEW t \in Tables, NEW sort \in {"name", "password"}, NEW dir \in {"", "asc"},
             NEW search \in {Null} \cup Emails \cup (UNION {ToSet(n) : n \in Names} \ {Punct}),
             NEW size \in Sizes, StartWalk(t, sort, dir, search, size)
      PROVE  ListInv'
  <2>1. search \in Words  BY DEF Words
  <2>2. Walked(walk)'  BY <1>0, <1>5, <2>1, NewWalk
  <2>3. Base'  BY <1>0, <1>5, BaseKept DEF StartWalk
  <2> QED  BY <2>2, <2>3 DEF ListInv
<1>6. CASE FindMany
  <2>1. PICK s \in Orders(ListRows(w.table, w.search), w.sort, w.dir) :
          v = [w EXCEPT !.rows = [n \in DOMAIN Window(s, w.page, w.size) |->
                                    Window(s, w.page, w.size)[n].id]]
    BY <1>1, <1>2, <1>6 DEF FindMany
  <2>4. PICK rows : rows = [n \in DOMAIN Window(s, w.page, w.size) |->
                              Window(s, w.page, w.size)[n].id]
    OBVIOUS
  <2>5. w.pc = "ask" /\ w.rows = Null  BY <1>1, <1>6 DEF FindMany
  <2>6. Walked([w EXCEPT !.rows = rows])  BY <1>0, <1>1, <2>4, <2>5, PageFound
  <2>2. Walked(v)  BY <2>1, <2>4, <2>6
  <2>3. UNCHANGED vars  BY <1>6 DEF FindMany
  <2> QED  BY <1>2, <1>3, <2>2, <2>3, SameTables DEF ListInv
<1>7. CASE Count
  <2>1. v = [w EXCEPT !.total = Cardinality(Now(w))]  BY <1>1, <1>2, <1>7 DEF Count, Now
  <2>2. Walked(v)  BY <1>0, <1>1, <1>7, <2>1, PageCounted DEF Count
  <2>3. UNCHANGED vars  BY <1>7 DEF Count
  <2> QED  BY <1>2, <1>3, <2>2, <2>3, SameTables DEF ListInv
<1>8. CASE FollowNext
  <2>1. PICK next : next = NextPage(w.total, w.page, w.size)  OBVIOUS
  <2>2. PICK got : got = [w EXCEPT !.seen = w.seen \o w.rows, !.rows = Null, !.total = Null]
    OBVIOUS
  <2>3. v = IF next = NaN THEN [got EXCEPT !.pc = "done"] ELSE [got EXCEPT !.page = next]
    BY <1>1, <1>2, <1>8, <2>1, <2>2 DEF FollowNext
  <2>4. Walked(v)  BY <1>0, <1>1, <1>8, <2>1, <2>2, <2>3, PageFollowed DEF FollowNext
  <2>5. UNCHANGED vars  BY <1>8 DEF FollowNext
  <2> QED  BY <1>2, <1>3, <2>4, <2>5, SameTables DEF ListInv
<1>9. CASE UNCHANGED <<vars, walk>>
  <2>1. v = w /\ UNCHANGED vars  BY <1>1, <1>2, <1>9
  <2> QED  BY <1>0, <1>1, <1>2, <1>3, <2>1, SameTables DEF ListInv
<1> QED  BY <1>4, <1>5, <1>6, <1>7, <1>8, <1>9 DEF ListNext

\* The numbers of a response.
LEMMA ResponseFits ==
  ASSUME ListInv
  PROVE  PageFits
<1> SUFFICES ASSUME walk.pc = "ask", walk.rows # Null, walk.total # Null
             PROVE  /\ SmallPages
                    /\ walk.met = {} =>
                         LET from == From(walk.total, walk.page, walk.size)
                             to == To(walk.total, walk.page, walk.size) IN
                         IF walk.total = 0 THEN from = NaN /\ to = NaN /\ walk.rows = <<>>
                         ELSE to - from + 1 = Len(walk.rows) /\ from >= 1 /\ to <= walk.total
  BY DEF PageFits
<1>1. SmallPages
  <2>1. {NaN, -1, 0, 1, 2, 3, 7, 101} \in SUBSET (Int \cup {NaN}) /\ 0 .. 7 \in SUBSET Nat
    OBVIOUS
  <2> QED  BY <2>1, PagesAlwaysPartition DEF SmallPages
<1>2. ASSUME walk.met = {}
      PROVE  LET from == From(walk.total, walk.page, walk.size)
                 to == To(walk.total, walk.page, walk.size) IN
             IF walk.total = 0 THEN from = NaN /\ to = NaN /\ walk.rows = <<>>
             ELSE to - from + 1 = Len(walk.rows) /\ from >= 1 /\ to <= walk.total
  <2>0. PICK w : w = walk  OBVIOUS
  <2>1. Base /\ Walked(w) /\ w \in Walk  BY <2>0 DEF ListInv, Walked
  <2>2. /\ w.page = 1 \/ Past(w) < Cardinality(Now(w))
        /\ Len(w.rows) = PageLength(w) /\ w.total = Cardinality(Now(w))
    BY <1>2, <2>0, <2>1 DEF Walked, Undisturbed
  <2>3. w.rows \in Seq(Ids) /\ w.total \in Nat  BY <2>0, <2>1 DEF Walk
  <2>4. Past(w) \in Nat /\ Upto(w) = Past(w) + w.size /\ w.size \in Nat \ {0}
    BY <2>1, WalkPages
  <2>5. w.page = 1 => Past(w) = 0  BY <2>4 DEF Past, Skip
  <2>6. PageLength(w) = IF Past(w) < w.total
                        THEN (IF Upto(w) <= w.total THEN Upto(w) ELSE w.total) - Past(w) ELSE 0
    BY <2>2 DEF PageLength
  <2>7. CASE w.total = 0
    <3>1. Len(w.rows) = 0  BY <2>2, <2>4, <2>6, <2>7
    <3>2. w.rows = <<>>  BY <3>1, <2>3, EmptySeq
    <3>3. From(w.total, w.page, w.size) = NaN /\ To(w.total, w.page, w.size) = NaN
      BY <2>7 DEF From, To
    <3> QED  BY <3>2, <3>3, <2>0, <2>7
  <2>8. CASE w.total # 0
    <3>1. Past(w) < w.total  BY <2>2, <2>3, <2>4, <2>5, <2>8
    <3>2. From(w.total, w.page, w.size) = Past(w) + 1  BY <2>8 DEF From, Past
    <3>3. Upto(w) \in Int /\ w.total \in Int  BY <2>3, <2>4
    <3>4. Min({Upto(w), w.total}) = IF Upto(w) <= w.total THEN Upto(w) ELSE w.total
      BY <3>3, MaxMin
    <3>5. To(w.total, w.page, w.size) = IF Upto(w) <= w.total THEN Upto(w) ELSE w.total
      BY <3>4, <2>8 DEF To, Upto, Past
    <3>6. Past(w) + 1 >= 1 /\ To(w.total, w.page, w.size) <= w.total  BY <3>3, <3>5, <2>4
    <3>7. To(w.total, w.page, w.size) - (Past(w) + 1) + 1 = Len(w.rows)
      BY <3>1, <3>3, <3>5, <2>2, <2>4, <2>6
    <3> QED  BY <3>2, <3>6, <3>7, <2>0, <2>8
  <2> QED  BY <2>7, <2>8
<1> QED  BY <1>1, <1>2

(***************************************************************************)
(* A walk through the pages lists every row that was there all the time,   *)
(* and none twice, within the limits WalkListsAll names: because a row's   *)
(* place never decreases while rows only come, and because the page and    *)
(* the total of a response are then about one list.                        *)
(***************************************************************************)
THEOREM WalksListAll == ListSpec => []WalkListsAll
<1>1. ListInv => WalkListsAll
  <2> SUFFICES ASSUME ListInv  PROVE WalkListsAll  OBVIOUS
  <2>1. PageFits  BY ResponseFits
  <2>2. Walked(walk)  BY DEF ListInv
  <2>3. ASSUME walk.pc = "done", walk.met \cap {"gone", "torn"} = {}
        PROVE  walk.stay \subseteq ToSet(walk.seen)
    BY <2>2, <2>3 DEF Walked, Collected
  <2>4. ASSUME walk.met = {}  PROVE Len(walk.seen) = Cardinality(ToSet(walk.seen))
    <3>1. IsInjective(walk.seen) /\ walk.seen \in Seq(Ids)
      BY <2>2, <2>4 DEF Walked, Undisturbed, Walk
    <3> DEFINE s == walk.seen
               n == Len(s)
    <3>2. n \in Nat /\ DOMAIN s = 1 .. n  BY <3>1, LenProperties
    <3>3. s \in Bijection(1 .. n, ToSet(s))
      <4>1. s \in [1 .. n -> ToSet(s)]  BY <3>1, <3>2 DEF ToSet
      <4>2. \A i \in ToSet(s) : \E k \in 1 .. n : s[k] = i  BY <3>2 DEF ToSet
      <4>3. \A a, b \in 1 .. n : s[a] = s[b] => a = b  BY <3>1, <3>2 DEF IsInjective
      <4> QED  BY <4>1, <4>2, <4>3, Fun_IsBij
    <3> HIDE DEF n, s
    <3>4. ExistsBijection(1 .. n, ToSet(s))  BY <3>3 DEF ExistsBijection
    <3>5. Cardinality(1 .. n) = n /\ IsFiniteSet(1 .. n)  BY <3>2, FS_Interval
    <3>6. Cardinality(ToSet(s)) = n  BY <3>4, <3>5, FS_Bijection
    <3> QED  BY <3>6 DEF s, n
  <2> QED  BY <2>1, <2>3, <2>4 DEF WalkListsAll
<1> QED  BY <1>1, ListInitInv, ListNextInv, PTL DEF ListSpec
=============================================================================
