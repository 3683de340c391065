-------------------------------- MODULE Accounts --------------------------------
(***************************************************************************)
(* Users and roles as administrators, owners, registrations and seeders    *)
(* change them: check-then-write without unique indexes, slugs tried one   *)
(* candidate at a time, partial updates, avatar files and the audit log.   *)
(*                                                                         *)
(* Both tables go through one pipeline; op tells the handlers apart.  A    *)
(* name is a sequence of words, of which Punct stands for the ones made of *)
(* characters a slug drops; the numbers a taken slug is extended with are  *)
(* words too.  Passwords, types, descriptions and profile details are left *)
(* out: they are written like the fields kept here.  Caches and sessions   *)
(* are the subject of AccessCache and RefreshSessions.                     *)
(***************************************************************************)
EXTENDS Integers, Sequences, FiniteSets, FiniteSetsExt

CONSTANTS
  Handlers,      \* concurrent requests and seed runs
  Names, Emails,
  Punct,         \* the word that leaves no trace in a slug
  Perms,         \* ALL_PERMISSIONS
  SuperAdmin,    \* SUPER_ADMIN_SLUG
  AdminName, AdminEmail,
  DefaultRoles,  \* what REGISTRATION_DEFAULT_ROLE may be: slugs, or Null when unset
  Operations,    \* the operations that occur
  MaxRows,       \* bound on the rows of a table
  MaxRequests,   \* bound on the requests
  CanFail,       \* TRUE iff handlers may fail or die between two steps
  Null

ASSUME AccountsAssumption ==
  /\ Null \notin Names /\ Null \notin Emails /\ Null \notin Nat /\ Null # SuperAdmin
  /\ AdminName \in Names /\ AdminEmail \in Emails
  /\ MaxRows \in Nat \ {0, 1} /\ MaxRequests \in Nat /\ CanFail \in BOOLEAN

VARIABLES
  tbl,      \* the tables users and roles
  files,    \* the avatars on disk, numbered in the order of upload
  uploads,  \* how many avatars were ever uploaded
  log,      \* the newest activity_logs row about each row: the values it names
  req,      \* the handlers
  started,  \* how many requests were started
  raced,    \* history: <<written, other>> if other was committed during the request
  unasked,  \* history: users whose email was last changed without looking it up
  strays,   \* history: users put on a role that was already deleted
  lost      \* history: files removed for a change that was not committed

vars == <<tbl, files, uploads, log, req, started, raced, unasked, strays, lost>>
history == <<raced, unasked, strays, lost>>

Ids == 1 .. MaxRows
Tables == {"user", "role"}

\* A row of users or roles (title is name there); the columns of the other
\* table are empty.  An id that was not given out yet has no name.
NoRow == [name |-> Null, email |-> Null, slug |-> Null, role |-> Null,
          avatar |-> Null, access |-> {}, deleted |-> FALSE]

\* What a request sends; Null where it sends nothing.
NoData == [name |-> Null, email |-> Null, role |-> Null, avatar |-> Null, access |-> Null]

Idle == [pc |-> "idle", op |-> "none", table |-> "user", id |-> Null, old |-> NoRow,
         data |-> NoData, tries |-> 0, slug |-> Null, new |-> NoRow, cut |-> Null,
         aborted |-> FALSE, missing |-> {}, during |-> {}]

\* toSlug and the candidates of makeUniqueSlug.
ToSlug(name) == SelectSeq(name, LAMBDA word : word # Punct)
Candidate(name, tries) == IF tries = 0 THEN ToSlug(name) ELSE Append(ToSlug(name), tries)

ASSUME SeedAssumption == SuperAdmin # ToSlug(AdminName)

\* Seeded before a permission was added: the super-admin role, another role,
\* and one user on it.
Init ==
  /\ \E new \in Perms :
       tbl = [user |-> [i \in Ids |-> IF i = 1
                THEN [NoRow EXCEPT !.name = AdminName, !.email = AdminEmail,
                        !.slug = ToSlug(AdminName), !.role = 2, !.avatar = 1]
                ELSE NoRow],
              role |-> [i \in Ids |-> CASE i = 1 -> [NoRow EXCEPT !.name = SuperAdmin,
                                               !.slug = SuperAdmin, !.access = Perms \ {new}]
                                        [] i = 2 -> [NoRow EXCEPT !.name = AdminName, !.slug = ToSlug(AdminName)]
                                        [] OTHER -> NoRow]]
  /\ files = {1} /\ uploads = 1
  /\ log = [t \in Tables |-> [i \in Ids |-> Null]]
  /\ req = [p \in Handlers |-> Idle]
  /\ started = 0
  /\ raced = {} /\ unasked = {} /\ strays = {} /\ lost = {}

-----------------------------------------------------------------------------
(***************************************************************************)
(* Queries.  Deleted rows stay in the table and are not found.             *)
(***************************************************************************)
Exists(t, i) == tbl[t][i].name # Null
Live(t) == {i \in Ids : Exists(t, i) /\ ~tbl[t][i].deleted}

FindBySlug(t, slug) == {i \in Live(t) : tbl[t][i].slug = slug}
FindByEmail(email) == {i \in Live("user") : tbl["user"][i].email = email}
FindBySlugExcluding(t, slug, id) == FindBySlug(t, slug) \ {id}
CountUsers(r) == Cardinality({i \in Live("user") : tbl["user"][i].role = r})

Finish(p) == req' = [req EXCEPT ![p] = Idle]
Goto(p, label) == req' = [req EXCEPT ![p].pc = label]

\* An uploaded file gets a random name: a new number.
Stored(d, upload) == [d EXCEPT !.avatar = IF upload THEN uploads + 1 ELSE Null]

Upload(upload, removed) ==
  /\ uploads' = IF upload THEN uploads + 1 ELSE uploads
  /\ files' = (IF upload THEN files \cup {uploads + 1} ELSE files) \ removed

\* A request begins; removed are the files its first step deletes.
Begin(p, operation, upload, removed, r) ==
  /\ operation \in Operations
  /\ started' = started + 1
  /\ Upload(upload, removed)
  /\ req' = [req EXCEPT ![p] = r]
  /\ UNCHANGED <<tbl, log, history>>

-----------------------------------------------------------------------------
(***************************************************************************)
(* Requests, up to and with their first query.  The upload comes before    *)
(* everything else.                                                        *)
(***************************************************************************)
CreateUser(p, name, email, r, upload) ==
  Begin(p, "createUser", upload, {},
    [Idle EXCEPT !.pc = "email", !.op = "createUser",
       !.data = Stored([NoData EXCEPT !.name = name, !.email = email, !.role = r], upload)])

\* Registration in link mode.
Register(p, name, email) ==
  Begin(p, "register", FALSE, {},
    [Idle EXCEPT !.pc = "email", !.op = "register",
       !.data = [NoData EXCEPT !.name = name, !.email = email]])

Renamed(old, d) == d.name # Null /\ d.name # old.name

UpdateUser(p, i, name, email, r, upload) ==
  LET old == tbl["user"][i]
      d == Stored([NoData EXCEPT !.name = name, !.email = email, !.role = r], upload) IN
  /\ i \in Live("user")
  /\ Begin(p, "updateUser", upload, {},
       [Idle EXCEPT !.op = "updateUser", !.id = i, !.old = old, !.data = d,
          !.pc = IF email # Null /\ email # old.email THEN "email"
                 ELSE IF Renamed(old, d) THEN "slug" ELSE "avatar"])

\* The owner's own edit: the replaced avatar goes at once, and nobody looks
\* whether the new email is taken.
UpdateProfile(p, i, name, email, upload) ==
  LET old == tbl["user"][i]
      d == Stored([NoData EXCEPT !.name = name, !.email = email], upload)
      cut == IF upload THEN old.avatar ELSE Null IN
  /\ i \in Live("user")
  /\ Begin(p, "updateProfile", upload, {cut},
       [Idle EXCEPT !.op = "updateProfile", !.id = i, !.old = old, !.data = d,
          !.cut = cut, !.pc = IF Renamed(old, d) THEN "slug" ELSE "write"])

DeleteUser(p, i) ==
  LET old == tbl["user"][i] IN
  /\ i \in Live("user")
  /\ Begin(p, "deleteUser", FALSE, {old.avatar},
       [Idle EXCEPT !.op = "deleteUser", !.id = i, !.old = old, !.cut = old.avatar,
          !.pc = "write"])

\* _validateAccess has refused values outside ALL_PERMISSIONS.
CreateRole(p, title, access) ==
  Begin(p, "createRole", FALSE, {},
    [Idle EXCEPT !.pc = "slug", !.op = "createRole", !.table = "role",
       !.data = [NoData EXCEPT !.name = title, !.access = access]])

UpdateRole(p, i, title, access) ==
  LET old == tbl["role"][i]
      d == [NoData EXCEPT !.name = title, !.access = access] IN
  /\ i \in Live("role")
  /\ Begin(p, "updateRole", FALSE, {},
       [Idle EXCEPT !.op = "updateRole", !.table = "role", !.id = i, !.old = old,
          !.data = d, !.pc = IF Renamed(old, d) THEN "slug" ELSE "write"])

DeleteRole(p, i) ==
  /\ i \in Live("role")
  /\ Begin(p, "deleteRole", FALSE, {},
       [Idle EXCEPT !.pc = "count", !.op = "deleteRole", !.table = "role", !.id = i,
          !.old = tbl["role"][i]])

\* roleSeeder: the role is missing, lacks permissions, or is left alone.
SeedRole(p) ==
  LET found == FindBySlug("role", SuperAdmin)
      seed == [Idle EXCEPT !.op = "seedRole", !.table = "role"] IN
  \/ /\ found = {}
     /\ Begin(p, "seedRole", FALSE, {},
          [seed EXCEPT !.pc = "write", !.slug = SuperAdmin,
             !.data = [NoData EXCEPT !.name = SuperAdmin, !.access = Perms]])
  \/ \E i \in found :
       LET missing == Perms \ tbl["role"][i].access IN
       /\ missing # {}
       /\ Begin(p, "seedRole", FALSE, {},
            [seed EXCEPT !.pc = "grant", !.id = i, !.missing = missing])

\* adminUserSeeder.
SeedAdmin(p) ==
  Begin(p, "seedAdmin", FALSE, {},
    [Idle EXCEPT !.pc = "email", !.op = "seedAdmin",
       !.data = [NoData EXCEPT !.name = AdminName, !.email = AdminEmail]])

-----------------------------------------------------------------------------
(***************************************************************************)
(* Checks.                                                                 *)
(***************************************************************************)
AfterEmail(r) ==
  CASE r.op \in {"register", "seedAdmin"} -> "role"
    [] r.op = "updateUser" /\ ~Renamed(r.old, r.data) -> "avatar"
    [] OTHER -> "slug"

\* Mutant: the address is not looked up.
EmailUnchecked(p) ==
  /\ req[p].pc = "email"
  /\ Goto(p, AfterEmail(req[p]))
  /\ UNCHANGED <<tbl, files, uploads, log, started, history>>

\* A taken address refuses the request; the account seeder has nothing to do.
CheckEmail(p) ==
  /\ req[p].pc = "email"
  /\ IF FindByEmail(req[p].data.email) = {} THEN Goto(p, AfterEmail(req[p])) ELSE Finish(p)
  /\ UNCHANGED <<tbl, files, uploads, log, started, history>>

\* defaultRoleId, and the account seeder's findSuperAdminRole: a slug that
\* names no live role ends the request.
FindRole(p) ==
  /\ req[p].pc = "role"
  /\ \E slug \in IF req[p].op = "seedAdmin" THEN {SuperAdmin} ELSE DefaultRoles :
       \/ slug = Null /\ Goto(p, "slug")
       \/ \E r \in FindBySlug("role", slug) :
            req' = [req EXCEPT ![p].pc = "slug", ![p].data.role = r]
       \/ slug # Null /\ FindBySlug("role", slug) = {} /\ Finish(p)
  /\ UNCHANGED <<tbl, files, uploads, log, started, history>>

\* One turn of the loop of makeUniqueSlug.  A row that is updated keeps its
\* slug when a name leaves nothing for one; a new row gets the empty slug.
TrySlug(p) ==
  LET r == req[p]
      slug == Candidate(r.data.name, r.tries) IN
  /\ r.pc = "slug"
  /\ req' = IF FindBySlugExcluding(r.table, slug, r.id) = {}
              THEN [req EXCEPT ![p].slug = IF slug = <<>> /\ r.id # Null THEN Null ELSE slug,
                               ![p].pc = IF r.op = "updateUser" THEN "avatar" ELSE "write"]
              ELSE [req EXCEPT ![p].tries = r.tries + 1]
  /\ UNCHANGED <<tbl, files, uploads, log, started, history>>

\* Mutant: the uploaded file is deleted instead of the one it replaces.
UploadDeleted(p) ==
  /\ req[p].pc = "avatar"
  /\ files' = files \ {req[p].data.avatar}
  /\ Goto(p, "write")
  /\ UNCHANGED <<tbl, uploads, log, started, history>>

\* updateUser deletes the avatar it replaces, inside its transaction.
ReplaceAvatar(p) ==
  LET cut == IF req[p].data.avatar # Null THEN req[p].old.avatar ELSE Null IN
  /\ req[p].pc = "avatar"
  /\ files' = files \ {cut}
  /\ req' = [req EXCEPT ![p].pc = "write", ![p].cut = cut]
  /\ UNCHANGED <<tbl, uploads, log, started, history>>

\* Mutant: users are not counted before their role is deleted.
CountSkipped(p) ==
  /\ req[p].pc = "count"
  /\ Goto(p, "write")
  /\ UNCHANGED <<tbl, files, uploads, log, started, history>>

\* A role somebody is assigned to is not deleted.
CountRoleUsers(p) ==
  /\ req[p].pc = "count"
  /\ IF CountUsers(req[p].id) = 0 THEN Goto(p, "write") ELSE Finish(p)
  /\ UNCHANGED <<tbl, files, uploads, log, started, history>>

-----------------------------------------------------------------------------
(***************************************************************************)
(* The transaction: write, audit, commit.                                  *)
(***************************************************************************)
Inserts(r) == r.op \in {"createUser", "register", "createRole", "seedRole", "seedAdmin"}
Deletes(r) == r.op \in {"deleteUser", "deleteRole"}
Audited(r) == r.op \notin {"register", "seedRole", "seedAdmin"}

InTransaction(p) == req[p].pc \in {"audit", "commit"}
Locked(t, i) == \E p \in Handlers : InTransaction(p) /\ req[p].table = t /\ req[p].id = i
Free(t) == {i \in Ids : ~Exists(t, i) /\ ~Locked(t, i)}

Sent(value, kept) == IF value = Null THEN kept ELSE value
Merged(row, r) ==
  [row EXCEPT !.name = Sent(r.data.name, row.name), !.email = Sent(r.data.email, row.email),
              !.role = Sent(r.data.role, row.role), !.avatar = Sent(r.data.avatar, row.avatar),
              !.access = Sent(r.data.access, row.access), !.slug = Sent(r.slug, row.slug)]

\* Mutant: the whole row is written back as it was read, with the changes.
WriteStale(p) ==
  LET r == req[p] IN
  /\ r.pc = "write"
  /\ \E i \in IF Inserts(r) THEN Free(r.table) ELSE {r.id} :
       /\ ~Locked(r.table, i)
       /\ Inserts(r) => i = Min(Free(r.table))
       /\ req' = [req EXCEPT ![p].id = i, ![p].pc = IF Audited(r) THEN "audit" ELSE "commit",
                    ![p].new = IF Deletes(r) THEN [r.old EXCEPT !.deleted = TRUE]
                               ELSE Merged(r.old, r)]
  /\ UNCHANGED <<tbl, files, uploads, log, started, history>>

\* The INSERT, UPDATE or soft delete: an existing row is locked and changed as
\* it is committed by now, whatever the request read, also if it was deleted.
Write(p) ==
  LET r == req[p] IN
  /\ r.pc = "write"
  /\ \E i \in IF Inserts(r) THEN Free(r.table) ELSE {r.id} :
       LET row == tbl[r.table][i] IN
       /\ ~Locked(r.table, i)
       /\ Inserts(r) => i = Min(Free(r.table))
       /\ req' = [req EXCEPT ![p].id = i, ![p].pc = IF Audited(r) THEN "audit" ELSE "commit",
                    ![p].new = IF Deletes(r) THEN [row EXCEPT !.deleted = TRUE]
                               ELSE Merged(row, r)]
  /\ UNCHANGED <<tbl, files, uploads, log, started, history>>

\* newData of the activity log; a deletion has none.
Entry(r) ==
  LET named == CASE Deletes(r) -> {}
                 [] r.op = "updateProfile" -> {"name", "email", "avatar"}
                 [] r.table = "user" -> {"name", "email", "slug", "role", "avatar"}
                 [] OTHER -> {"name", "slug", "access"} IN
  [f \in named |-> r.new[f]]

\* Mutant: the audit row does not belong to the transaction.
AuditOutside(p) ==
  /\ req[p].pc = "audit"
  /\ log' = [log EXCEPT ![req[p].table][req[p].id] = Entry(req[p])]
  /\ Goto(p, "commit")
  /\ UNCHANGED <<tbl, files, uploads, started, history>>

\* logActivity swallows a failed INSERT; PostgreSQL has then aborted the
\* transaction.
Audit(p) ==
  /\ req[p].pc = "audit"
  /\ \E fails \in {FALSE, CanFail} :
       req' = [req EXCEPT ![p].pc = "commit", ![p].aborted = fails]
  /\ UNCHANGED <<tbl, files, uploads, log, started, history>>

\* Whether the request looked its address up: a profile edit does not, nor does an
\* update for the address it read from the row.
AsksEmail(r) ==
  r.data.email # Null /\ (Inserts(r) \/ (r.op = "updateUser" /\ r.data.email # r.old.email))

\* A file removed for a change that is not committed is lost.
Lose(r) == lost' = IF r.cut = Null THEN lost ELSE lost \cup {r.cut}

\* The row and its log entry appear together.  The COMMIT of an aborted
\* transaction is a rollback nobody reports.
Commit(p) ==
  LET r == req[p]
      me == <<r.table, r.id>> IN
  /\ r.pc = "commit"
  /\ IF r.aborted
       THEN /\ Finish(p)
            /\ Lose(r)
            /\ UNCHANGED <<tbl, log, raced, unasked, strays>>
       ELSE /\ tbl' = [tbl EXCEPT ![r.table][r.id] = r.new]
            /\ log' = IF Audited(r) THEN [log EXCEPT ![r.table][r.id] = Entry(r)] ELSE log
            /\ req' = [q \in Handlers |->
                         IF q = p THEN Idle
                         ELSE IF req[q].pc = "idle" THEN req[q]
                         ELSE [req[q] EXCEPT !.during = @ \cup {me}]]
            /\ raced' = raced \cup {<<me, other>> : other \in r.during}
            /\ unasked' = IF AsksEmail(r) THEN unasked \ {r.id}
                          ELSE IF r.new.email # tbl[r.table][r.id].email
                            THEN unasked \cup {r.id} ELSE unasked
            /\ strays' = IF r.table = "role" \/ r.data.role = Null THEN strays
                         ELSE IF r.data.role \in Live("role") THEN strays \ {r.id}
                         ELSE strays \cup {r.id}
            /\ lost' = lost
  /\ UNCHANGED <<files, uploads, started>>

\* grantPermissions: what was missing is added to the committed list in one
\* statement.
GrantPermissions(p) ==
  LET r == req[p] IN
  /\ r.pc = "grant" /\ ~Locked("role", r.id)
  /\ tbl' = [tbl EXCEPT !["role"][r.id].access = @ \cup r.missing]
  /\ Finish(p)
  /\ UNCHANGED <<files, uploads, log, started, history>>

\* Input that validation refuses, a failed query or a crash: the transaction
\* is rolled back, deleted files stay deleted.
Fail(p) ==
  /\ CanFail /\ req[p].pc # "idle"
  /\ Lose(req[p])
  /\ Finish(p)
  /\ UNCHANGED <<tbl, files, uploads, log, started, raced, unasked, strays>>

-----------------------------------------------------------------------------
Optional(S) == S \cup {Null}

Start(p) ==
  /\ req[p].pc = "idle" /\ started < MaxRequests
  /\ \/ \E name \in Names, email \in Emails, r \in Ids, upload \in BOOLEAN :
          Exists("role", r) /\ CreateUser(p, name, email, r, upload)
     \/ \E name \in Names, email \in Emails : Register(p, name, email)
     \/ \E i \in Ids, name \in Optional(Names), email \in Optional(Emails),
           r \in Optional(Ids), upload \in BOOLEAN :
          (r # Null => Exists("role", r)) /\ UpdateUser(p, i, name, email, r, upload)
     \/ \E i \in Ids, name \in Optional(Names), email \in Optional(Emails), upload \in BOOLEAN :
          UpdateProfile(p, i, name, email, upload)
     \/ \E i \in Ids : DeleteUser(p, i) \/ DeleteRole(p, i)
     \/ \E title \in Names, access \in SUBSET Perms : CreateRole(p, title, access)
     \/ \E i \in Ids, title \in Optional(Names), access \in Optional(SUBSET Perms) :
          UpdateRole(p, i, title, access)
     \/ SeedRole(p) \/ SeedAdmin(p)

Step(p) ==
  \/ CheckEmail(p) \/ FindRole(p) \/ TrySlug(p) \/ ReplaceAvatar(p) \/ CountRoleUsers(p)
  \/ Write(p) \/ Audit(p) \/ Commit(p) \/ GrantPermissions(p) \/ Fail(p)

Next == \E p \in Handlers : Start(p) \/ Step(p)

Spec == Init /\ [][Next]_vars
-----------------------------------------------------------------------------
(***************************************************************************)
(* Properties.                                                             *)
(***************************************************************************)
Raced(a, b) == <<a, b>> \in raced \/ <<b, a>> \in raced

\* Two live rows of a table have one slug, or two live users one email, only if
\* one was committed while the request that wrote the other was under way: there
\* is no unique index, makeUniqueSlug and the services ask before they write.  An
\* email may also clash after it was changed unasked: by updateProfile, or by an
\* updateUser that sends the address it read while the row has got another.
KeysUnique ==
  \A t \in Tables : \A i, j \in Live(t) :
    i # j /\ ~Raced(<<t, i>>, <<t, j>>) =>
      /\ tbl[t][i].slug # tbl[t][j].slug
      /\ t = "user" /\ {i, j} \cap unasked = {} => tbl[t][i].email # tbl[t][j].email

\* A live user is on a deleted role only if the assignment overlapped the
\* deletion or came after it: deleteRole leaves nobody behind that its count
\* could have seen.
NoStrandedUsers ==
  \A u \in Live("user") : LET r == tbl["user"][u].role IN
    r # Null /\ tbl["role"][r].deleted => u \in strays \/ Raced(<<"user", u>>, <<"role", r>>)

\* The avatar of a live user is on disk, unless a request removed it for a
\* change that failed or has yet to be committed.
AvatarServed ==
  \A u \in Live("user") : LET a == tbl["user"][u].avatar IN
    a # Null /\ a \notin files => a \in lost \/ \E p \in Handlers : req[p].cut = a

\* The newest activity log row about a user or role agrees with it, also when
\* requests overlap, fail, or lose their audit INSERT.  A seed run may have
\* granted more since.
LogDescribesRow ==
  \A t \in Tables, i \in Ids : log[t][i] # Null =>
    LET row == tbl[t][i]
        entry == log[t][i] IN
    /\ Exists(t, i)
    /\ DOMAIN entry = {} => row.deleted
    /\ \A f \in DOMAIN entry : IF f = "access" THEN entry[f] \subseteq row[f] ELSE entry[f] = row[f]

\* Whether the request r, committing, may change field f.
Touches(r, f) ==
  CASE f = "deleted" -> Deletes(r)
    [] f = "slug" -> Renamed(r.old, r.data)
    [] OTHER -> r.data[f] # Null

\* A change alters only the fields its request sent, whatever was committed
\* since it read the row; a seed run takes no permission away and adds only
\* what it found missing, so that edits in the role editor are kept.
EditsKept ==
  [][\A t \in Tables, i \in Ids :
       Exists(t, i) /\ tbl'[t][i] # tbl[t][i] =>
         \E p \in Handlers :
           /\ req[p].table = t /\ req[p].id = i /\ req'[p].pc = "idle"
           /\ \A f \in DOMAIN tbl[t][i] : tbl'[t][i][f] # tbl[t][i][f] =>
                IF req[p].pc = "grant"
                  THEN /\ f = "access" /\ tbl[t][i][f] \subseteq tbl'[t][i][f]
                       /\ tbl'[t][i][f] \ tbl[t][i][f] \subseteq req[p].missing
                  ELSE Touches(req[p], f)]_vars
=============================================================================
