------------------------------ MODULE AccessCache ------------------------------
(***************************************************************************)
(* Cached authorisation: the access gates (checkPermission, checkUserType) *)
(* read a user's role through a versioned Redis cache, administrators      *)
(* change roles and users in PostgreSQL and invalidate the cache after the *)
(* commit, and users read and edit their own cached profile.               *)
(*                                                                         *)
(* rev[u] counts the committed changes of what a read of user u returns    *)
(* (its columns and its role's), so that a revision stands for the data    *)
(* read: which permissions a role holds is never looked at.  Every action  *)
(* is one SQL transaction, one query or one Redis command, with the branch *)
(* taken on its result.                                                    *)
(***************************************************************************)
EXTENDS Integers, FiniteSets

CONSTANTS
  Users, Roles, Null,
  Gates,      \* concurrent requests at an access gate
  Admins,     \* concurrent role and user changes
  Owners,     \* concurrent requests for the caller's own profile
  CanFail,    \* TRUE iff handlers may fail or die between two steps
  MaxRev,     \* bound on the changes of one user
  MaxVersion  \* bound on the version a change may start from

ASSUME AccessAssumption ==
  /\ Null \notin Users \cup Roles \cup Nat
  /\ Gates \cap Admins = {} /\ Gates \cap Owners = {} /\ Admins \cap Owners = {}
  /\ CanFail \in BOOLEAN /\ MaxRev \in Nat /\ MaxVersion \in Nat

VARIABLES
  rev,       \* revision of each user in the database
  roleOf,    \* users.role_id
  active,    \* users not soft-deleted
  roles,     \* roles not soft-deleted
  version,   \* Redis rbac:version (0 when missing)
  entry,     \* Redis user-role:<id>: revision, role and version stamp, or Null
  tracked,   \* Redis role-users:<id>
  profile,   \* Redis profile:<id>: the revision cached, or Null
  req,       \* the handlers
  acked      \* history: the revision of the last invalidated change of a user

db == <<rev, roleOf, active, roles>>
redis == <<version, entry, tracked, profile>>
vars == <<rev, roleOf, active, roles, version, entry, tracked, profile, req, acked>>

Procs == Gates \cup Admins \cup Owners

\* A handler between requests.
Idle == [pc |-> "idle", user |-> Null, role |-> Null, ver |-> 0, rev |-> 0,
         floor |-> 0, members |-> {}, mark |-> [u \in Users |-> 0], raced |-> FALSE]

Init ==
  /\ rev = [u \in Users |-> 1]
  /\ roleOf \in [Users -> Roles]
  /\ active = Users
  /\ roles = Roles
  /\ version = 0
  /\ entry = [u \in Users |-> Null]
  /\ tracked = [r \in Roles |-> {}]
  /\ profile = [u \in Users |-> Null]
  /\ req = [p \in Procs |-> Idle]
  /\ acked = [u \in Users |-> 0]

Finish(p) == req' = [req EXCEPT ![p] = Idle]
Goto(p, label) == req' = [req EXCEPT ![p].pc = label]

-----------------------------------------------------------------------------
(***************************************************************************)
(* resolveRole, behind checkPermission and checkUserType.                  *)
(***************************************************************************)
Current(e) == e # Null /\ e.ver = version

\* readUserAccess: the entry and the version in one MGET.
ReadUserAccess(p, u) ==
  /\ req[p].pc = "idle"
  /\ LET start == [Idle EXCEPT !.user = u, !.ver = version, !.floor = acked[u]] IN
     req' = [req EXCEPT ![p] =
       IF Current(entry[u])
         THEN [start EXCEPT !.pc = "decide", !.rev = entry[u].rev]
         ELSE [start EXCEPT !.pc = "query"]]
  /\ UNCHANGED <<db, redis, acked>>

\* Mutant: a missing user is cached like any other result.
QueryUnchecked(p) ==
  LET u == req[p].user IN
  /\ req[p].pc = "query"
  /\ req' = [req EXCEPT ![p].pc = "fill", ![p].role = Null,
                        ![p].rev = IF u \in active THEN rev[u] ELSE Null]
  /\ UNCHANGED <<db, redis, acked>>

\* The database read; a soft-deleted user is unauthorised and a soft-deleted
\* role reads as none.
QueryUser(p) ==
  LET u == req[p].user
      r == IF roleOf[u] \in roles THEN roleOf[u] ELSE Null IN
  /\ req[p].pc = "query"
  /\ IF u \in active
       THEN req' = [req EXCEPT ![p].pc = "fill", ![p].rev = rev[u], ![p].role = r]
       ELSE Finish(p)
  /\ UNCHANGED <<db, redis, acked>>

\* Mutant: the entry is stamped with the version at the time it is written.
FillStampedLate(p) ==
  /\ req[p].pc = "fill"
  /\ entry' = [entry EXCEPT ![req[p].user] =
                 [rev |-> req[p].rev, role |-> req[p].role, ver |-> version]]
  /\ Goto(p, IF req[p].role = Null THEN "decide" ELSE "track")
  /\ UNCHANGED <<db, version, tracked, profile, acked>>

\* cacheUserAccess: the SET, stamped with the version read before the query.
FillEntry(p) ==
  /\ req[p].pc = "fill"
  /\ entry' = [entry EXCEPT ![req[p].user] =
                 [rev |-> req[p].rev, role |-> req[p].role, ver |-> req[p].ver]]
  /\ Goto(p, IF req[p].role = Null THEN "decide" ELSE "track")
  /\ UNCHANGED <<db, version, tracked, profile, acked>>

\* cacheUserAccess: the SADD to the users of the role, and the EXPIRE after it.
TrackUser(p) ==
  LET r == req[p].role IN
  /\ req[p].pc = "track"
  /\ tracked' = [tracked EXCEPT ![r] = tracked[r] \cup {req[p].user}]
  /\ Goto(p, "renew")
  /\ UNCHANGED <<db, version, entry, profile, acked>>

RenewTracked(p) ==
  /\ req[p].pc = "renew"
  /\ Goto(p, "decide")
  /\ UNCHANGED <<db, redis, acked>>

\* The gate admits or refuses on the data of revision req[p].rev.
Decide(p) ==
  /\ req[p].pc = "decide"
  /\ Finish(p)
  /\ UNCHANGED <<db, redis, acked>>

-----------------------------------------------------------------------------
(***************************************************************************)
(* Changes.  The handler looks its target up, commits, and invalidates.    *)
(***************************************************************************)
FindUser(a, u, r) ==
  /\ req[a].pc = "idle" /\ u \in active
  /\ req' = [req EXCEPT ![a] = [Idle EXCEPT !.pc = "saveUser", !.user = u, !.role = r]]
  /\ UNCHANGED <<db, redis, acked>>

FindUserToDelete(a, u) ==
  /\ req[a].pc = "idle" /\ u \in active
  /\ req' = [req EXCEPT ![a] = [Idle EXCEPT !.pc = "deleteUser", !.user = u]]
  /\ UNCHANGED <<db, redis, acked>>

FindRole(a, r) ==
  /\ req[a].pc = "idle" /\ r \in roles
  /\ req' = [req EXCEPT ![a] = [Idle EXCEPT !.pc = "saveRole", !.role = r]]
  /\ UNCHANGED <<db, redis, acked>>

\* A role with active users is not deleted; the count is taken before the
\* transaction.
FindRoleToDelete(a, r) ==
  /\ req[a].pc = "idle" /\ r \in roles
  /\ \A u \in active : roleOf[u] # r
  /\ req' = [req EXCEPT ![a] = [Idle EXCEPT !.pc = "deleteRole", !.role = r]]
  /\ UNCHANGED <<db, redis, acked>>

\* The change of the users in S commits; handler a remembers their revisions.
Commit(a, S, label) ==
  /\ version < MaxVersion /\ \A u \in S : rev[u] < MaxRev
  /\ rev' = [u \in Users |-> IF u \in S THEN rev[u] + 1 ELSE rev[u]]
  /\ req' = [req EXCEPT ![a].pc = label,
               ![a].mark = [u \in Users |-> IF u \in S THEN rev[u] + 1 ELSE 0]]

SaveUser(a) ==
  /\ req[a].pc = "saveUser"
  /\ roleOf' = [roleOf EXCEPT ![req[a].user] = req[a].role]
  /\ Commit(a, {req[a].user}, "bumpUser")
  /\ UNCHANGED <<active, roles, redis, acked>>

DeleteUser(a) ==
  /\ req[a].pc = "deleteUser"
  /\ active' = active \ {req[a].user}
  /\ Commit(a, {req[a].user}, "bumpUser")
  /\ UNCHANGED <<roleOf, roles, redis, acked>>

SaveRole(a) ==
  /\ req[a].pc = "saveRole"
  /\ Commit(a, {u \in Users : roleOf[u] = req[a].role}, "bumpRole")
  /\ UNCHANGED <<roleOf, active, roles, redis, acked>>

DeleteRole(a) ==
  /\ req[a].pc = "deleteRole"
  /\ roles' = roles \ {req[a].role}
  /\ Commit(a, {u \in Users : roleOf[u] = req[a].role}, "bumpRole")
  /\ UNCHANGED <<roleOf, active, redis, acked>>

\* The INCR: from here on the change is promised to apply.
InvalidateAccess(a) ==
  /\ req[a].pc \in {"bumpUser", "bumpRole"}
  /\ version' = version + 1
  /\ acked' = [u \in Users |-> IF acked[u] < req[a].mark[u] THEN req[a].mark[u] ELSE acked[u]]
  /\ Goto(a, IF req[a].pc = "bumpUser" THEN "dropUser" ELSE "members")
  /\ UNCHANGED <<db, entry, tracked, profile>>

DropUser(a) ==
  /\ req[a].pc = "dropUser"
  /\ entry' = [entry EXCEPT ![req[a].user] = Null]
  /\ Finish(a)
  /\ UNCHANGED <<db, version, tracked, profile, acked>>

\* invalidateRoleUsers after the bump: SMEMBERS, one DEL, SREM.
ReadMembers(a) ==
  /\ req[a].pc = "members"
  /\ req' = [req EXCEPT ![a].pc = "dropMembers", ![a].members = tracked[req[a].role]]
  /\ UNCHANGED <<db, redis, acked>>

DropMembers(a) ==
  LET S == req[a].members IN
  /\ req[a].pc = "dropMembers"
  /\ entry' = [u \in Users |-> IF u \in S THEN Null ELSE entry[u]]
  /\ profile' = [u \in Users |-> IF u \in S THEN Null ELSE profile[u]]
  /\ Goto(a, "untrack")
  /\ UNCHANGED <<db, version, tracked, acked>>

UntrackMembers(a) ==
  LET r == req[a].role IN
  /\ req[a].pc = "untrack"
  /\ tracked' = [tracked EXCEPT ![r] = tracked[r] \ req[a].members]
  /\ Finish(a)
  /\ UNCHANGED <<db, version, entry, profile, acked>>

-----------------------------------------------------------------------------
(***************************************************************************)
(* The caller's own profile: getProfile, and updateProfile, which ends     *)
(* with the same read.                                                     *)
(***************************************************************************)
GetProfile(p, u) ==
  /\ req[p].pc = "idle" /\ profile[u] = Null     \* a hit changes nothing
  /\ req' = [req EXCEPT ![p] = [Idle EXCEPT !.pc = "load", !.user = u]]
  /\ UNCHANGED <<db, redis, acked>>

LoadProfile(p) ==
  LET u == req[p].user IN
  /\ req[p].pc \in {"load", "loadNew"}
  /\ IF u \in active
       THEN req' = [req EXCEPT ![p].rev = rev[u],
                      ![p].pc = IF req[p].pc = "load" THEN "store" ELSE "storeNew"]
       ELSE Finish(p)
  /\ UNCHANGED <<db, redis, acked>>

StoreProfile(p) ==
  /\ req[p].pc \in {"store", "storeNew"}
  /\ profile' = [profile EXCEPT ![req[p].user] = req[p].rev]
  /\ IF req[p].pc = "store" THEN Finish(p) ELSE Goto(p, "storeAgain")
  /\ UNCHANGED <<db, version, entry, tracked, acked>>

FindProfile(p, u) ==
  /\ req[p].pc = "idle" /\ u \in active
  /\ req' = [req EXCEPT ![p] = [Idle EXCEPT !.pc = "saveProfile", !.user = u]]
  /\ UNCHANGED <<db, redis, acked>>

\* The transaction of updateProfile.
SaveProfile(p) ==
  LET u == req[p].user IN
  /\ req[p].pc = "saveProfile" /\ rev[u] < MaxRev
  /\ rev' = [rev EXCEPT ![u] = rev[u] + 1]
  /\ req' = [req EXCEPT ![p].pc = "dropProfile", ![p].floor = rev[u] + 1]
  /\ UNCHANGED <<roleOf, active, roles, redis, acked>>

\* Another request for p's profile has read it as it was before p's change, from
\* the database or the cache, and is still to cache it.
ReadBefore(p) ==
  \E q \in Owners \ {p} : /\ req[q].user = req[p].user /\ req[q].rev < req[p].floor
                         /\ req[q].pc \in {"store", "storeNew", "storeAgain"}

\* Mutant: the cached profile is left to its time to live.
DropSkipped(p) ==
  /\ req[p].pc = "dropProfile"
  /\ req' = [req EXCEPT ![p].pc = "fetchNew", ![p].raced = ReadBefore(p)]
  /\ UNCHANGED <<db, redis, acked>>

DropProfile(p) ==
  /\ req[p].pc = "dropProfile"
  /\ profile' = [profile EXCEPT ![req[p].user] = Null]
  /\ req' = [req EXCEPT ![p].pc = "fetchNew", ![p].raced = ReadBefore(p)]
  /\ UNCHANGED <<db, version, entry, tracked, acked>>

\* getProfile again, which trusts what is cached by now.
FetchNewProfile(p) ==
  LET u == req[p].user IN
  /\ req[p].pc = "fetchNew"
  /\ IF profile[u] = Null
       THEN Goto(p, "loadNew")
       ELSE req' = [req EXCEPT ![p].pc = "storeAgain", ![p].rev = profile[u]]
  /\ UNCHANGED <<db, redis, acked>>

StoreNewProfile(p) ==
  /\ req[p].pc = "storeAgain"
  /\ profile' = [profile EXCEPT ![req[p].user] = req[p].rev]
  /\ Goto(p, "respond")
  /\ UNCHANGED <<db, version, entry, tracked, acked>>

Respond(p) ==
  /\ req[p].pc = "respond"
  /\ Finish(p)
  /\ UNCHANGED <<db, redis, acked>>

-----------------------------------------------------------------------------
(***************************************************************************)
(* The environment.                                                        *)
(***************************************************************************)
\* A time to live runs out; a logout also deletes the cached profile.
ExpireEntry(u) ==
  /\ entry[u] # Null
  /\ entry' = [entry EXCEPT ![u] = Null]
  /\ UNCHANGED <<db, version, tracked, profile, req, acked>>

ExpireProfile(u) ==
  /\ profile[u] # Null
  /\ profile' = [profile EXCEPT ![u] = Null]
  /\ UNCHANGED <<db, version, entry, tracked, req, acked>>

\* role-users:<id> lives as long as an entry from the last EXPIRE on, and every
\* entry is written before its EXPIRE: it outlives the entries it tracks, but for
\* gates that have yet to add their user.  With CanFail it may run out at any time:
\* a gate may die before its EXPIRE, or an old time to live end just before it.
ExpireTracked(r) ==
  /\ tracked[r] # {}
  /\ \/ CanFail
     \/ \A u \in {v \in tracked[r] : entry[v] # Null /\ entry[v].role = r} :
          \E p \in Gates : req[p].pc = "track" /\ req[p].user = u
  /\ tracked' = [tracked EXCEPT ![r] = {}]
  /\ UNCHANGED <<db, version, entry, profile, req, acked>>

\* A failed query or Redis command, or a crash, ends a handler where it is.
Fail(p) ==
  /\ CanFail /\ req[p].pc # "idle"
  /\ Finish(p)
  /\ UNCHANGED <<db, redis, acked>>

GateStep(p) ==
  QueryUser(p) \/ FillEntry(p) \/ TrackUser(p) \/ RenewTracked(p) \/ Decide(p)
    \/ \E u \in Users : ReadUserAccess(p, u)

AdminStep(a) ==
  \/ \E u \in Users, r \in Roles : FindUser(a, u, r)
  \/ \E u \in Users : FindUserToDelete(a, u)
  \/ \E r \in Roles : FindRole(a, r) \/ FindRoleToDelete(a, r)
  \/ SaveUser(a) \/ DeleteUser(a) \/ SaveRole(a) \/ DeleteRole(a)
  \/ InvalidateAccess(a) \/ DropUser(a)
  \/ ReadMembers(a) \/ DropMembers(a) \/ UntrackMembers(a)

OwnerStep(p) ==
  \/ \E u \in Users : GetProfile(p, u) \/ FindProfile(p, u)
  \/ LoadProfile(p) \/ StoreProfile(p) \/ SaveProfile(p) \/ DropProfile(p)
  \/ FetchNewProfile(p) \/ StoreNewProfile(p) \/ Respond(p)

Next ==
  \/ \E p \in Gates : GateStep(p)
  \/ \E a \in Admins : AdminStep(a)
  \/ \E p \in Owners : OwnerStep(p)
  \/ \E p \in Procs : Fail(p)
  \/ \E u \in Users : ExpireEntry(u) \/ ExpireProfile(u)
  \/ \E r \in Roles : ExpireTracked(r)

Spec == Init /\ [][Next]_vars

-----------------------------------------------------------------------------
(***************************************************************************)
(* Properties.                                                             *)
(***************************************************************************)
Labels == {"idle", "query", "fill", "track", "renew", "decide", "saveUser", "deleteUser",
           "saveRole", "deleteRole", "bumpUser", "bumpRole", "dropUser", "members",
           "dropMembers", "untrack", "load", "loadNew", "store", "storeNew",
           "saveProfile", "dropProfile", "fetchNew", "storeAgain", "respond"}

Request == [pc : Labels, user : Users \cup {Null}, role : Roles \cup {Null},
            ver : Nat, rev : Nat, floor : Nat, members : SUBSET Users,
            mark : [Users -> Nat], raced : BOOLEAN]

Entry == [rev : Nat, role : Roles \cup {Null}, ver : Nat]

\* Type invariant: the database, the cache and the handlers keep their shape.
TypeOK ==
  /\ rev \in [Users -> Nat] /\ roleOf \in [Users -> Roles]
  /\ active \in SUBSET Users /\ roles \in SUBSET Roles
  /\ version \in Nat /\ entry \in [Users -> Entry \cup {Null}]
  /\ tracked \in [Roles -> SUBSET Users] /\ profile \in [Users -> Nat \cup {Null}]
  /\ req \in [Procs -> Request] /\ acked \in [Users -> Nat]

\* A change of a role or a user applies to every request that reaches a gate
\* after the change was invalidated, also when another request was caching the
\* old state at that moment, changes overlap, or invalidations are cut short.
EnforcedAtOnce ==
  \A p \in Gates : req[p].pc \in {"track", "renew", "decide"} => req[p].rev >= req[p].floor

\* Every user whose cached access counts is tracked under its role, so that the
\* next change of the role drops the user's profile (invalidateRoleUsers).
CachedUsersTracked ==
  \A u \in Users :
    Current(entry[u]) /\ entry[u].role # Null
      => \/ u \in tracked[entry[u].role]
         \/ \E p \in Gates : req[p].pc = "track" /\ req[p].user = u

\* The update of a profile caches and returns the profile with the update, next to
\* changes of the user and its role, expiries and other requests for the profile
\* (updateProfile: "set new cache with new profile data"), unless, when it dropped
\* the cached profile, one of those was about to cache what it had read before.
UpdateReturnsNew ==
  \A p \in Owners : req[p].pc = "respond" /\ ~req[p].raced => req[p].rev >= req[p].floor
=============================================================================
