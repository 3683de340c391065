--------------------------- MODULE AccessCacheProofs ---------------------------
(***************************************************************************)
(* Proofs about AccessCache, for any number of users, roles, gates,        *)
(* overlapping changes and failures.                                       *)
(***************************************************************************)
EXTENDS AccessCache, TLAPS

(***************************************************************************)
(* The inductive invariant.  The version only grows, and it grows with     *)
(* every acknowledged change: an entry, or a request about to write one,   *)
(* that carries the present version was read after the last acknowledged   *)
(* change of its user.                                                     *)
(***************************************************************************)
RoleLabels == {"saveRole", "deleteRole", "bumpRole", "members", "dropMembers", "untrack"}

\* A request with record q is sound.
Sound(q) ==
  /\ q.pc \notin RoleLabels \cup {"idle"} => q.user \in Users
  /\ q.pc \in RoleLabels \cup {"saveUser", "track"} => q.role \in Roles
  /\ \A u \in Users : q.mark[u] <= rev[u]
  /\ q.pc \in {"query", "fill"} => q.ver <= version /\ q.floor <= acked[q.user]
  /\ q.pc = "fill" /\ q.ver = version => q.rev >= acked[q.user]
  /\ q.pc \in {"fill", "track", "renew", "decide"} => q.rev >= q.floor

EntrySound(u) ==
  entry[u] # Null => /\ entry[u].ver <= version
                     /\ entry[u].ver = version => entry[u].rev >= acked[u]

IInv ==
  /\ TypeOK
  /\ \A u \in Users : acked[u] <= rev[u] /\ EntrySound(u)
  /\ \A p \in Procs : Sound(req[p])

\* The clocks of the proof: revisions, acknowledged revisions and the version
\* never go back, and acknowledging a change takes a new version.
Grows ==
  /\ \A u \in Users : rev[u] <= rev'[u] /\ acked[u] <= acked'[u] /\ acked'[u] <= rev'[u]
  /\ version <= version'
  /\ version' = version => acked' = acked

-----------------------------------------------------------------------------
\* A handler between requests is sound.
LEMMA IdleSound ==
  ASSUME rev \in [Users -> Nat]
  PROVE  Idle \in Request /\ Idle.pc = "idle" /\ Sound(Idle)
<1>1. Idle \in Request /\ Idle.pc = "idle" /\ Idle.mark = [u \in Users |-> 0]
  BY DEF Idle, Request, Labels
<1> QED
  BY <1>1 DEF Sound, RoleLabels

\* The initial states.
LEMMA InitIInv == Init => IInv
<1> SUFFICES ASSUME Init PROVE IInv
  OBVIOUS
<1>1. rev \in [Users -> Nat]
  BY DEF Init
<1>2. TypeOK
  BY <1>1, IdleSound DEF Init, TypeOK
<1>3. \A u \in Users : acked[u] <= rev[u] /\ EntrySound(u)
  BY DEF Init, EntrySound
<1>4. \A p \in Procs : Sound(req[p])
  BY <1>1, IdleSound DEF Init
<1> QED
  BY <1>2, <1>3, <1>4 DEF IInv

\* A sound request stays sound while the clocks grow.
LEMMA SoundKept ==
  ASSUME IInv, Grows, TypeOK', NEW q \in Request, Sound(q)
  PROVE  Sound(q)'
<1>1. /\ rev \in [Users -> Nat] /\ rev' \in [Users -> Nat] /\ version \in Nat
      /\ version' \in Nat /\ acked \in [Users -> Nat] /\ acked' \in [Users -> Nat]
      /\ q.ver \in Nat /\ q.rev \in Nat /\ q.floor \in Nat /\ q.mark \in [Users -> Nat]
  BY DEF IInv, TypeOK, Request
<1>2. \A u \in Users : q.mark[u] <= rev'[u]
  BY <1>1 DEF Sound, Grows
<1>3. q.pc \in {"query", "fill"} => q.ver <= version' /\ q.floor <= acked'[q.user]
  BY <1>1 DEF Sound, Grows, RoleLabels
<1>4. q.pc = "fill" /\ q.ver = version' => q.rev >= acked'[q.user]
  BY <1>1 DEF Sound, Grows
<1> QED
  BY <1>2, <1>3, <1>4 DEF Sound

\* A step of handler p.
LEMMA OneStep ==
  ASSUME IInv, Grows, TypeOK', NEW p \in Procs, NEW q \in Request,
         req' = [req EXCEPT ![p] = q], Sound(q)',
         \A u \in Users : EntrySound(u)'
  PROVE  IInv'
<1>1. ASSUME NEW x \in Procs PROVE Sound(req[x])'
  <2>1. CASE x = p
    <3>1. req'[x] = q
      BY <2>1 DEF IInv, TypeOK
    <3> QED
      BY <3>1 DEF Sound
  <2>2. CASE x # p
    <3>1. PICK y \in Request : y = req[x]
      BY DEF IInv, TypeOK
    <3>2. req'[x] = y
      BY <2>2, <3>1 DEF IInv, TypeOK
    <3>3. Sound(y)'
      BY <3>1, SoundKept DEF IInv
    <3> QED
      BY <3>2, <3>3 DEF Sound
  <2> QED
    BY <2>1, <2>2
<1>2. \A u \in Users : (acked[u] <= rev[u])'
  BY DEF Grows
<1> QED
  BY <1>1, <1>2 DEF IInv

\* A step of handler p that leaves the database, the version and the
\* acknowledged changes alone, and keeps the entries or drops some.
LEMMA CacheStep ==
  ASSUME IInv, NEW p \in Procs, NEW q \in Request,
         req' = [req EXCEPT ![p] = q], Sound(q),
         UNCHANGED <<rev, roleOf, active, roles, version, acked>>,
         tracked' \in [Roles -> SUBSET Users], profile' \in [Users -> Nat \cup {Null}],
         entry' \in [Users -> Entry \cup {Null}],
         \A u \in Users : entry'[u] = entry[u] \/ EntrySound(u)'
  PROVE  IInv'
<1>1. TypeOK'
  BY DEF IInv, TypeOK
<1>2. Grows
  BY DEF Grows, IInv, TypeOK
<1>3. Sound(q)'
  BY DEF Sound
<1>4. \A u \in Users : EntrySound(u)'
  BY DEF IInv, EntrySound
<1> QED
  BY <1>1, <1>2, <1>3, <1>4, OneStep

\* A step of handler p that only changes p.
LEMMA HandlerStep ==
  ASSUME IInv, NEW p \in Procs, NEW q \in Request,
         req' = [req EXCEPT ![p] = q], Sound(q),
         UNCHANGED <<rev, roleOf, active, roles, version, entry, tracked, profile, acked>>
  PROVE  IInv'
BY CacheStep DEF IInv, TypeOK

\* Ending a request.
LEMMA FinishStep ==
  ASSUME IInv, NEW p \in Procs, Finish(p),
         UNCHANGED <<rev, roleOf, active, roles, version, acked>>,
         tracked' \in [Roles -> SUBSET Users], profile' \in [Users -> Nat \cup {Null}],
         entry' \in [Users -> Entry \cup {Null}],
         \A u \in Users : entry'[u] = entry[u] \/ EntrySound(u)'
  PROVE  IInv'
<1>1. PICK q \in Request : q = Idle /\ Sound(q)
  BY IdleSound DEF IInv, TypeOK
<1>2. req' = [req EXCEPT ![p] = q]
  BY <1>1 DEF Finish
<1> QED
  BY <1>1, <1>2, CacheStep

-----------------------------------------------------------------------------
\* The facts about one handler that its steps need.
LEMMA HandlerFacts ==
  ASSUME IInv, NEW p \in Procs
  PROVE  /\ req[p] \in Request /\ Sound(req[p])
         /\ rev \in [Users -> Nat] /\ acked \in [Users -> Nat] /\ version \in Nat
         /\ entry \in [Users -> Entry \cup {Null}] /\ tracked \in [Roles -> SUBSET Users]
         /\ profile \in [Users -> Nat \cup {Null}] /\ active \subseteq Users
BY DEF IInv, TypeOK

\* The access gates.
LEMMA GateIInv ==
  ASSUME IInv, NEW p \in Gates, GateStep(p)
  PROVE  IInv'
<1>0. p \in Procs
  BY DEF Procs
<1>1. /\ req[p] \in Request /\ Sound(req[p])
      /\ rev \in [Users -> Nat] /\ acked \in [Users -> Nat] /\ version \in Nat
      /\ entry \in [Users -> Entry \cup {Null}] /\ tracked \in [Roles -> SUBSET Users]
      /\ profile \in [Users -> Nat \cup {Null}] /\ active \subseteq Users
  BY <1>0, HandlerFacts
<1>2. ASSUME NEW u \in Users, ReadUserAccess(p, u) PROVE IInv'
  <2>1. /\ Idle \in Request /\ Idle.mark = [v \in Users |-> 0]
    BY <1>1, IdleSound DEF Idle
  <2>2. CASE Current(entry[u])
    <3>1. /\ entry[u].rev \in Nat /\ entry[u].rev >= acked[u]
      BY <1>1, <2>2 DEF Current, Entry, IInv, EntrySound
    <3>2. PICK q \in Request : q = [Idle EXCEPT !.user = u, !.ver = version,
                                 !.floor = acked[u], !.pc = "decide", !.rev = entry[u].rev]
      BY <1>1, <2>1, <3>1 DEF Request, Labels
    <3>3. Sound(q)
      BY <1>1, <2>1, <3>1, <3>2 DEF Sound, RoleLabels, Request
    <3>4. req' = [req EXCEPT ![p] = q]
      BY <1>2, <2>2, <3>2 DEF ReadUserAccess
    <3> QED
      BY <1>0, <1>2, <3>3, <3>4, HandlerStep DEF ReadUserAccess, db, redis
  <2>3. CASE ~Current(entry[u])
    <3>2. PICK q \in Request : q = [Idle EXCEPT !.user = u, !.ver = version,
                                 !.floor = acked[u], !.pc = "query"]
      BY <1>1, <2>1 DEF Request, Labels
    <3>3. Sound(q)
      BY <1>1, <2>1, <3>2 DEF Sound, RoleLabels, Request
    <3>4. req' = [req EXCEPT ![p] = q]
      BY <1>2, <2>3, <3>2 DEF ReadUserAccess
    <3> QED
      BY <1>0, <1>2, <3>3, <3>4, HandlerStep DEF ReadUserAccess, db, redis
  <2> QED
    BY <2>2, <2>3
<1>3. CASE QueryUser(p)
  <2> DEFINE u == req[p].user
             r == IF roleOf[u] \in roles THEN roleOf[u] ELSE Null
  <2>1. CASE u \in active
    <3>1. r \in Roles \cup {Null} /\ rev[u] \in Nat /\ u \in Users
      BY <1>1, <2>1 DEF IInv, TypeOK
    <3> HIDE DEF r
    <3>2. PICK q \in Request : q = [req[p] EXCEPT !.pc = "fill", !.rev = rev[u], !.role = r]
      BY <1>1, <3>1 DEF Request, Labels
    <3>3. /\ q.user = u /\ q.ver = req[p].ver /\ q.floor = req[p].floor
          /\ q.mark = req[p].mark /\ q.pc = "fill" /\ q.rev = rev[u]
      BY <1>1, <3>2 DEF Request
    <3>4. req[p].ver <= version /\ req[p].floor <= acked[u] /\ acked[u] <= rev[u]
      BY <1>1, <1>3, <3>1 DEF QueryUser, Sound, IInv
    <3>5. Sound(q)
      <4>1. req[p].floor \in Nat /\ acked[u] \in Nat
        BY <1>1, <3>1 DEF Request
      <4>2. \A v \in Users : q.mark[v] <= rev[v]
        BY <1>1, <3>3 DEF Sound
      <4> QED
        BY <3>1, <3>3, <3>4, <4>1, <4>2 DEF Sound, RoleLabels
    <3>6. req' = [req EXCEPT ![p] = q]
      BY <1>3, <2>1, <3>2 DEF QueryUser, r
    <3> QED
      BY <1>0, <1>3, <3>5, <3>6, HandlerStep DEF QueryUser, db, redis
  <2>2. CASE u \notin active
    BY <1>0, <1>1, <1>3, <2>2, FinishStep DEF QueryUser, db, redis
  <2> QED
    BY <2>1, <2>2
<1>4. CASE FillEntry(p)
  <2>1. PICK e \in Entry :
          e = [rev |-> req[p].rev, role |-> req[p].role, ver |-> req[p].ver]
    BY <1>1 DEF Entry, Request
  <2>2. entry' = [entry EXCEPT ![req[p].user] = e]
    BY <1>4, <2>1 DEF FillEntry
  <2>3. PICK q \in Request :
          q = [req[p] EXCEPT !.pc = IF req[p].role = Null THEN "decide" ELSE "track"]
    BY <1>1 DEF Request, Labels
  <2>4. req' = [req EXCEPT ![p] = q]
    BY <1>4, <2>3 DEF FillEntry, Goto
  <2>5. /\ q.user = req[p].user /\ q.rev = req[p].rev /\ q.floor = req[p].floor
        /\ q.mark = req[p].mark /\ q.role = req[p].role
        /\ q.pc = "decide" \/ (q.pc = "track" /\ q.role # Null)
    BY <1>1, <2>3 DEF Request
  <2>6. Sound(q)
    <3>1. /\ req[p].user \in Users /\ req[p].rev >= req[p].floor
          /\ req[p].role \in Roles \cup {Null} /\ \A u \in Users : req[p].mark[u] <= rev[u]
      BY <1>1, <1>4 DEF FillEntry, Sound, RoleLabels, Request
    <3> QED
      BY <2>5, <3>1 DEF Sound, RoleLabels
  <2>7. /\ req[p].ver <= version /\ req[p].user \in Users
        /\ req[p].ver = version => req[p].rev >= acked[req[p].user]
    BY <1>1, <1>4 DEF FillEntry, Sound, RoleLabels
  <2>8. UNCHANGED <<rev, roleOf, active, roles, version, tracked, profile, acked>>
    BY <1>4 DEF FillEntry, db
  <2>9. \A u \in Users : entry'[u] = entry[u] \/ EntrySound(u)'
    BY <1>1, <2>1, <2>2, <2>7, <2>8 DEF EntrySound, Entry
  <2>10. entry' \in [Users -> Entry \cup {Null}]
    BY <1>1, <2>2
  <2> QED
    BY <1>0, <1>1, <2>4, <2>6, <2>8, <2>9, <2>10, CacheStep
<1>5. CASE TrackUser(p)
  <2>1. PICK q \in Request : q = [req[p] EXCEPT !.pc = "renew"]
    BY <1>1 DEF Request, Labels
  <2>2. req' = [req EXCEPT ![p] = q]
    BY <1>5, <2>1 DEF TrackUser, Goto
  <2>3. /\ q.user = req[p].user /\ q.rev = req[p].rev /\ q.floor = req[p].floor
        /\ q.mark = req[p].mark /\ q.pc = "renew"
    BY <1>1, <2>1 DEF Request
  <2>4. Sound(q) /\ req[p].user \in Users
    BY <1>1, <1>5, <2>3 DEF TrackUser, Sound, RoleLabels
  <2>5. tracked' \in [Roles -> SUBSET Users]
    BY <1>1, <1>5, <2>4 DEF TrackUser
  <2>6. UNCHANGED <<rev, roleOf, active, roles, version, entry, profile, acked>>
    BY <1>5 DEF TrackUser, db
  <2> QED
    BY <1>0, <1>1, <2>2, <2>4, <2>5, <2>6, CacheStep
<1>6. CASE RenewTracked(p)
  <2>1. PICK q \in Request : q = [req[p] EXCEPT !.pc = "decide"]
    BY <1>1 DEF Request, Labels
  <2>2. req' = [req EXCEPT ![p] = q]
    BY <1>6, <2>1 DEF RenewTracked, Goto
  <2>3. /\ q.user = req[p].user /\ q.rev = req[p].rev /\ q.floor = req[p].floor
        /\ q.mark = req[p].mark /\ q.pc = "decide"
    BY <1>1, <2>1 DEF Request
  <2>4. Sound(q)
    BY <1>1, <1>6, <2>3 DEF RenewTracked, Sound, RoleLabels
  <2> QED
    BY <1>0, <1>6, <2>2, <2>4, HandlerStep DEF RenewTracked, db, redis
<1>7. CASE Decide(p)
  BY <1>0, <1>1, <1>7, FinishStep DEF Decide, db, redis
<1> QED
  BY <1>2, <1>3, <1>4, <1>5, <1>6, <1>7 DEF GateStep

\* A handler starts on a target.
LEMMA StartStep ==
  ASSUME IInv, NEW p \in Procs, NEW l \in Labels,
         NEW u \in Users \cup {Null}, NEW r \in Roles \cup {Null},
         l \notin {"query", "fill", "track", "renew", "decide"},
         l \notin RoleLabels \cup {"idle"} => u \in Users,
         l \in RoleLabels \cup {"saveUser"} => r \in Roles,
         req' = [req EXCEPT ![p] = [Idle EXCEPT !.pc = l, !.user = u, !.role = r]],
         UNCHANGED <<rev, roleOf, active, roles, version, entry, tracked, profile, acked>>
  PROVE  IInv'
<1>1. Idle \in Request /\ Idle.mark = [v \in Users |-> 0] /\ rev \in [Users -> Nat]
  BY IdleSound DEF Idle, IInv, TypeOK
<1>2. PICK q \in Request : q = [Idle EXCEPT !.pc = l, !.user = u, !.role = r]
  BY <1>1 DEF Request
<1>3. q.pc = l /\ q.user = u /\ q.role = r /\ q.mark = [v \in Users |-> 0]
  BY <1>1, <1>2 DEF Request
<1>4. Sound(q)
  BY <1>1, <1>3 DEF Sound
<1>5. req' = [req EXCEPT ![p] = q]
  BY <1>2
<1> QED
  BY <1>4, <1>5, HandlerStep

\* Looking up the target of a change.
LEMMA FindIInv ==
  ASSUME IInv, NEW a \in Admins,
         \/ \E u \in Users, r \in Roles : FindUser(a, u, r)
         \/ \E u \in Users : FindUserToDelete(a, u)
         \/ \E r \in Roles : FindRole(a, r) \/ FindRoleToDelete(a, r)
  PROVE  IInv'
<1>0. a \in Procs /\ Idle.user = Null /\ Idle.role = Null /\ Idle \in Request
  BY IdleSound DEF Procs, Idle, IInv, TypeOK
<1>1. ASSUME NEW u \in Users, NEW r \in Roles, FindUser(a, u, r) PROVE IInv'
  <2>1. "saveUser" \in Labels /\ "saveUser" \notin RoleLabels
    BY DEF Labels, RoleLabels
  <2> QED
    BY <1>0, <1>1, <2>1, StartStep DEF FindUser, db, redis
<1>2. ASSUME NEW u \in Users, FindUserToDelete(a, u) PROVE IInv'
  <2>1. "deleteUser" \in Labels /\ "deleteUser" \notin RoleLabels
    BY DEF Labels, RoleLabels
  <2>2. [Idle EXCEPT !.pc = "deleteUser", !.user = u]
          = [Idle EXCEPT !.pc = "deleteUser", !.user = u, !.role = Null]
    BY <1>0 DEF Request
  <2>3. /\ req' = [req EXCEPT ![a] =
                     [Idle EXCEPT !.pc = "deleteUser", !.user = u, !.role = Null]]
        /\ UNCHANGED <<rev, roleOf, active, roles, version, entry, tracked, profile, acked>>
    BY <1>2, <2>2 DEF FindUserToDelete, db, redis
  <2>4. "deleteUser" \notin {"query", "fill", "track", "renew", "decide", "saveUser"}
    OBVIOUS
  <2> QED
    BY <1>0, <2>1, <2>3, <2>4, StartStep
<1>3. ASSUME NEW r \in Roles, NEW l \in {"saveRole", "deleteRole"},
             req' = [req EXCEPT ![a] = [Idle EXCEPT !.pc = l, !.role = r]],
             UNCHANGED <<db, redis, acked>>
      PROVE  IInv'
  <2>1. l \in Labels /\ l \in RoleLabels
    BY DEF Labels, RoleLabels
  <2>2. [Idle EXCEPT !.pc = l, !.role = r]
          = [Idle EXCEPT !.pc = l, !.user = Null, !.role = r]
    BY <1>0 DEF Request
  <2> QED
    BY <1>0, <1>3, <2>1, <2>2, StartStep DEF db, redis
<1> QED
  BY <1>1, <1>2, <1>3 DEF FindRole, FindRoleToDelete

\* A change commits: the revisions of its users grow, nothing is acknowledged.
LEMMA CommitIInv ==
  ASSUME IInv, NEW a \in Procs, NEW S \in SUBSET Users,
         NEW l \in {"bumpUser", "bumpRole"}, Commit(a, S, l),
         l = "bumpUser" => req[a].user \in Users,
         l = "bumpRole" => req[a].role \in Roles,
         roleOf' \in [Users -> Roles], active' \in SUBSET Users, roles' \in SUBSET Roles,
         UNCHANGED <<version, entry, tracked, profile, acked>>
  PROVE  IInv'
<1>1. /\ req[a] \in Request /\ rev \in [Users -> Nat] /\ acked \in [Users -> Nat]
      /\ version \in Nat
  BY HandlerFacts
<1> DEFINE m == [u \in Users |-> IF u \in S THEN rev[u] + 1 ELSE 0]
<1>2. m \in [Users -> Nat]
  BY <1>1
<1>3. rev' = [u \in Users |-> IF u \in S THEN rev[u] + 1 ELSE rev[u]]
  BY DEF Commit
<1>4. \A u \in Users : m[u] <= rev'[u]
  BY <1>1, <1>3
<1>5. rev' \in [Users -> Nat] /\ \A u \in Users : rev[u] <= rev'[u]
  BY <1>1, <1>3
<1>6. l \in Labels
  BY DEF Labels
<1> HIDE DEF m
<1>7. PICK q \in Request : q = [req[a] EXCEPT !.pc = l, !.mark = m]
  BY <1>1, <1>2, <1>6 DEF Request
<1>8. req' = [req EXCEPT ![a] = q]
  BY <1>7 DEF Commit, m
<1>9. q.pc = l /\ q.mark = m /\ q.user = req[a].user /\ q.role = req[a].role
  BY <1>1, <1>7 DEF Request
<1>10. Sound(q)'
  BY <1>4, <1>9 DEF Sound, RoleLabels
<1>11. TypeOK'
  BY <1>5, <1>8 DEF IInv, TypeOK
<1>12. Grows
  <2>1. \A u \in Users : acked[u] <= rev[u]
    BY DEF IInv
  <2>2. \A u \in Users : acked[u] <= rev'[u]
    BY <1>1, <1>5, <2>1
  <2> QED
    BY <1>1, <1>5, <2>2 DEF Grows
<1>13. \A u \in Users : EntrySound(u)'
  BY DEF IInv, EntrySound
<1> QED
  BY <1>8, <1>10, <1>11, <1>12, <1>13, OneStep

\* The four changes.
LEMMA ChangeIInv ==
  ASSUME IInv, NEW a \in Admins,
         SaveUser(a) \/ DeleteUser(a) \/ SaveRole(a) \/ DeleteRole(a)
  PROVE  IInv'
<1>0. a \in Procs
  BY DEF Procs
<1>1. /\ Sound(req[a]) /\ roleOf \in [Users -> Roles] /\ active \in SUBSET Users
      /\ roles \in SUBSET Roles
  BY <1>0 DEF IInv, TypeOK
<1>2. CASE SaveUser(a)
  <2>1. req[a].user \in Users /\ req[a].role \in Roles
    BY <1>1, <1>2 DEF SaveUser, Sound, RoleLabels
  <2>2. roleOf' \in [Users -> Roles] /\ Commit(a, {req[a].user}, "bumpUser")
    BY <1>1, <1>2, <2>1 DEF SaveUser
  <2> QED
    BY <1>0, <1>1, <1>2, <2>1, <2>2, CommitIInv DEF SaveUser, redis
<1>3. CASE DeleteUser(a)
  <2>1. req[a].user \in Users
    BY <1>1, <1>3 DEF DeleteUser, Sound, RoleLabels
  <2>2. active' \in SUBSET Users /\ Commit(a, {req[a].user}, "bumpUser")
    BY <1>1, <1>3 DEF DeleteUser
  <2> QED
    BY <1>0, <1>1, <1>3, <2>1, <2>2, CommitIInv DEF DeleteUser, redis
<1>4. CASE SaveRole(a) \/ DeleteRole(a)
  <2>1. req[a].role \in Roles
    BY <1>1, <1>4 DEF SaveRole, DeleteRole, Sound, RoleLabels
  <2>2. /\ roles' \in SUBSET Roles
        /\ Commit(a, {u \in Users : roleOf[u] = req[a].role}, "bumpRole")
        /\ UNCHANGED <<roleOf, active, redis, acked>>
    BY <1>1, <1>4 DEF SaveRole, DeleteRole
  <2> QED
    BY <1>0, <1>1, <2>1, <2>2, CommitIInv DEF redis
<1> QED
  BY <1>2, <1>3, <1>4

\* The version bump: the change is acknowledged, and no entry and no request in
\* flight carries the new version yet.
LEMMA BumpIInv ==
  ASSUME IInv, NEW a \in Admins, InvalidateAccess(a)
  PROVE  IInv'
<1>0. a \in Procs
  BY DEF Procs
<1>1. /\ req[a] \in Request /\ Sound(req[a]) /\ rev \in [Users -> Nat]
      /\ acked \in [Users -> Nat] /\ version \in Nat
      /\ entry \in [Users -> Entry \cup {Null}]
  BY <1>0, HandlerFacts
<1> DEFINE l == IF req[a].pc = "bumpUser" THEN "dropUser" ELSE "members"
<1>2. /\ UNCHANGED <<rev, roleOf, active, roles, entry, tracked, profile>>
      /\ version' = version + 1
      /\ acked' = [u \in Users |-> IF acked[u] < req[a].mark[u] THEN req[a].mark[u]
                                                              ELSE acked[u]]
  BY DEF InvalidateAccess, db
<1>3. l \in Labels
  BY DEF Labels
<1>4. PICK q \in Request : q = [req[a] EXCEPT !.pc = l]
  BY <1>1, <1>3 DEF Request
<1>5. req' = [req EXCEPT ![a] = q]
  BY <1>4 DEF InvalidateAccess, Goto
<1>6. /\ q.pc = l /\ q.mark = req[a].mark
      /\ q.user = req[a].user /\ q.role = req[a].role
  BY <1>1, <1>4 DEF Request
<1>7. \/ l = "dropUser" /\ req[a].user \in Users
      \/ l = "members" /\ req[a].role \in Roles
  <2>1. req[a].pc = "bumpUser" \/ req[a].pc = "bumpRole"
    BY DEF InvalidateAccess
  <2>2. CASE req[a].pc = "bumpUser"
    BY <1>1, <2>2 DEF Sound, RoleLabels
  <2>3. CASE req[a].pc = "bumpRole"
    BY <1>1, <2>3 DEF Sound, RoleLabels
  <2> QED
    BY <2>1, <2>2, <2>3
<1> HIDE DEF l
<1>8. \A u \in Users : q.mark[u] \in Nat /\ q.mark[u] <= rev[u] /\ acked[u] <= rev[u]
  BY <1>1, <1>6 DEF Sound, Request, IInv
<1>9. Sound(q)'
  BY <1>2, <1>6, <1>7, <1>8 DEF Sound, RoleLabels
<1>10. acked' \in [Users -> Nat] /\ \A u \in Users : acked[u] <= acked'[u] /\ acked'[u] <= rev[u]
  BY <1>1, <1>2, <1>6, <1>8
<1>11. version' \in Nat
  BY <1>1, <1>2
<1>12. TypeOK'
  BY <1>2, <1>5, <1>10, <1>11 DEF IInv, TypeOK
<1>13. Grows
  BY <1>1, <1>2, <1>10 DEF Grows
<1>14. \A u \in Users : EntrySound(u)'
  <2> SUFFICES ASSUME NEW u \in Users, entry[u] # Null
               PROVE  entry[u].ver <= version + 1 /\ entry[u].ver # version + 1
    BY <1>2 DEF EntrySound
  <2>1. entry[u].ver \in Nat /\ entry[u].ver <= version
    BY <1>1 DEF IInv, EntrySound, Entry
  <2> QED
    BY <1>1, <2>1
<1> QED
  BY <1>0, <1>5, <1>9, <1>12, <1>13, <1>14, OneStep

\* A handler moves on without touching what soundness is about.
LEMMA MoveOn ==
  ASSUME IInv, NEW p \in Procs, NEW q \in Request,
         q.pc \notin {"query", "fill", "track", "renew", "decide", "saveUser"},
         q.pc \in RoleLabels => req[p].pc \in RoleLabels,
         q.pc \notin RoleLabels => req[p].pc \notin RoleLabels \cup {"idle"},
         q.user = req[p].user, q.role = req[p].role, q.mark = req[p].mark
  PROVE  Sound(q)
<1>1. Sound(req[p])
  BY HandlerFacts
<1> QED
  BY <1>1 DEF Sound

\* Dropping the cached entries after the bump.
LEMMA DropIInv ==
  ASSUME IInv, NEW a \in Admins,
         DropUser(a) \/ ReadMembers(a) \/ DropMembers(a) \/ UntrackMembers(a)
  PROVE  IInv'
<1>0. a \in Procs
  BY DEF Procs
<1>1. /\ req[a] \in Request /\ Sound(req[a])
      /\ entry \in [Users -> Entry \cup {Null}] /\ tracked \in [Roles -> SUBSET Users]
      /\ profile \in [Users -> Nat \cup {Null}]
  BY <1>0, HandlerFacts
<1>2. CASE DropUser(a)
  <2>1. /\ UNCHANGED <<rev, roleOf, active, roles, version, tracked, profile, acked>>
        /\ Finish(a) /\ entry' = [entry EXCEPT ![req[a].user] = Null]
    BY <1>2 DEF DropUser, db
  <2>2. entry' \in [Users -> Entry \cup {Null}]
    BY <1>1, <2>1
  <2>3. \A u \in Users : entry'[u] = entry[u] \/ EntrySound(u)'
    BY <1>1, <2>1 DEF EntrySound
  <2> QED
    BY <1>0, <1>1, <2>1, <2>2, <2>3, FinishStep
<1>3. CASE ReadMembers(a)
  <2>1. "dropMembers" \in Labels /\ "dropMembers" \in RoleLabels /\ req[a].pc \in RoleLabels
    BY <1>3 DEF Labels, RoleLabels, ReadMembers
  <2>2. tracked[req[a].role] \in SUBSET Users
    BY <1>1, <2>1 DEF Sound
  <2>3. PICK q \in Request :
          q = [req[a] EXCEPT !.pc = "dropMembers", !.members = tracked[req[a].role]]
    BY <1>1, <2>1, <2>2 DEF Request
  <2>4. /\ q.pc = "dropMembers" /\ q.user = req[a].user /\ q.role = req[a].role
        /\ q.mark = req[a].mark
    BY <1>1, <2>3 DEF Request
  <2>5. Sound(q)
    BY <1>0, <2>1, <2>4, MoveOn
  <2>6. req' = [req EXCEPT ![a] = q]
    BY <1>3, <2>3 DEF ReadMembers
  <2> QED
    BY <1>0, <1>3, <2>5, <2>6, HandlerStep DEF ReadMembers, db, redis
<1>4. CASE DropMembers(a)
  <2>1. "untrack" \in Labels /\ "untrack" \in RoleLabels /\ req[a].pc \in RoleLabels
    BY <1>4 DEF Labels, RoleLabels, DropMembers
  <2>2. PICK q \in Request : q = [req[a] EXCEPT !.pc = "untrack"]
    BY <1>1, <2>1 DEF Request
  <2>3. /\ q.pc = "untrack" /\ q.user = req[a].user /\ q.role = req[a].role
        /\ q.mark = req[a].mark
    BY <1>1, <2>2 DEF Request
  <2>4. Sound(q)
    BY <1>0, <2>1, <2>3, MoveOn
  <2>5. req' = [req EXCEPT ![a] = q]
    BY <1>4, <2>2 DEF DropMembers, Goto
  <2>6. /\ UNCHANGED <<rev, roleOf, active, roles, version, tracked, acked>>
        /\ entry' \in [Users -> Entry \cup {Null}] /\ profile' \in [Users -> Nat \cup {Null}]
    BY <1>1, <1>4 DEF DropMembers, db
  <2>7. \A u \in Users : entry'[u] = entry[u] \/ EntrySound(u)'
    BY <1>1, <1>4 DEF DropMembers, EntrySound
  <2> QED
    BY <1>0, <1>1, <2>4, <2>5, <2>6, <2>7, CacheStep
<1>5. CASE UntrackMembers(a)
  <2>1. UNCHANGED <<rev, roleOf, active, roles, version, entry, profile, acked>> /\ Finish(a)
    BY <1>5 DEF UntrackMembers, db
  <2>2. tracked' \in [Roles -> SUBSET Users]
    BY <1>1, <1>5 DEF UntrackMembers
  <2> QED
    BY <1>0, <1>1, <2>1, <2>2, FinishStep
<1> QED
  BY <1>2, <1>3, <1>4, <1>5

\* The caller's own profile.
LEMMA OwnerIInv ==
  ASSUME IInv, NEW p \in Owners, OwnerStep(p)
  PROVE  IInv'
<1>0. p \in Procs /\ Idle \in Request /\ Idle.role = Null
  BY IdleSound DEF Procs, Idle, IInv, TypeOK
<1>1. /\ req[p] \in Request /\ Sound(req[p])
      /\ rev \in [Users -> Nat] /\ acked \in [Users -> Nat] /\ version \in Nat
      /\ entry \in [Users -> Entry \cup {Null}] /\ tracked \in [Roles -> SUBSET Users]
      /\ profile \in [Users -> Nat \cup {Null}] /\ active \subseteq Users
  BY <1>0, HandlerFacts
<1>2. ASSUME NEW u \in Users, GetProfile(p, u) \/ FindProfile(p, u) PROVE IInv'
  <2>1. PICK l \in {"load", "saveProfile"} :
          req' = [req EXCEPT ![p] = [Idle EXCEPT !.pc = l, !.user = u]]
    BY <1>2 DEF GetProfile, FindProfile
  <2>2. l \in Labels /\ l \notin RoleLabels
    BY DEF Labels, RoleLabels
  <2>3. [Idle EXCEPT !.pc = l, !.user = u] = [Idle EXCEPT !.pc = l, !.user = u, !.role = Null]
    BY <1>0 DEF Request
  <2>4. UNCHANGED <<rev, roleOf, active, roles, version, entry, tracked, profile, acked>>
    BY <1>2 DEF GetProfile, FindProfile, db, redis
  <2> QED
    BY <1>0, <2>1, <2>2, <2>3, <2>4, StartStep
\* A step to label l that also notes a revision.
<1>3. ASSUME NEW l \in {"store", "storeNew", "loadNew", "storeAgain", "fetchNew", "respond"},
             NEW n \in Nat, req[p].pc \notin RoleLabels \cup {"idle"},
             req' = [req EXCEPT ![p] = [req[p] EXCEPT !.pc = l, !.rev = n]],
             UNCHANGED <<rev, roleOf, active, roles, version, entry, tracked, acked>>,
             profile' \in [Users -> Nat \cup {Null}]
      PROVE  IInv'
  <2>1. l \in Labels /\ l \notin RoleLabels
    BY DEF Labels, RoleLabels
  <2>2. PICK q \in Request : q = [req[p] EXCEPT !.pc = l, !.rev = n]
    BY <1>1, <2>1 DEF Request
  <2>3. q.pc = l /\ q.user = req[p].user /\ q.role = req[p].role /\ q.mark = req[p].mark
    BY <1>1, <2>2 DEF Request
  <2>4. Sound(q)
    BY <1>0, <1>3, <2>1, <2>3, MoveOn
  <2>5. req' = [req EXCEPT ![p] = q]
    BY <1>3, <2>2
  <2> QED
    BY <1>0, <1>1, <1>3, <2>4, <2>5, CacheStep
<1>4. \A l : [req[p] EXCEPT !.pc = l] = [req[p] EXCEPT !.pc = l, !.rev = req[p].rev]
  BY <1>1 DEF Request
<1>5. req[p].rev \in Nat /\ (req[p].pc \notin RoleLabels \cup {"idle"} => req[p].user \in Users)
  BY <1>1 DEF Request, Sound
<1>6. CASE LoadProfile(p)
  <2>1. req[p].pc \notin RoleLabels \cup {"idle"}
    BY <1>6 DEF LoadProfile, RoleLabels
  <2>2. CASE req[p].user \in active
    <3>1. PICK l \in {"store", "storeNew"} :
            req' = [req EXCEPT ![p] = [req[p] EXCEPT !.pc = l, !.rev = rev[req[p].user]]]
      BY <1>1, <1>6, <2>2 DEF LoadProfile, Request
    <3>2. rev[req[p].user] \in Nat
      BY <1>1, <2>2
    <3> QED
      BY <1>1, <1>3, <1>6, <2>1, <3>1, <3>2 DEF LoadProfile, db, redis
  <2>3. CASE req[p].user \notin active
    BY <1>0, <1>1, <1>6, <2>3, FinishStep DEF LoadProfile, db, redis
  <2> QED
    BY <2>2, <2>3
<1>7. CASE StoreProfile(p)
  <2>1. /\ profile' \in [Users -> Nat \cup {Null}] /\ req[p].pc \notin RoleLabels \cup {"idle"}
        /\ UNCHANGED <<rev, roleOf, active, roles, version, entry, tracked, acked>>
    BY <1>1, <1>5, <1>7 DEF StoreProfile, db, RoleLabels
  <2>2. Finish(p) \/ req' = [req EXCEPT ![p] = [req[p] EXCEPT !.pc = "storeAgain"]]
    BY <1>7 DEF StoreProfile, Goto
  <2>3. CASE Finish(p)
    BY <1>0, <1>1, <2>1, <2>3, FinishStep
  <2>4. CASE req' = [req EXCEPT ![p] = [req[p] EXCEPT !.pc = "storeAgain"]]
    BY <1>3, <1>4, <1>5, <2>1, <2>4
  <2> QED
    BY <2>2, <2>3, <2>4
<1>8. CASE SaveProfile(p)
  <2> DEFINE u == req[p].user
  <2>1. u \in Users /\ rev[u] \in Nat
    BY <1>1, <1>5, <1>8 DEF SaveProfile, RoleLabels
  <2>2. PICK q \in Request : q = [req[p] EXCEPT !.pc = "dropProfile", !.floor = rev[u] + 1]
    <3>1. "dropProfile" \in Labels /\ rev[u] + 1 \in Nat
      BY <2>1 DEF Labels
    <3> HIDE DEF u
    <3> QED
      BY <1>1, <3>1 DEF Request
  <2>3. /\ q.pc = "dropProfile" /\ q.user = req[p].user /\ q.role = req[p].role
        /\ q.mark = req[p].mark
    BY <1>1, <2>2 DEF Request
  <2>4. Sound(q)
    <3>1. req[p].pc \notin RoleLabels \cup {"idle"} /\ "dropProfile" \notin RoleLabels
      BY <1>8 DEF SaveProfile, RoleLabels
    <3> QED
      BY <1>0, <2>3, <3>1, MoveOn
  <2>5. /\ req' = [req EXCEPT ![p] = q] /\ rev' = [rev EXCEPT ![u] = rev[u] + 1]
        /\ UNCHANGED <<roleOf, active, roles, version, entry, tracked, profile, acked>>
    BY <1>8, <2>2 DEF SaveProfile, redis
  <2> HIDE DEF u
  <2>6. rev' \in [Users -> Nat] /\ \A v \in Users : rev[v] <= rev'[v]
    BY <1>1, <2>1, <2>5
  <2>7. TypeOK'
    BY <2>5, <2>6 DEF IInv, TypeOK
  <2>8. Grows
    <3>1. \A v \in Users : acked[v] <= rev[v]
      BY DEF IInv
    <3>2. \A v \in Users : acked[v] <= rev'[v]
      BY <1>1, <2>6, <3>1
    <3> QED
      BY <1>1, <2>5, <2>6, <3>2 DEF Grows
  <2>9. Sound(q)'
    BY <2>4, <2>7, <2>8, SoundKept
  <2>10. \A v \in Users : EntrySound(v)'
    BY <2>5 DEF IInv, EntrySound
  <2> QED
    BY <1>0, <2>5, <2>7, <2>8, <2>9, <2>10, OneStep
<1>9. CASE DropProfile(p)
  <2>1. /\ profile' \in [Users -> Nat \cup {Null}] /\ req[p].pc \notin RoleLabels \cup {"idle"}
        /\ UNCHANGED <<rev, roleOf, active, roles, version, entry, tracked, acked>>
    BY <1>1, <1>9 DEF DropProfile, db, RoleLabels
  <2>2. ReadBefore(p) \in BOOLEAN /\ "fetchNew" \in Labels /\ "fetchNew" \notin RoleLabels
    BY DEF ReadBefore, Labels, RoleLabels
  <2>3. PICK q \in Request : q = [req[p] EXCEPT !.pc = "fetchNew", !.raced = ReadBefore(p)]
    BY <1>1, <2>2 DEF Request
  <2>4. req' = [req EXCEPT ![p] = q]
    BY <1>9, <2>3 DEF DropProfile
  <2>5. q.pc = "fetchNew" /\ q.user = req[p].user /\ q.role = req[p].role /\ q.mark = req[p].mark
    BY <1>1, <2>3 DEF Request
  <2>6. Sound(q)
    BY <1>0, <2>1, <2>2, <2>5, MoveOn
  <2> QED
    BY <1>0, <1>1, <2>1, <2>4, <2>6, CacheStep
<1>10. CASE FetchNewProfile(p)
  <2>1. /\ req[p].pc \notin RoleLabels \cup {"idle"}
        /\ UNCHANGED <<rev, roleOf, active, roles, version, entry, tracked, profile, acked>>
    BY <1>10 DEF FetchNewProfile, db, redis, RoleLabels
  <2>2. CASE profile[req[p].user] = Null
    <3>1. req' = [req EXCEPT ![p] = [req[p] EXCEPT !.pc = "loadNew"]]
      BY <1>10, <2>2 DEF FetchNewProfile, Goto
    <3> QED
      BY <1>1, <1>3, <1>4, <1>5, <2>1, <3>1
  <2>3. CASE profile[req[p].user] # Null
    <3>1. req' = [req EXCEPT ![p] = [req[p] EXCEPT !.pc = "storeAgain",
                                                  !.rev = profile[req[p].user]]]
      BY <1>10, <2>3 DEF FetchNewProfile
    <3>2. profile[req[p].user] \in Nat
      BY <1>1, <1>5, <2>1, <2>3
    <3> QED
      BY <1>1, <1>3, <2>1, <3>1, <3>2
  <2> QED
    BY <2>2, <2>3
<1>11. CASE StoreNewProfile(p)
  <2>1. /\ profile' \in [Users -> Nat \cup {Null}] /\ req[p].pc \notin RoleLabels \cup {"idle"}
        /\ UNCHANGED <<rev, roleOf, active, roles, version, entry, tracked, acked>>
        /\ req' = [req EXCEPT ![p] = [req[p] EXCEPT !.pc = "respond"]]
    BY <1>1, <1>5, <1>11 DEF StoreNewProfile, db, RoleLabels, Goto
  <2> QED
    BY <1>3, <1>4, <1>5, <2>1
<1>12. CASE Respond(p)
  BY <1>0, <1>1, <1>12, FinishStep DEF Respond, db, redis
<1> QED
  BY <1>2, <1>6, <1>7, <1>8, <1>9, <1>10, <1>11, <1>12 DEF OwnerStep

\* Times to live run out.
LEMMA ExpireIInv ==
  ASSUME IInv,
         \/ \E u \in Users : ExpireEntry(u) \/ ExpireProfile(u)
         \/ \E r \in Roles : ExpireTracked(r)
  PROVE  IInv'
<1>1. /\ UNCHANGED <<rev, roleOf, active, roles, version, req, acked>>
      /\ \A u \in Users : entry'[u] = entry[u] \/ entry'[u] = Null
  BY DEF ExpireEntry, ExpireProfile, ExpireTracked, db, IInv, TypeOK
<1>2. TypeOK'
  BY DEF ExpireEntry, ExpireProfile, ExpireTracked, db, IInv, TypeOK
<1>3. \A u \in Users : acked'[u] <= rev'[u] /\ EntrySound(u)'
  BY <1>1 DEF IInv, EntrySound
<1>4. \A p \in Procs : Sound(req[p])'
  BY <1>1 DEF IInv, Sound
<1> QED
  BY <1>2, <1>3, <1>4 DEF IInv

\* The invariant is inductive.
LEMMA NextIInv == IInv /\ [Next]_vars => IInv'
<1> SUFFICES ASSUME IInv, [Next]_vars PROVE IInv'
  OBVIOUS
<1>1. CASE UNCHANGED vars
  <2>1. TypeOK' /\ \A u \in Users : acked'[u] <= rev'[u] /\ EntrySound(u)'
    BY <1>1 DEF IInv, TypeOK, EntrySound, vars
  <2>2. \A p \in Procs : Sound(req[p])'
    BY <1>1 DEF IInv, Sound, vars
  <2> QED
    BY <2>1, <2>2 DEF IInv
<1>2. ASSUME NEW a \in Admins, AdminStep(a) PROVE IInv'
  BY <1>2, FindIInv, ChangeIInv, BumpIInv, DropIInv DEF AdminStep
<1>3. ASSUME NEW p \in Procs, Fail(p) PROVE IInv'
  BY <1>3, HandlerFacts, FinishStep DEF Fail, db, redis
<1> QED
  BY <1>1, <1>2, <1>3, GateIInv, OwnerIInv, ExpireIInv DEF Next

-----------------------------------------------------------------------------
\* Type correctness of the access cache.
THEOREM TypeCorrect == Spec => []TypeOK
<1>1. IInv => TypeOK
  BY DEF IInv
<1> QED
  BY <1>1, InitIInv, NextIInv, PTL DEF Spec

\* A role or user change that was invalidated applies to every later request at
\* a gate, for any number of overlapping changes, cache fills and failures.
THEOREM ChangesEnforced == Spec => []EnforcedAtOnce
<1>1. IInv => EnforcedAtOnce
  BY DEF IInv, EnforcedAtOnce, Sound, Procs
<1> QED
  BY <1>1, InitIInv, NextIInv, PTL DEF Spec

-----------------------------------------------------------------------------
(***************************************************************************)
(* The update of one's own profile.  Once it has dropped the cached        *)
(* profile, what is cached is its own revision or a later one: nobody but  *)
(* the requests for a profile caches it, and a request that reads it from  *)
(* then on reads that revision or a later one.                             *)
(***************************************************************************)
UpdateLabels == {"dropProfile", "fetchNew", "loadNew", "storeNew", "storeAgain", "respond"}
Holding == {"store", "storeNew", "storeAgain"}

\* What is cached for the user of p, or about to be, is not older than p's update.
Safe(p) ==
  /\ profile[req[p].user] = Null \/ profile[req[p].user] >= req[p].floor
  /\ \A q \in Owners \ {p} : req[q].user = req[p].user /\ req[q].pc \in Holding
                               => req[q].rev >= req[p].floor

\* An update that was committed has not lost its revision.
Fresh(p) ==
  LET q == req[p] IN
  /\ q.pc \in UpdateLabels => q.user \in Users /\ q.floor <= rev[q.user]
  /\ q.pc = "fetchNew" /\ ~q.raced => Safe(p)
  /\ q.pc \in {"storeNew", "storeAgain", "respond"} /\ ~q.raced => q.rev >= q.floor

\* A step that is not the request's own.
LEMMA FreshKept ==
  ASSUME IInv, IInv', NEW p \in Owners, Fresh(p), req'[p] = req[p],
         \A u \in Users : rev[u] <= rev'[u],
         req[p].pc = "fetchNew" /\ Safe(p) => Safe(p)'
  PROVE  Fresh(p)'
<1>1. /\ req[p].floor \in Nat /\ rev \in [Users -> Nat] /\ rev' \in [Users -> Nat]
  BY DEF IInv, TypeOK, Request, Procs
<1>2. ASSUME req[p].pc \in UpdateLabels PROVE req[p].floor <= rev'[req[p].user]
  <2>1. req[p].user \in Users /\ req[p].floor <= rev[req[p].user]
    BY <1>2 DEF Fresh
  <2> QED
    BY <1>1, <2>1
<1> HIDE DEF Safe
<1> QED
  BY <1>2 DEF Fresh, UpdateLabels

\* Requests at a gate and administrators cache no profile.
LEMMA OthersFresh ==
  ASSUME IInv, IInv', NEW p \in Owners, Fresh(p),
         \/ \E g \in Gates : GateStep(g)
         \/ \E a \in Admins : AdminStep(a)
         \/ \E u \in Users : ExpireEntry(u) \/ ExpireProfile(u)
         \/ \E r \in Roles : ExpireTracked(r)
  PROVE  Fresh(p)'
<1>0. /\ req \in [Procs -> Request] /\ rev \in [Users -> Nat] /\ p \in Procs
      /\ profile \in [Users -> Nat \cup {Null}]
  BY DEF IInv, TypeOK, Procs
<1> SUFFICES /\ \A q \in Owners : req'[q] = req[q]
             /\ \A u \in Users : rev[u] <= rev'[u]
             /\ \A u \in Users : profile'[u] = profile[u] \/ profile'[u] = Null
  <2>1. req[p].pc = "fetchNew" => req[p].user \in Users
    BY DEF Fresh, UpdateLabels
  <2>2. ASSUME \A q \in Owners : req'[q] = req[q], req[p].pc = "fetchNew", Safe(p),
               \A u \in Users : profile'[u] = profile[u] \/ profile'[u] = Null
        PROVE  Safe(p)'
    BY <2>1, <2>2 DEF Safe
  <2> QED
    BY <2>2, FreshKept
<1>1. ASSUME NEW g \in Gates, GateStep(g)
      PROVE  /\ \A q \in Owners : req'[q] = req[q]
             /\ rev' = rev /\ profile' = profile
  <2>1. \A q \in Owners : g # q
    BY AccessAssumption
  <2>2. CASE \E u \in Users : ReadUserAccess(g, u)
    BY <1>0, <2>1, <2>2 DEF ReadUserAccess, Procs, db, redis
  <2>3. CASE QueryUser(g) \/ FillEntry(g)
    BY <1>0, <2>1, <2>3 DEF QueryUser, FillEntry, Finish, Goto, Procs, db, redis
  <2>4. CASE TrackUser(g) \/ RenewTracked(g) \/ Decide(g)
    BY <1>0, <2>1, <2>4 DEF TrackUser, RenewTracked, Decide, Finish, Goto, Procs, db, redis
  <2> QED
    BY <1>1, <2>2, <2>3, <2>4 DEF GateStep
<1>2. ASSUME NEW a \in Admins, AdminStep(a)
      PROVE  /\ \A q \in Owners : req'[q] = req[q]
             /\ \A u \in Users : rev[u] <= rev'[u]
             /\ \A u \in Users : profile'[u] = profile[u] \/ profile'[u] = Null
  <2>1. \A q \in Owners : a # q
    BY AccessAssumption
  <2>2. \E q : req' = [req EXCEPT ![a] = q]
    BY <1>2 DEF AdminStep, FindUser, FindUserToDelete, FindRole,
         FindRoleToDelete, SaveUser, DeleteUser, SaveRole, DeleteRole, Commit,
         InvalidateAccess, DropUser, ReadMembers, DropMembers, UntrackMembers, Finish, Goto
  <2>3. \A u \in Users : rev[u] <= rev'[u]
    <3>1. \/ rev' = rev
          \/ \E S : rev' = [u \in Users |-> IF u \in S THEN rev[u] + 1 ELSE rev[u]]
      BY <1>2 DEF AdminStep, FindUser, FindUserToDelete, FindRole,
           FindRoleToDelete, SaveUser, DeleteUser, SaveRole, DeleteRole, Commit,
           InvalidateAccess, DropUser, ReadMembers, DropMembers, UntrackMembers, db
    <3> QED
      BY <1>0, <3>1
  <2>4. \A u \in Users : profile'[u] = profile[u] \/ profile'[u] = Null
    BY <1>0, <1>2 DEF AdminStep, FindUser, FindUserToDelete, FindRole,
         FindRoleToDelete, SaveUser, DeleteUser, SaveRole, DeleteRole,
         InvalidateAccess, DropUser, ReadMembers, DropMembers, UntrackMembers, redis
  <2> QED
    BY <1>0, <2>1, <2>2, <2>3, <2>4 DEF Procs
<1>3. CASE \/ \E u \in Users : ExpireEntry(u) \/ ExpireProfile(u)
           \/ \E r \in Roles : ExpireTracked(r)
  BY <1>0, <1>3 DEF ExpireEntry, ExpireProfile, ExpireTracked, db
<1> QED
  BY <1>0, <1>1, <1>2, <1>3

\* A step of another request for a profile.
LEMMA OtherOwnerFresh ==
  ASSUME IInv, IInv', NEW p \in Owners, Fresh(p), NEW o \in Owners, o # p,
         OwnerStep(o)
  PROVE  Fresh(p)'
<1>0. /\ req \in [Procs -> Request] /\ rev \in [Users -> Nat] /\ p \in Procs /\ o \in Procs
      /\ profile \in [Users -> Nat \cup {Null}] /\ Sound(req[o])
      /\ req[o] \in Request /\ req[p] \in Request
  BY DEF IInv, TypeOK, Procs
<1>1. \A q \in Owners : q # o => q \in Procs
  BY DEF Procs
<1>2. \A q \in Owners : q # o => req'[q] = req[q]
  <2>1. CASE \E u \in Users : GetProfile(o, u) \/ FindProfile(o, u)
    BY <1>0, <1>1, <2>1 DEF GetProfile, FindProfile
  <2>2. CASE LoadProfile(o) \/ StoreProfile(o) \/ SaveProfile(o)
    BY <1>0, <1>1, <2>2 DEF LoadProfile, StoreProfile, SaveProfile, Finish, Goto
  <2>3. CASE DropProfile(o) \/ FetchNewProfile(o) \/ StoreNewProfile(o) \/ Respond(o)
    BY <1>0, <1>1, <2>3 DEF DropProfile, FetchNewProfile, StoreNewProfile, Respond, Finish, Goto
  <2> QED
    BY <2>1, <2>2, <2>3 DEF OwnerStep
<1>3. \A u \in Users : rev[u] <= rev'[u]
  <2>1. rev' = rev \/ \E v : rev' = [rev EXCEPT ![v] = rev[v] + 1]
    BY DEF OwnerStep, GetProfile, FindProfile, LoadProfile, StoreProfile, SaveProfile,
           DropProfile, FetchNewProfile, StoreNewProfile, Respond, db
  <2> QED
    BY <1>0, <2>1
<1>4. ASSUME req[p].pc = "fetchNew", Safe(p)
      PROVE  Safe(p)'
  <2> DEFINE u == req[p].user
  <2>0. u \in Users /\ req[p].floor \in Nat /\ req[p].floor <= rev[u] /\ rev[u] \in Nat
    BY <1>0, <1>4 DEF Fresh, UpdateLabels, Request
  <2>1. profile'[u] \in {profile[u], Null}
          \/ (req[o].user = u /\ req[o].pc \in Holding /\ profile'[u] = req[o].rev)
    BY <1>0, <2>0 DEF OwnerStep, GetProfile, FindProfile, LoadProfile, StoreProfile,
         SaveProfile, DropProfile, FetchNewProfile, StoreNewProfile, Respond, redis, Holding
  <2>2. profile'[u] = Null \/ profile'[u] >= req[p].floor
    BY <1>4, <2>1 DEF Safe
  <2>3. ASSUME req'[o].user = u, req'[o].pc \in Holding
        PROVE  req'[o].rev >= req[p].floor
    <3>1. \/ req[o].user = u /\ req[o].pc \in Holding /\ req'[o].rev = req[o].rev
          \/ req'[o].rev = rev[u]
          \/ profile[u] # Null /\ req'[o].rev = profile[u]
      <4>1. ASSUME Finish(o) PROVE FALSE
        BY <1>0, <2>3, <4>1 DEF Finish, Idle, Holding
      <4>2. CASE LoadProfile(o)
        BY <1>0, <2>3, <4>1, <4>2 DEF LoadProfile, Request
      <4>3. CASE StoreProfile(o)
        BY <1>0, <2>3, <4>1, <4>3 DEF StoreProfile, Goto, Request, Holding
      <4>4. CASE FetchNewProfile(o)
        BY <1>0, <2>3, <4>4 DEF FetchNewProfile, Goto, Request, Holding
      <4>5. ASSUME NEW v \in Users, GetProfile(o, v) \/ FindProfile(o, v) PROVE FALSE
        BY <1>0, <2>3, <4>5 DEF GetProfile, FindProfile, Idle, Holding
      <4>6. CASE SaveProfile(o) \/ DropProfile(o) \/ StoreNewProfile(o)
        BY <1>0, <2>3, <4>6 DEF SaveProfile, DropProfile, StoreNewProfile, Goto, Holding, Request
      <4>7. CASE Respond(o)
        BY <4>1, <4>7 DEF Respond
      <4> QED
        BY <4>2, <4>3, <4>4, <4>5, <4>6, <4>7 DEF OwnerStep
    <3> QED
      BY <1>4, <2>0, <3>1 DEF Safe
  <2>4. req'[p] = req[p]
    BY <1>2
  <2>5. ASSUME NEW q \in Owners \ {p}, req'[q].user = u, req'[q].pc \in Holding
        PROVE  req'[q].rev >= req[p].floor
    BY <1>2, <1>4, <2>3, <2>5 DEF Safe
  <2> QED
    BY <2>2, <2>4, <2>5 DEF Safe
<1> HIDE DEF Safe
<1> QED
  BY <1>2, <1>3, <1>4, FreshKept

\* A step of the request itself.
LEMMA OwnerFresh ==
  ASSUME IInv, IInv', NEW p \in Owners, Fresh(p), OwnerStep(p)
  PROVE  Fresh(p)'
<1>0. /\ req \in [Procs -> Request] /\ p \in Procs /\ req[p] \in Request
      /\ rev \in [Users -> Nat] /\ rev' \in [Users -> Nat]
      /\ profile \in [Users -> Nat \cup {Null}] /\ Sound(req[p]) /\ active \subseteq Users
  BY DEF IInv, TypeOK, Procs
<1>1. req[p].rev \in Nat /\ req[p].floor \in Nat
  BY <1>0 DEF Request
<1>2. ASSUME Finish(p) PROVE Fresh(p)'
  <2>1. req'[p].pc = "idle"
    BY <1>0, <1>2, IdleSound DEF Finish
  <2> QED
    BY <2>1 DEF Fresh, UpdateLabels
<1>3. ASSUME NEW u \in Users, GetProfile(p, u) \/ FindProfile(p, u) PROVE Fresh(p)'
  <2>1. req'[p].pc \in {"load", "saveProfile"}
    BY <1>0, <1>3 DEF GetProfile, FindProfile, Idle
  <2> QED
    BY <2>1 DEF Fresh, UpdateLabels
<1>4. CASE LoadProfile(p)
  <2>1. CASE req[p].user \in active
    <3>1. /\ req'[p].pc = IF req[p].pc = "load" THEN "store" ELSE "storeNew"
          /\ req'[p].rev = rev[req[p].user] /\ req'[p].user = req[p].user
          /\ req'[p].floor = req[p].floor /\ rev' = rev
      BY <1>0, <1>4, <2>1 DEF LoadProfile, Request, db
    <3>2. CASE req[p].pc = "load"
      BY <3>1, <3>2 DEF Fresh, UpdateLabels
    <3>3. CASE req[p].pc = "loadNew"
      <4>1. req[p].user \in Users /\ req[p].floor <= rev[req[p].user]
        BY <3>3 DEF Fresh, UpdateLabels
      <4> QED
        BY <1>0, <1>1, <3>1, <3>3, <4>1 DEF Fresh, UpdateLabels
    <3> QED
      BY <1>4, <3>2, <3>3 DEF LoadProfile
  <2>2. CASE req[p].user \notin active
    BY <1>2, <1>4, <2>2 DEF LoadProfile
  <2> QED
    BY <2>1, <2>2
<1>5. CASE StoreProfile(p)
  <2>1. CASE req[p].pc = "store"
    BY <1>2, <1>5, <2>1 DEF StoreProfile
  <2>2. CASE req[p].pc = "storeNew"
    <3>1. /\ req'[p].pc = "storeAgain" /\ req'[p].rev = req[p].rev
          /\ req'[p].user = req[p].user /\ req'[p].floor = req[p].floor /\ rev' = rev
          /\ req'[p].raced = req[p].raced
      BY <1>0, <1>5, <2>2 DEF StoreProfile, Goto, Request, db
    <3> QED
      BY <2>2, <3>1 DEF Fresh, UpdateLabels
  <2> QED
    BY <1>5, <2>1, <2>2 DEF StoreProfile
<1>6. CASE SaveProfile(p)
  <2>1. req[p].user \in Users
    BY <1>0, <1>6 DEF SaveProfile, Sound, RoleLabels
  <2>2. /\ req'[p].pc = "dropProfile" /\ req'[p].user = req[p].user
        /\ req'[p].floor = rev[req[p].user] + 1 /\ rev'[req[p].user] = rev[req[p].user] + 1
    BY <1>0, <1>6, <2>1 DEF SaveProfile, Request
  <2> QED
    BY <1>0, <2>1, <2>2 DEF Fresh, UpdateLabels
<1>7. CASE DropProfile(p)
  <2>1. /\ req'[p].pc = "fetchNew" /\ req'[p].user = req[p].user
        /\ req'[p].floor = req[p].floor /\ rev' = rev
    BY <1>0, <1>7 DEF DropProfile, Request, db
  <2>2. req[p].user \in Users /\ req[p].floor <= rev[req[p].user]
    BY <1>7 DEF DropProfile, Fresh, UpdateLabels
  <2>3. profile'[req[p].user] = Null
    BY <1>0, <1>7, <2>2 DEF DropProfile
  <2>4. \A q \in Owners \ {p} : req'[q] = req[q] /\ req[q].rev \in Nat
    BY <1>0, <1>7 DEF DropProfile, Procs, Request
  <2>5. req'[p].raced = ReadBefore(p)
    BY <1>0, <1>7 DEF DropProfile, Request
  <2>6. ~req'[p].raced => Safe(p)'
    BY <1>1, <2>1, <2>3, <2>4, <2>5 DEF ReadBefore, Safe, Holding
  <2> HIDE DEF Safe
  <2> QED
    BY <2>1, <2>2, <2>6 DEF Fresh, UpdateLabels
<1>8. CASE FetchNewProfile(p)
  <2>1. /\ req[p].user \in Users /\ req[p].floor <= rev[req[p].user]
        /\ ~req[p].raced => \/ profile[req[p].user] = Null
                            \/ profile[req[p].user] >= req[p].floor
    BY <1>8 DEF FetchNewProfile, Fresh, UpdateLabels, Safe
  <2>2. CASE profile[req[p].user] = Null
    <3>1. /\ req'[p].pc = "loadNew" /\ req'[p].user = req[p].user
          /\ req'[p].floor = req[p].floor /\ rev' = rev
      BY <1>0, <1>8, <2>2 DEF FetchNewProfile, Goto, Request, db
    <3> QED
      BY <2>1, <3>1 DEF Fresh, UpdateLabels
  <2>3. CASE profile[req[p].user] # Null
    <3>1. /\ req'[p].pc = "storeAgain" /\ req'[p].user = req[p].user
          /\ req'[p].floor = req[p].floor /\ req'[p].raced = req[p].raced
          /\ req'[p].rev = profile[req[p].user] /\ rev' = rev
      BY <1>0, <1>8, <2>3 DEF FetchNewProfile, Request, db
    <3> QED
      BY <2>1, <2>3, <3>1 DEF Fresh, UpdateLabels
  <2> QED
    BY <2>2, <2>3
<1>9. CASE StoreNewProfile(p)
  <2>1. /\ req'[p].pc = "respond" /\ req'[p].rev = req[p].rev
        /\ req'[p].user = req[p].user /\ req'[p].floor = req[p].floor /\ rev' = rev
        /\ req'[p].raced = req[p].raced
    BY <1>0, <1>9 DEF StoreNewProfile, Goto, Request, db
  <2> QED
    BY <1>9, <2>1 DEF StoreNewProfile, Fresh, UpdateLabels
<1>10. CASE Respond(p)
  BY <1>2, <1>10 DEF Respond
<1> QED
  BY <1>3, <1>4, <1>5, <1>6, <1>7, <1>8, <1>9, <1>10 DEF OwnerStep

\* The update of a profile caches and returns the profile with the update, for
\* any number of users, gates, changes by administrators, requests for the same
\* profile, failures and expiries, unless, when it dropped the cached profile, a
\* request was about to cache what it had read before (updateProfile drops the
\* cached profile after its transaction and reads it again).
THEOREM UpdatesReturned == Spec => []UpdateReturnsNew
<1> DEFINE AllFresh == \A p \in Owners : Fresh(p)
<1>1. Init => AllFresh
  BY DEF Init, Fresh, UpdateLabels, Idle, Procs
<1>2. IInv /\ AllFresh /\ [Next]_vars => AllFresh'
  <2> SUFFICES ASSUME IInv, AllFresh, [Next]_vars, NEW p \in Owners
               PROVE  Fresh(p)'
    OBVIOUS
  <2>0. IInv' /\ Fresh(p) /\ p \in Procs /\ req \in [Procs -> Request]
    BY NextIInv DEF Procs, IInv, TypeOK
  <2>1. CASE UNCHANGED vars
    BY <2>0, <2>1 DEF vars, Fresh, Safe
  <2>2. ASSUME NEW o \in Owners, OwnerStep(o) PROVE Fresh(p)'
    BY <2>0, <2>2, OwnerFresh, OtherOwnerFresh
  <2>3. ASSUME NEW q \in Procs, Fail(q) PROVE Fresh(p)'
    <3>1. rev' = rev /\ profile' = profile /\ req' = [req EXCEPT ![q] = Idle]
      BY <2>3 DEF Fail, Finish, db, redis
    <3>2. CASE q = p
      <4>1. req'[p].pc = "idle"
        BY <2>0, <3>1, <3>2 DEF Idle
      <4> QED
        BY <4>1 DEF Fresh, UpdateLabels
    <3>3. CASE q # p
      <4>1. req'[p] = req[p] /\ \A x \in Owners : req'[x] = req[x] \/ req'[x].pc = "idle"
        BY <2>0, <3>1, <3>3 DEF Procs, Idle
      <4>2. Safe(p) => Safe(p)'
        BY <3>1, <4>1 DEF Safe, Holding
      <4> HIDE DEF Safe
      <4> QED
        BY <2>0, <3>1, <4>1, <4>2 DEF Fresh
    <3> QED
      BY <3>2, <3>3
  <2> QED
    BY <2>0, <2>1, <2>2, <2>3, OthersFresh DEF Next
<1>3. AllFresh => UpdateReturnsNew
  BY DEF Fresh, UpdateReturnsNew
<1> QED
  <2> HIDE DEF AllFresh
  <2> QED
    BY <1>1, <1>2, <1>3, InitIInv, NextIInv, PTL DEF Spec
=============================================================================
