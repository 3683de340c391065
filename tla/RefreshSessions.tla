---------------------------- MODULE RefreshSessions ----------------------------
(***************************************************************************)
(* Refresh-token sessions: the refresh_tokens table, its concurrent users  *)
(* and the row locks PostgreSQL takes for them under READ COMMITTED.       *)
(*                                                                         *)
(* A token value, its SHA-256 hash and the id of its row are one member of *)
(* Tokens (the hash and the id are injective).  A family is named by the   *)
(* token of the login that opened it.  `rows' holds the committed rows;    *)
(* `tbl' keeps the last columns of a row, also after its deletion, so that *)
(* a value once issued is never issued again.                              *)
(*                                                                         *)
(* Every action is one SQL statement of the code with the branch taken on  *)
(* its result.  The uncommitted writes of a transaction are visible to no  *)
(* one else, so they appear at its commit; the row locks they take are     *)
(* req[p].held, and a statement that needs a locked row is not enabled.    *)
(***************************************************************************)
EXTENDS Integers, FiniteSets

CONSTANTS
  Users, Tokens, Null,
  Refreshers,   \* concurrent POST /auth/refresh requests
  Logouts,      \* concurrent POST /auth/logout requests
  AccountOps,   \* concurrent password resets, password changes, user deletions
  Logins,       \* concurrent POST /auth/login requests
  AdminEdits,   \* TRUE iff an admin may set a user's password (PUT /users/:slug)
  TTL,          \* REFRESH_TOKEN_EXPIRES_DAYS
  Grace,        \* REFRESH_GRACE_SECONDS
  TxLimit,      \* lifetime of an interactive transaction (Prisma: 5 seconds)
  MaxPasses,    \* MAX_REVOCATION_PASSES
  MaxHops,      \* MAX_SUCCESSOR_HOPS
  MaxTime,      \* bound on the clock
  MaxEpoch      \* bound on the credential changes of one user

Procs == Refreshers \cup Logouts \cup AccountOps \cup Logins

ASSUME NullAssumption == Null \notin Tokens \cup Users \cup Nat
ASSUME RolesAssumption ==
  /\ Refreshers \cap Logouts = {} /\ Refreshers \cap AccountOps = {}
  /\ Refreshers \cap Logins = {} /\ Logouts \cap AccountOps = {}
  /\ Logouts \cap Logins = {} /\ AccountOps \cap Logins = {}
ASSUME BoundsAssumption ==
  /\ TTL \in Nat \ {0} /\ Grace \in Nat \ {0} /\ TxLimit \in Nat \ {0}
  /\ MaxPasses \in Nat \ {0} /\ MaxHops \in Nat \ {0}
  /\ MaxTime \in Nat /\ MaxEpoch \in Nat
  /\ AdminEdits \in BOOLEAN

VARIABLES
  clock,     \* wall-clock time
  rows,      \* tokens that have a committed row
  tbl,       \* the columns of each row
  account,   \* users: credential epoch, and whether the account is active
  req,       \* the state of each request handler
  revoked    \* history: families a revocation has reported as revoked

vars == <<clock, rows, tbl, account, req, revoked>>

\* Where a request stands: the SQL statement it issues next.
Labels == {"idle", "find", "delExpired", "claim", "insert", "reread", "walk",
           "lookup", "revoke", "delete", "create"}

NoColumns == [user |-> Null, family |-> Null, expiresAt |-> 0,
              rotatedAt |-> Null, successor |-> Null, epoch |-> 0]

\* A request handler between requests: the token, the time and the record it will
\* work on, and what a transaction of it will hold.
Idle ==
  [pc |-> "idle", tok |-> Null, now |-> 0, cur |-> Null, round |-> 0, todo |-> {},
   held |-> {}, hit |-> FALSE, user |-> Null, epoch |-> 0, doomed |-> {}]

Init ==
  /\ clock = 0
  /\ rows = {}
  /\ tbl = [t \in Tokens |-> NoColumns]
  /\ account = [u \in Users |-> [epoch |-> 0, active |-> TRUE]]
  /\ req = [p \in Procs |-> Idle]
  /\ revoked = {}

-----------------------------------------------------------------------------
(***************************************************************************)
(* Helpers.                                                                *)
(***************************************************************************)
\* Tokens some client may hold: every token ever committed.  A client that
\* never received the response simply does not present it.
Known == {t \in Tokens : tbl[t].family # Null}
Fresh == Tokens \ Known

Live(t) == t \in rows /\ tbl[t].rotatedAt = Null

\* No other transaction holds the lock of row t.
Free(p, t) == \A q \in Procs \ {p} : t \notin req[q].held

\* Mutant: the transaction is left open when the request ends.
FinishKeepingLocks(p) ==
  req' = [req EXCEPT ![p] = [Idle EXCEPT !.held = req[p].held]]

\* The request ends: its transaction is over and its row locks are released.
\* The response (a token, or which 401) is named where it is decided; no later
\* step reads it, since any token ever issued may be presented again.
Finish(p) == req' = [req EXCEPT ![p] = Idle]

\* Mutant: the sign of the lifetime slips.
ExpiryInThePast(n) == n - TTL

\* REFRESH_TOKEN_EXPIRES_DAYS after n.
ExpiryOf(n) == n + TTL

Goto(p, label) == req' = [req EXCEPT ![p].pc = label]

-----------------------------------------------------------------------------
(***************************************************************************)
(* POST /auth/login: read the account and compare the password, then       *)
(* insert the first row of a new family, in no common transaction.         *)
(***************************************************************************)
LoginRead(p, u) ==
  /\ req[p].pc = "idle"
  /\ account[u].active
  /\ req' = [req EXCEPT ![p] = [Idle EXCEPT
                 !.pc = "create", !.user = u, !.epoch = account[u].epoch]]
  /\ UNCHANGED <<clock, rows, tbl, account, revoked>>

LoginCreate(p) ==
  /\ req[p].pc = "create"
  /\ \E t \in Fresh :
       /\ rows' = rows \cup {t}
       /\ tbl' = [tbl EXCEPT ![t] =
                    [user |-> req[p].user, family |-> t,
                     expiresAt |-> ExpiryOf(clock), rotatedAt |-> Null,
                     successor |-> Null, epoch |-> req[p].epoch]]
       /\ Finish(p)
  /\ UNCHANGED <<clock, account, revoked>>

-----------------------------------------------------------------------------
(***************************************************************************)
(* POST /auth/refresh: rotateRefreshToken in one transaction.              *)
(***************************************************************************)
BeginRefresh(p, t) ==
  /\ req[p].pc = "idle"
  /\ t \in Known
  /\ req' = [req EXCEPT ![p] = [Idle EXCEPT
                 !.pc = "find", !.tok = t, !.now = clock]]
  /\ UNCHANGED <<clock, rows, tbl, account, revoked>>

Expired(p, t) == tbl[t].expiresAt <= req[p].now

\* The record read is rotated: reuse after the grace window revokes the
\* family, otherwise the walk along the successors starts.
GraceBranch(p) ==
  LET t == req[p].tok IN
  IF req[p].now - tbl[t].rotatedAt > Grace
    THEN req' = [req EXCEPT ![p].pc = "revoke",
                            ![p].doomed = {tbl[t].family}]
    ELSE req' = [req EXCEPT ![p].pc = "walk", ![p].cur = t]

Find(p) ==
  LET t == req[p].tok IN
  /\ req[p].pc = "find"
  /\ \/ t \notin rows /\ Finish(p)                          \* invalid
     \/ t \in rows /\ Expired(p, t) /\ Goto(p, "delExpired")
     \/ t \in rows /\ ~Expired(p, t) /\ Live(t) /\ Goto(p, "claim")
     \/ t \in rows /\ ~Expired(p, t) /\ ~Live(t) /\ GraceBranch(p)
  /\ UNCHANGED <<clock, rows, tbl, account, revoked>>

\* deleteRefreshToken and the commit of the transaction.
DeleteExpired(p) ==
  /\ req[p].pc = "delExpired"
  /\ Free(p, req[p].tok)
  /\ rows' = rows \ {req[p].tok}
  /\ Finish(p)                                               \* expired
  /\ UNCHANGED <<clock, tbl, account, revoked>>

\* Mutant: the UPDATE does not test rotated_at.
ClaimUnchecked(p) ==
  LET t == req[p].tok IN
  /\ req[p].pc = "claim"
  /\ Free(p, t)
  /\ \/ t \in rows /\ req' = [req EXCEPT ![p].pc = "insert", ![p].held = {t}]
     \/ t \notin rows /\ Goto(p, "reread")
  /\ UNCHANGED <<clock, rows, tbl, account, revoked>>

\* Mutant: a request that lost the claim takes the time again.
ClaimRestamped(p) ==
  LET t == req[p].tok IN
  /\ req[p].pc = "claim"
  /\ Free(p, t)
  /\ \/ Live(t) /\ req' = [req EXCEPT ![p].pc = "insert", ![p].held = {t}]
     \/ ~Live(t) /\ req' = [req EXCEPT ![p].pc = "reread", ![p].now = clock]
  /\ UNCHANGED <<clock, rows, tbl, account, revoked>>

\* markRefreshTokenRotated: waits for the lock, then matches the row only if
\* it still exists and is not rotated.
Claim(p) ==
  LET t == req[p].tok IN
  /\ req[p].pc = "claim"
  /\ Free(p, t)
  /\ \/ Live(t) /\ req' = [req EXCEPT ![p].pc = "insert", ![p].held = {t}]
     \/ ~Live(t) /\ Goto(p, "reread")
  /\ UNCHANGED <<clock, rows, tbl, account, revoked>>

\* Mutant: the successor is sealed and handed out but its insert is lost.
RotateWithoutRow(p) ==
  /\ req[p].pc = "insert"
  /\ \E s \in Fresh :
       tbl' = [tbl EXCEPT ![req[p].tok].rotatedAt = req[p].now,
                          ![req[p].tok].successor = s]
  /\ Finish(p)
  /\ UNCHANGED <<clock, rows, account, revoked>>

\* Mutant: the successor gets a family of its own.
InsertNewFamily(p) ==
  LET t == req[p].tok IN
  /\ req[p].pc = "insert"
  /\ \E s \in Fresh :
       /\ rows' = rows \cup {s}
       /\ tbl' = [tbl EXCEPT
            ![t].rotatedAt = req[p].now, ![t].successor = s,
            ![s] = [tbl[t] EXCEPT !.family = s, !.expiresAt = ExpiryOf(req[p].now)]]
       /\ Finish(p)
  /\ UNCHANGED <<clock, account, revoked>>

\* createRefreshToken and the commit: the rotation mark and the successor's
\* row become visible together, and the successor is handed out.
InsertSuccessor(p) ==
  LET t == req[p].tok IN
  /\ req[p].pc = "insert"
  /\ \E s \in Fresh :
       /\ rows' = rows \cup {s}
       /\ tbl' = [tbl EXCEPT
            ![t].rotatedAt = req[p].now, ![t].successor = s,
            ![s] = [user |-> tbl[t].user, family |-> tbl[t].family,
                    expiresAt |-> ExpiryOf(req[p].now), rotatedAt |-> Null,
                    successor |-> Null, epoch |-> tbl[t].epoch]]
       /\ Finish(p)
  /\ UNCHANGED <<clock, account, revoked>>

\* The second findRefreshToken, after a lost claim.
Reread(p) ==
  LET t == req[p].tok IN
  /\ req[p].pc = "reread"
  /\ \/ (t \notin rows \/ Live(t)) /\ Finish(p)           \* invalid
     \/ t \in rows /\ ~Live(t) /\ GraceBranch(p)
  /\ UNCHANGED <<clock, rows, tbl, account, revoked>>

\* openSuccessor: the successor sealed in the row of token t.  Its key comes from
\* t itself, which the walk holds, so opening it never fails here.
OpenSuccessor(t) == tbl[t].successor

\* One iteration of latestSuccessor: open the successor sealed in the current
\* row and read its row.
Hop(p) ==
  LET x == OpenSuccessor(req[p].cur) IN
  /\ req[p].pc = "walk"
  /\ \/ (x \notin rows \/ Expired(p, x)) /\ Finish(p)    \* invalid
     \/ x \in rows /\ ~Expired(p, x) /\ Live(x) /\ Finish(p)  \* issued x
     \/ /\ x \in rows /\ ~Expired(p, x) /\ ~Live(x)
        /\ IF req[p].round + 1 < MaxHops
             THEN req' = [req EXCEPT ![p].cur = x,
                                     ![p].round = req[p].round + 1]
             ELSE Finish(p)                                  \* invalid
  /\ UNCHANGED <<clock, rows, tbl, account, revoked>>

-----------------------------------------------------------------------------
(***************************************************************************)
(* POST /auth/logout: find the row, then revoke its family.  Each DELETE   *)
(* commits by itself.                                                      *)
(***************************************************************************)
BeginLogout(p, t) ==
  /\ req[p].pc = "idle"
  /\ t \in Known
  /\ req' = [req EXCEPT ![p] = [Idle EXCEPT
                 !.pc = "lookup", !.tok = t]]
  /\ UNCHANGED <<clock, rows, tbl, account, revoked>>

Lookup(p) ==
  LET t == req[p].tok IN
  /\ req[p].pc = "lookup"
  /\ \/ t \notin rows /\ Finish(p)
     \/ t \in rows /\ req' = [req EXCEPT ![p].pc = "revoke",
                                         ![p].doomed = {tbl[t].family}]
  /\ UNCHANGED <<clock, rows, tbl, account, revoked>>

-----------------------------------------------------------------------------
(***************************************************************************)
(* Password reset, password change of the user's own profile and account   *)
(* deletion: one transaction that updates the user (its row lock makes     *)
(* these exclude one another) and revokes every session of the user.       *)
(***************************************************************************)
BeginAccountOp(p, u) ==
  /\ req[p].pc = "idle"
  /\ account[u].active
  /\ account[u].epoch < MaxEpoch
  /\ \A q \in AccountOps : req[q].user # u
  /\ req' = [req EXCEPT ![p] = [Idle EXCEPT
                 !.pc = "revoke", !.user = u, !.now = clock,
                 !.doomed = {tbl[t].family : t \in {r \in rows : tbl[r].user = u}}]]
  /\ UNCHANGED <<clock, rows, tbl, account, revoked>>

\* PUT /users/:slug with a password: the credentials change, nothing else.
AdminSetPassword(u) ==
  /\ AdminEdits
  /\ account[u].active
  /\ account[u].epoch < MaxEpoch
  /\ \A q \in AccountOps : req[q].user # u
  /\ account' = [account EXCEPT ![u].epoch = account[u].epoch + 1]
  /\ UNCHANGED <<clock, rows, tbl, req, revoked>>

-----------------------------------------------------------------------------
(***************************************************************************)
(* revokeRefreshTokens: repeat the DELETE until it matches nothing.        *)
(***************************************************************************)
\* Mutant: every revocation is by user.
MatchesUser(p, t) ==
  tbl[t].user = IF p \in AccountOps THEN req[p].user ELSE tbl[req[p].tok].user

\* The WHERE clause: { userId } for an account operation, else
\* { userId, familyId } of the presented token.
Matches(p, t) ==
  IF p \in AccountOps
    THEN tbl[t].user = req[p].user
    ELSE /\ tbl[t].user = tbl[req[p].tok].user
         /\ tbl[t].family = tbl[req[p].tok].family

\* A DELETE starts: it will visit the matching rows committed by now, except
\* those its own transaction has deleted already.
StartPass(p) ==
  /\ req[p].pc = "revoke"
  /\ req' = [req EXCEPT ![p].pc = "delete", ![p].hit = FALSE,
        ![p].todo = {t \in rows \ req[p].held : Matches(p, t)}]
  /\ UNCHANGED <<clock, rows, tbl, account, revoked>>

\* The DELETE reaches row t, once its lock is free: it deletes the row unless
\* another transaction has.
DeleteRow(p, t) ==
  /\ req[p].pc = "delete"
  /\ t \in req[p].todo
  /\ Free(p, t)
  /\ req' = [req EXCEPT
        ![p].todo = req[p].todo \ {t},
        ![p].held = IF t \in rows THEN req[p].held \cup {t} ELSE req[p].held,
        ![p].hit = req[p].hit \/ t \in rows]
  /\ UNCHANGED <<clock, rows, tbl, account, revoked>>

\* The DELETE matched nothing: the revocation succeeded; its transaction, if
\* any, commits.
EndRevocation(p) ==
  /\ req[p].pc = "delete" /\ req[p].todo = {} /\ ~req[p].hit
  /\ rows' = rows \ req[p].held
  /\ revoked' = revoked \cup req[p].doomed
  /\ IF p \in AccountOps
       THEN \E stays \in BOOLEAN :     \* FALSE: the user was soft-deleted
              account' = [account EXCEPT
                 ![req[p].user] = [epoch |-> account[req[p].user].epoch + 1,
                                   active |-> stays]]
       ELSE UNCHANGED account
  /\ Finish(p)                                               \* reused, or done
  /\ UNCHANGED <<clock, tbl>>

\* Mutant: a single DELETE counts as the revocation.
EndOnlyPass(p) ==
  /\ req[p].pc = "delete" /\ req[p].todo = {} /\ req[p].hit
  /\ rows' = rows \ req[p].held
  /\ revoked' = revoked \cup req[p].doomed
  /\ Finish(p)
  /\ UNCHANGED <<clock, tbl, account>>

\* The DELETE removed rows.  Outside a transaction (logout) they are gone now.
\* After MaxPasses such passes the revocation throws; a transaction rolls back.
EndPass(p) ==
  /\ req[p].pc = "delete" /\ req[p].todo = {} /\ req[p].hit
  /\ rows' = IF p \in Logouts THEN rows \ req[p].held ELSE rows
  /\ IF req[p].round + 1 < MaxPasses
       THEN req' = [req EXCEPT ![p].pc = "revoke",
               ![p].round = req[p].round + 1,
               ![p].held = IF p \in Logouts THEN {} ELSE req[p].held]
       ELSE Finish(p)                                        \* error
  /\ UNCHANGED <<clock, tbl, account, revoked>>

-----------------------------------------------------------------------------
(***************************************************************************)
(* The environment.                                                        *)
(***************************************************************************)
\* The hourly cleanup removes the rows expired before the time it started.
\* Its batches hold 1000 rows, more than any instance has.
CleanupExpired ==
  /\ \E before \in 0..clock :
       LET old == {t \in rows : tbl[t].expiresAt < before} IN
       /\ old # {}
       /\ \A t \in old, q \in Procs : t \notin req[q].held
       /\ rows' = rows \ old
  /\ UNCHANGED <<clock, tbl, account, req, revoked>>

\* A crash, a lost connection, a transaction timeout or a deadlock abort ends
\* request p; what its open transaction did is undone.
Abort(p) ==
  /\ req[p].pc # "idle"
  /\ Finish(p)
  /\ UNCHANGED <<clock, rows, tbl, account, revoked>>

\* Time passes; no interactive transaction outlives its limit.
Tick ==
  /\ clock < MaxTime
  /\ \A p \in Refreshers \cup AccountOps :
       req[p].pc # "idle" => clock - req[p].now < TxLimit
  /\ clock' = clock + 1
  /\ UNCHANGED <<rows, tbl, account, req, revoked>>

RefreshStep(p) ==
  Find(p) \/ DeleteExpired(p) \/ Claim(p) \/ InsertSuccessor(p) \/ Reread(p) \/ Hop(p)

RevokeStep(p) ==
  StartPass(p) \/ (\E t \in Tokens : DeleteRow(p, t)) \/ EndRevocation(p) \/ EndPass(p)

Next ==
  \/ \E p \in Logins : LoginCreate(p) \/ \E u \in Users : LoginRead(p, u)
  \/ \E p \in Refreshers : RefreshStep(p) \/ \E t \in Tokens : BeginRefresh(p, t)
  \/ \E p \in Logouts : Lookup(p) \/ \E t \in Tokens : BeginLogout(p, t)
  \/ \E p \in AccountOps, u \in Users : BeginAccountOp(p, u)
  \/ \E p \in Procs : RevokeStep(p) \/ Abort(p)
  \/ \E u \in Users : AdminSetPassword(u)
  \/ CleanupExpired
  \/ Tick

Spec == Init /\ [][Next]_vars

-----------------------------------------------------------------------------
(***************************************************************************)
(* Fairness.  A handler keeps executing; a statement that waits for a row  *)
(* lock gets it eventually (PostgreSQL queues the waiters of a lock), and  *)
(* the server aborts a transaction of every deadlock.                      *)
(***************************************************************************)
Deadlocked(p) ==
  \E D \in SUBSET Procs :
    /\ p \in D
    /\ \A q \in D : /\ req[q].pc = "delete" /\ req[q].todo # {}
                    /\ \A t \in req[q].todo : \E r \in D \ {q} : t \in req[r].held

\* Only a bounded instance runs out of tokens; its request then rolls back.
OutOfTokens(p) == req[p].pc \in {"insert", "create"} /\ Fresh = {}

Fairness ==
  /\ \A p \in Refreshers : SF_vars(RefreshStep(p))
  /\ \A p \in Logins : WF_vars(LoginCreate(p))
  /\ \A p \in Logouts : WF_vars(Lookup(p))
  /\ \A p \in Procs \ Logins : SF_vars(RevokeStep(p))
  /\ \A p \in Procs : WF_vars((Deadlocked(p) \/ OutOfTokens(p)) /\ Abort(p))

FairSpec == Spec /\ Fairness

-----------------------------------------------------------------------------
(***************************************************************************)
(* Properties.                                                             *)
(***************************************************************************)
Time == 0..MaxTime

Columns == [user : Users \cup {Null}, family : Tokens \cup {Null},
            expiresAt : Nat, rotatedAt : Nat \cup {Null},
            successor : Tokens \cup {Null}, epoch : Nat]

Request == [pc : Labels, tok : Tokens \cup {Null}, now : Nat,
            cur : Tokens \cup {Null}, round : Nat, todo : SUBSET Tokens,
            held : SUBSET Tokens, hit : BOOLEAN, user : Users \cup {Null},
            epoch : Nat, doomed : SUBSET (Tokens \cup {Null})]

\* Type invariant: the table, the accounts and the request handlers keep their
\* shape.
TypeOK ==
  /\ clock \in Nat
  /\ rows \in SUBSET Tokens
  /\ tbl \in [Tokens -> Columns]
  /\ account \in [Users -> [epoch : Nat, active : BOOLEAN]]
  /\ req \in [Procs -> Request]
  /\ revoked \in SUBSET (Tokens \cup {Null})

\* The rotation claim: however many requests present the tokens of a login at
\* once, at most one row of the login is unrotated (markRefreshTokenRotated:
\* "exactly one concurrent caller turns rotated_at from NULL to a time").
OneLivePerFamily ==
  \A s, t \in rows :
    Live(s) /\ Live(t) /\ tbl[s].family = tbl[t].family => s = t

\* A rotated row that has not expired leads to its successor's row: no order of
\* revocations, expiry deletions, cleanup and aborts leaves a token that a
\* request inside the grace window could not follow (latestSuccessor).
SuccessorKept ==
  \A t \in rows :
    tbl[t].rotatedAt # Null /\ tbl[t].expiresAt > clock
      => tbl[t].successor \in rows

\* A request that found its token unrotated and lost the claim to a concurrent
\* request is never taken for a reuse after the grace window, whatever time the
\* two transactions took (rotateRefreshToken compares the loser's start with
\* the winner's).
LostClaimIsNotReuse ==
  \A p \in Refreshers :
    LET t == req[p].tok IN
    req[p].pc = "reread" /\ t \in rows /\ ~Live(t)
      => req[p].now - tbl[t].rotatedAt <= Grace

\* Once a revocation has reported success, no token of the logins it was for
\* has a row, also when rotations of them were committing meanwhile (the note
\* of auth.repository: a rotation "cannot leave a live successor behind").
RevocationFinal ==
  \A t \in rows : tbl[t].family \notin revoked

\* p is deleting the login of t: p is an account operation on its user, or it
\* presented a token of that very login, for a refresh a reused one.
RevokedBy(p, t) ==
  /\ req[p].pc = "delete"
  /\ IF p \in AccountOps THEN tbl[t].user = req[p].user
                          ELSE tbl[t].family = tbl[req[p].tok].family
  /\ p \in Refreshers =>
       /\ tbl[req[p].tok].rotatedAt # Null
       /\ req[p].now - tbl[req[p].tok].rotatedAt > Grace

\* What ends a login: a live row disappears only when it has expired or when a
\* request aimed at that very login (or at all of its user's) removes it; the
\* user's other logins stay signed in (deleteRefreshTokenFamily).
OnlyTargetedLoginsEnd ==
  [][\A t \in rows \ rows' :
       Live(t) => \/ tbl[t].expiresAt <= clock
                  \/ \E p \in Procs : RevokedBy(p, t) /\ req'[p].pc # "delete"]_vars

\* The sessions implement LoginSessions: the live row of a family is its newest
\* token.
NewestToken ==
  [f \in Tokens |->
     IF \E t \in rows : Live(t) /\ tbl[t].family = f
       THEN CHOOSE t \in rows : Live(t) /\ tbl[t].family = f
       ELSE Null]

Abstract == INSTANCE LoginSessions WITH used <- Known, newest <- NewestToken

\* Rotation, grace, revocation and cleanup together behave as logins whose
\* newest token is only replaced by a fresh one and that never come back.
ImplementsLoginSessions == Abstract!AbsSpec

\* Every request ends: neither the revocation loop, nor waiting for the row
\* locks of rotations and other revocations, nor a deadlock between revocations
\* hangs it (revokeRefreshTokens is bounded, every lock is released).
RequestsEnd == \A p \in Procs : req[p].pc # "idle" ~> req[p].pc = "idle"
=============================================================================
