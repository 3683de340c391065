---------------------------- MODULE CredentialLinks ----------------------------
(***************************************************************************)
(* The links mailed to one account in link mode: the verification link of  *)
(* its registration and its password-reset links, with the requests that   *)
(* issue, follow and delete them at the same time.                         *)
(*                                                                         *)
(* Every action is one SQL statement with the branch taken on its result,  *)
(* and the last statement of a transaction is its commit.  Uncommitted     *)
(* writes are visible to no one; the row locks they take are the user's    *)
(* (UserLocked) and those of the reset links (work[p].held).               *)
(*                                                                         *)
(* No name is RegistrationOtp's, whose codes are the other way to verify   *)
(* a registration: one module can extend both.                             *)
(***************************************************************************)
EXTENDS Integers, FiniteSets

CONSTANTS
  Links,        \* password-reset tokens that can be generated
  Followers,    \* concurrent GET /auth/verify-email requests
  Requesters,   \* concurrent POST /auth/request-password-reset requests
  Resetters,    \* concurrent POST /auth/reset-password requests
  None

LinkHandlers == Followers \cup Requesters \cup Resetters

ASSUME KindsAssumption ==
  /\ Followers \cap Requesters = {} /\ Followers \cap Resetters = {}
  /\ Requesters \cap Resetters = {} /\ None \notin Links
  /\ None \notin BOOLEAN /\ IsFiniteSet(Resetters)

VARIABLES
  verified,   \* is_email_verified; None before the registration
  vlink,      \* the row of the verification link: "none", "live" or "gone"
  rlink,      \* the row of each reset link
  expired,    \* links whose expiry time has passed ("v" is the verification link)
  work,       \* the request handlers
  notices,    \* outbox: verification-success mails
  resets,     \* history: committed password resets, per link
  overlap     \* history: per link, resets under way at its first use

linkVars == <<verified, vlink, rlink, expired, work, notices, resets, overlap>>

\* A handler between requests.
NoWork == [pc |-> "idle", link |-> None, todo |-> {}, held |-> {}]

LinkInit ==
  /\ verified = None
  /\ vlink = "none"
  /\ rlink = [l \in Links |-> "none"]
  /\ expired = {}
  /\ work = [p \in LinkHandlers |-> NoWork]
  /\ notices = 0
  /\ resets = [l \in Links |-> 0]
  /\ overlap = [l \in Links |-> 0]

-----------------------------------------------------------------------------
(***************************************************************************)
(* Helpers.                                                                *)
(***************************************************************************)
Goto(p, label) == work' = [work EXCEPT ![p].pc = label]

\* The request ends; its transaction commits or rolls back.
EndWork(p) == work' = [work EXCEPT ![p] = NoWork]

\* Another transaction has updated the user and not committed.
UserLocked(p) == \E q \in LinkHandlers \ {p} : work[q].pc \in {"deleteLink", "markUsed"}

\* Another transaction has deleted the row of link l and not committed.
LinkLocked(p, l) == \E q \in LinkHandlers \ {p} : l \in work[q].held

\* The row of reset link l exists.
Present(l) == rlink[l] \in {"unused", "used"}

-----------------------------------------------------------------------------
(***************************************************************************)
(* POST /auth/register in link mode, one transaction: the account, its     *)
(* verification link and the mail that carries it.                         *)
(***************************************************************************)
Register ==
  /\ verified = None
  /\ verified' = FALSE
  /\ vlink' = "live"
  /\ UNCHANGED <<rlink, expired, work, notices, resets, overlap>>

-----------------------------------------------------------------------------
(***************************************************************************)
(* GET /auth/verify-email: verifyEmail.                                    *)
(***************************************************************************)
VerifyFind(p) ==
  /\ work[p].pc = "idle"
  /\ vlink = "live"                        \* otherwise: Invalid token
  /\ Goto(p, IF "v" \in expired THEN "dropLink" ELSE "verify")
  /\ UNCHANGED <<verified, vlink, rlink, expired, notices, resets, overlap>>

\* deleteMany of the expired link, and the commit.
VerifyExpired(p) ==
  /\ work[p].pc = "dropLink"
  /\ vlink' = "gone"
  /\ EndWork(p)                            \* Token expired
  /\ UNCHANGED <<verified, rlink, expired, notices, resets, overlap>>

\* The UPDATE of the user waits for the lock of its row.
VerifyUser(p) ==
  /\ work[p].pc = "verify"
  /\ ~UserLocked(p)
  /\ Goto(p, "deleteLink")
  /\ UNCHANGED <<verified, vlink, rlink, expired, notices, resets, overlap>>

\* Mutant: the link is removed with deleteMany, which misses it silently.
DeleteManyLink(p) ==
  /\ work[p].pc = "deleteLink"
  /\ vlink' = "gone" /\ verified' = TRUE /\ notices' = notices + 1
  /\ EndWork(p)
  /\ UNCHANGED <<rlink, expired, resets, overlap>>

\* delete of the link, the success mail and the commit; a link that is gone by
\* now makes delete throw, and everything is undone.
VerifyDelete(p) ==
  /\ work[p].pc = "deleteLink"
  /\ \/ vlink = "live" /\ vlink' = "gone" /\ verified' = TRUE /\ notices' = notices + 1
     \/ vlink # "live" /\ UNCHANGED <<vlink, verified, notices>>
  /\ EndWork(p)
  /\ UNCHANGED <<rlink, expired, resets, overlap>>

-----------------------------------------------------------------------------
(***************************************************************************)
(* POST /auth/request-password-reset: requestPasswordReset.                *)
(***************************************************************************)
\* The user is found; the DELETE starts and will visit the unused links that
\* are committed by now.
RequestReset(p) ==
  /\ work[p].pc = "idle"
  /\ verified # None
  /\ work' = [work EXCEPT ![p].pc = "deleteUnused",
                        ![p].todo = {l \in Links : rlink[l] = "unused"}]
  /\ UNCHANGED <<verified, vlink, rlink, expired, notices, resets, overlap>>

\* Mutant: only expired links are deleted.
DeleteExpiredOnly(p) ==
  /\ work[p].pc = "deleteUnused"
  /\ \A l \in work[p].todo : ~LinkLocked(p, l)
  /\ work' = [work EXCEPT ![p].pc = "createLink",
                        ![p].held = {l \in work[p].todo \cap expired : rlink[l] = "unused"}]
  /\ UNCHANGED <<verified, vlink, rlink, expired, notices, resets, overlap>>

\* deleteUnusedPasswordResetTokens: waits for the rows' locks; a link used or
\* deleted meanwhile no longer matches.
DeleteUnused(p) ==
  /\ work[p].pc = "deleteUnused"
  /\ \A l \in work[p].todo : ~LinkLocked(p, l)
  /\ work' = [work EXCEPT ![p].pc = "createLink",
                        ![p].held = {l \in work[p].todo : rlink[l] = "unused"}]
  /\ UNCHANGED <<verified, vlink, rlink, expired, notices, resets, overlap>>

\* createPasswordResetToken, the mail and the commit.
CreateLink(p) ==
  /\ work[p].pc = "createLink"
  /\ \E n \in {l \in Links : rlink[l] = "none"} :
       rlink' = [l \in Links |-> IF l = n THEN "unused"
                                 ELSE IF l \in work[p].held THEN "gone" ELSE rlink[l]]
  /\ EndWork(p)
  /\ UNCHANGED <<verified, vlink, expired, notices, resets, overlap>>

-----------------------------------------------------------------------------
(***************************************************************************)
(* POST /auth/reset-password: resetPassword.                               *)
(***************************************************************************)
\* Mutant: used_at is not looked at.
ResetFindAny(p, l) ==
  /\ work[p].pc = "idle"
  /\ Present(l)
  /\ work' = [work EXCEPT ![p].link = l,
               ![p].pc = IF l \in expired THEN "dropReset" ELSE "setPassword"]
  /\ UNCHANGED <<verified, vlink, rlink, expired, notices, resets, overlap>>

ResetFind(p, l) ==
  /\ work[p].pc = "idle"
  /\ Present(l)                            \* otherwise: Invalid token
  /\ l \in expired \/ rlink[l] = "unused"  \* otherwise: Token already used
  /\ work' = [work EXCEPT ![p].link = l,
               ![p].pc = IF l \in expired THEN "dropReset" ELSE "setPassword"]
  /\ UNCHANGED <<verified, vlink, rlink, expired, notices, resets, overlap>>

\* deletePasswordResetToken of the expired link, and the commit.
ResetExpired(p) ==
  LET l == work[p].link IN
  /\ work[p].pc = "dropReset"
  /\ ~LinkLocked(p, l)
  /\ rlink' = [rlink EXCEPT ![l] = "gone"]
  /\ EndWork(p)                            \* Token expired
  /\ UNCHANGED <<verified, vlink, expired, notices, resets, overlap>>

\* The UPDATE of the password waits for the lock of the user's row.
SetPassword(p) ==
  /\ work[p].pc = "setPassword"
  /\ ~UserLocked(p)
  /\ Goto(p, "markUsed")
  /\ UNCHANGED <<verified, vlink, rlink, expired, notices, resets, overlap>>

\* The reset with link l commits.  At its first use the resets that have read it
\* unused are counted: they alone can still use it again.
Committed(p, l) ==
  /\ resets' = [resets EXCEPT ![l] = resets[l] + 1]
  /\ overlap' = IF resets[l] > 0 THEN overlap
                ELSE [overlap EXCEPT ![l] = Cardinality(
                        {q \in Resetters \ {p} : work[q].link = l})]

\* Mutant: the link is stamped with updateMany, which misses it silently.
MarkUsedMany(p) ==
  LET l == work[p].link IN
  /\ work[p].pc = "markUsed"
  /\ ~LinkLocked(p, l)
  /\ rlink' = IF Present(l) THEN [rlink EXCEPT ![l] = "used"] ELSE rlink
  /\ Committed(p, l)
  /\ EndWork(p)
  /\ UNCHANGED <<verified, vlink, expired, notices>>

\* updatePasswordResetToken, the revocation of the sessions and the commit; a link
\* that is gone by now makes update throw, and everything is undone.
MarkUsed(p) ==
  LET l == work[p].link IN
  /\ work[p].pc = "markUsed"
  /\ ~LinkLocked(p, l)
  /\ \/ Present(l) /\ rlink' = [rlink EXCEPT ![l] = "used"] /\ Committed(p, l)
     \/ ~Present(l) /\ UNCHANGED <<rlink, resets, overlap>>
  /\ EndWork(p)
  /\ UNCHANGED <<verified, vlink, expired, notices>>

-----------------------------------------------------------------------------
(***************************************************************************)
(* Time, the hourly cleanup, and requests that die.                        *)
(***************************************************************************)
ExpireLink(l) ==
  /\ l \notin expired
  /\ IF l = "v" THEN vlink = "live" ELSE Present(l)
  /\ expired' = expired \cup {l}
  /\ UNCHANGED <<verified, vlink, rlink, work, notices, resets, overlap>>

\* cleanupExpiredTokens: one DELETE per table.
CleanupVerification ==
  /\ "v" \in expired /\ vlink = "live"
  /\ vlink' = "gone"
  /\ UNCHANGED <<verified, rlink, expired, work, notices, resets, overlap>>

CleanupResets ==
  LET old == {l \in Links \cap expired : Present(l)} IN
  /\ old # {}
  /\ \A l \in old, q \in LinkHandlers : l \notin work[q].held
  /\ rlink' = [l \in Links |-> IF l \in old THEN "gone" ELSE rlink[l]]
  /\ UNCHANGED <<verified, vlink, expired, work, notices, resets, overlap>>

\* The process or its connection dies: the transaction is undone.
Abort(p) ==
  /\ work[p].pc # "idle"
  /\ EndWork(p)
  /\ UNCHANGED <<verified, vlink, rlink, expired, notices, resets, overlap>>

LinkNext ==
  \/ Register
  \/ \E p \in Followers : VerifyFind(p) \/ VerifyExpired(p) \/ VerifyUser(p) \/ VerifyDelete(p)
  \/ \E p \in Requesters : RequestReset(p) \/ DeleteUnused(p) \/ CreateLink(p)
  \/ \E p \in Resetters : ResetExpired(p) \/ SetPassword(p) \/ MarkUsed(p)
  \/ \E p \in Resetters, l \in Links : ResetFind(p, l)
  \/ \E l \in Links \cup {"v"} : ExpireLink(l)
  \/ CleanupVerification \/ CleanupResets
  \/ \E p \in LinkHandlers : Abort(p)

LinkSpec == LinkInit /\ [][LinkNext]_linkVars

-----------------------------------------------------------------------------
(***************************************************************************)
(* Properties.                                                             *)
(***************************************************************************)
\* However many requests follow the verification link at once, and whatever the
\* cleanup deletes meanwhile, the account is verified exactly with one success
\* mail (verifyEmail: update, delete and enqueue in one transaction).
VerifiedWithOneNotice == notices = IF verified = TRUE THEN 1 ELSE 0

\* No password is set through a link that a later request, its expiry or the
\* cleanup has deleted, although the reset had read it before (the update by
\* unique token in updatePasswordResetToken).
DeletedLinkSetsNothing ==
  [][\A l \in Links : rlink[l] = "gone" => resets'[l] = resets[l]]_linkVars

\* A request that issues a link leaves none usable that was there when it began,
\* whatever other requests issue, use or delete meanwhile; the link of a request
\* that overlaps it may stay (requestPasswordReset: "only the newest link stays
\* valid").
OlderLinksEnd ==
  [][\A p \in Requesters : \A l \in work[p].todo :
       work[p].pc = "createLink" /\ work'[p].pc = "idle" /\ rlink' # rlink
         => rlink'[l] # "unused"]_linkVars

\* After a link was used only the resets that had already read it unused may
\* still use it: a reset that starts later never does (used_at in resetPassword).
UsedLinkIsClosed == \A l \in Links : resets[l] <= 1 + overlap[l]
=============================================================================
