------------------------- MODULE RefreshSessionsProofs -------------------------
(***************************************************************************)
(* Proofs about RefreshSessions, for every set of users, tokens and        *)
(* concurrent requests and every value of the time bounds.                 *)
(***************************************************************************)
EXTENDS RefreshSessions, TLAPS

(***************************************************************************)
(* The inductive invariant.  OneLivePerFamily rests on the row locks: a    *)
(* request that has claimed a row still holds its lock and the row is      *)
(* still unrotated when it inserts the successor; locks are exclusive and  *)
(* only existing rows are locked; and the token naming a family has been   *)
(* issued, so a new login never joins an existing family.                  *)
(***************************************************************************)
RowsKnown == \A t \in rows : tbl[t].family # Null

FamilyKnown ==
  \A t \in Tokens :
    tbl[t].family # Null => tbl[tbl[t].family].family # Null

HeldRows == \A p \in Procs : req[p].held \subseteq rows

HeldOnce == \A p, q \in Procs : p # q => req[p].held \cap req[q].held = {}

ClaimLocked ==
  \A p \in Procs : req[p].pc = "insert" =>
    req[p].tok \in req[p].held /\ Live(req[p].tok)

IInv == TypeOK /\ RowsKnown /\ FamilyKnown /\ HeldRows /\ HeldOnce
          /\ ClaimLocked /\ OneLivePerFamily

-----------------------------------------------------------------------------
\* A handler between requests has the type of a request.
LEMMA IdleType == Idle \in Request
BY DEF Idle, Request, Labels

\* The initial state: an empty table and idle handlers.
LEMMA InitIInv == Init => IInv
<1> SUFFICES ASSUME Init PROVE IInv
  OBVIOUS
<1>1. TypeOK
  <2>1. NoColumns \in Columns
    BY DEF NoColumns, Columns
  <2> QED
    BY <2>1, IdleType DEF Init, TypeOK
<1>2. RowsKnown /\ FamilyKnown /\ OneLivePerFamily
  BY DEF Init, RowsKnown, FamilyKnown, OneLivePerFamily, NoColumns
<1>3. HeldRows /\ HeldOnce /\ ClaimLocked
  BY DEF Init, HeldRows, HeldOnce, ClaimLocked, Idle
<1> QED
  BY <1>1, <1>2, <1>3 DEF IInv

-----------------------------------------------------------------------------
\* A step of one request p that writes no row satisfies the invariant if p locks
\* only rows no one else has locked, deletes no row another request has locked,
\* and claims a live row.
LEMMA OneRequestStep ==
  ASSUME IInv,
         NEW p \in Procs,
         clock' \in Nat,
         rows' \subseteq rows,
         tbl' = tbl,
         account' \in [Users -> [epoch : Nat, active : BOOLEAN]],
         revoked' \in SUBSET (Tokens \cup {Null}),
         req' \in [Procs -> Request],
         \A q \in Procs \ {p} : req'[q] = req[q],
         \A q \in Procs \ {p} : req[q].held \subseteq rows',
         \A q \in Procs \ {p} : req'[p].held \cap req[q].held = {},
         req'[p].held \subseteq rows',
         req'[p].pc = "insert" => /\ req'[p].tok \in req'[p].held
                                  /\ tbl[req'[p].tok].rotatedAt = Null
  PROVE  IInv'
<1>1. TypeOK'
  BY DEF IInv, TypeOK
<1>2. RowsKnown' /\ FamilyKnown' /\ OneLivePerFamily'
  BY DEF IInv, RowsKnown, FamilyKnown, OneLivePerFamily, Live
<1>3. HeldRows'
  BY DEF IInv, HeldRows
<1>4. HeldOnce'
  BY DEF IInv, HeldOnce
<1>5. ClaimLocked'
  <2> SUFFICES ASSUME NEW q \in Procs, req'[q].pc = "insert"
               PROVE  (req[q].tok \in req[q].held /\ Live(req[q].tok))'
    BY DEF ClaimLocked
  <2>1. CASE q = p
    BY <2>1 DEF Live
  <2>2. CASE q # p
    BY <2>2 DEF IInv, ClaimLocked, Live
  <2> QED
    BY <2>1, <2>2
<1> QED
  BY <1>1, <1>2, <1>3, <1>4, <1>5 DEF IInv

\* A request that only moves on (same locks, no claim) keeps the invariant.
LEMMA MoveOn ==
  ASSUME IInv, NEW p \in Procs, NEW r \in Request,
         UNCHANGED <<clock, rows, tbl, account, revoked>>,
         req' = [req EXCEPT ![p] = r],
         r.held \subseteq req[p].held,
         r.pc # "insert"
  PROVE  IInv'
<1>1. /\ req' \in [Procs -> Request]
      /\ req'[p] = r
      /\ \A q \in Procs \ {p} : req'[q] = req[q]
  BY DEF IInv, TypeOK
<1>2. \A q \in Procs \ {p} : r.held \cap req[q].held = {}
  BY DEF IInv, HeldOnce
<1>3. /\ r.held \subseteq rows
      /\ \A q \in Procs : req[q].held \subseteq rows
  BY DEF IInv, HeldRows
<1>4. /\ clock' \in Nat
      /\ account' \in [Users -> [epoch : Nat, active : BOOLEAN]]
      /\ revoked' \in SUBSET (Tokens \cup {Null})
  BY DEF IInv, TypeOK
<1> QED
  BY <1>1, <1>2, <1>3, <1>4, OneRequestStep

\* The request handlers are requests, whatever single field a step replaces.
LEMMA RequestFields ==
  ASSUME TypeOK, NEW p \in Procs
  PROVE  /\ req[p] \in Request
         /\ \A l \in Labels : [req[p] EXCEPT !.pc = l] \in Request
BY DEF TypeOK, Request

\* Ending a request keeps the invariant: Abort, and every refusal.
LEMMA FinishIInv ==
  ASSUME IInv, NEW p \in Procs, Finish(p),
         UNCHANGED <<clock, rows, tbl, account, revoked>>
  PROVE  IInv'
<1>1. Idle.held = {} /\ Idle.pc # "insert"
  BY DEF Idle
<1> QED
  BY <1>1, IdleType, MoveOn DEF Finish

\* Going to another statement of the request keeps the invariant.
LEMMA GotoIInv ==
  ASSUME IInv, NEW p \in Procs, NEW l \in Labels, l # "insert", Goto(p, l),
         UNCHANGED <<clock, rows, tbl, account, revoked>>
  PROVE  IInv'
<1> DEFINE r == [req[p] EXCEPT !.pc = l]
<1>1. r \in Request /\ r.held = req[p].held /\ r.pc = l
  BY RequestFields DEF IInv, TypeOK, Request
<1>2. req' = [req EXCEPT ![p] = r]
  BY DEF Goto
<1> QED
  BY <1>1, <1>2, MoveOn

\* Deciding between reuse and the walk keeps the invariant.
LEMMA GraceBranchIInv ==
  ASSUME IInv, NEW p \in Procs, req[p].tok \in rows, GraceBranch(p),
         UNCHANGED <<clock, rows, tbl, account, revoked>>
  PROVE  IInv'
<1> DEFINE t == req[p].tok
           rv == [req[p] EXCEPT !.pc = "revoke", !.doomed = {tbl[t].family}]
           rw == [req[p] EXCEPT !.pc = "walk", !.cur = t]
<1>1. t \in Tokens /\ tbl[t].family \in Tokens \cup {Null}
  BY DEF IInv, TypeOK, Columns
<1>2. req[p] \in Request
  BY DEF IInv, TypeOK
<1>3. rv \in Request /\ rv.held = req[p].held /\ rv.pc = "revoke"
  BY <1>1, <1>2 DEF Request, Labels
<1>4. rw \in Request /\ rw.held = req[p].held /\ rw.pc = "walk"
  BY <1>1, <1>2 DEF Request, Labels
<1>5. req' = [req EXCEPT ![p] = rv] \/ req' = [req EXCEPT ![p] = rw]
  BY DEF GraceBranch
<1> QED
  BY <1>3, <1>4, <1>5, MoveOn

\* The steps of a refresh that read.
LEMMA ReadsIInv ==
  ASSUME IInv, NEW p \in Procs, Find(p) \/ Reread(p) \/ Hop(p)
  PROVE  IInv'
<1>1. CASE Find(p)
  <2>1. CASE Finish(p)
    BY <1>1, <2>1, FinishIInv DEF Find
  <2>2. CASE Goto(p, "delExpired")
    BY <1>1, <2>2, GotoIInv DEF Find, Labels
  <2>3. CASE Goto(p, "claim")
    BY <1>1, <2>3, GotoIInv DEF Find, Labels
  <2>4. CASE req[p].tok \in rows /\ GraceBranch(p)
    BY <1>1, <2>4, GraceBranchIInv DEF Find
  <2> QED
    BY <1>1, <2>1, <2>2, <2>3, <2>4 DEF Find
<1>2. CASE Reread(p)
  <2>1. CASE Finish(p)
    BY <1>2, <2>1, FinishIInv DEF Reread
  <2>2. CASE req[p].tok \in rows /\ GraceBranch(p)
    BY <1>2, <2>2, GraceBranchIInv DEF Reread
  <2> QED
    BY <1>2, <2>1, <2>2 DEF Reread
<1>3. CASE Hop(p)
  <2> DEFINE x == tbl[req[p].cur].successor
             r == [req[p] EXCEPT !.cur = x, !.round = req[p].round + 1]
  <2>1. CASE Finish(p)
    BY <1>3, <2>1, FinishIInv DEF Hop
  <2>2. CASE x \in rows /\ req' = [req EXCEPT ![p].cur = x,
                                     ![p].round = req[p].round + 1]
    <3>1. x \in Tokens /\ req[p] \in Request
      BY <2>2 DEF IInv, TypeOK
    <3>2. r \in Request /\ r.held = req[p].held /\ r.pc = req[p].pc
      <4>1. req[p].round + 1 \in Nat
        BY <3>1 DEF Request
      <4> HIDE DEF x
      <4> QED
        BY <3>1, <4>1 DEF Request
    <3>3. r.pc # "insert"
      BY <1>3, <3>2 DEF Hop
    <3>4. req' = [req EXCEPT ![p] = r]
      BY <2>2
    <3> QED
      BY <1>3, <3>2, <3>3, <3>4, MoveOn DEF Hop
  <2> QED
    BY <1>3, <2>1, <2>2 DEF OpenSuccessor, Hop
<1> QED
  BY <1>1, <1>2, <1>3

\* A new request starts with no locks.
LEMMA BeginIInv ==
  ASSUME IInv, NEW p \in Procs,
         \/ \E u \in Users : LoginRead(p, u) \/ BeginAccountOp(p, u)
         \/ \E t \in Tokens : BeginRefresh(p, t) \/ BeginLogout(p, t)
  PROVE  IInv'
<1>1. ASSUME NEW u \in Users, LoginRead(p, u) PROVE IInv'
  <2> DEFINE r == [Idle EXCEPT !.pc = "create", !.user = u, !.epoch = account[u].epoch]
  <2>1. account[u].epoch \in Nat
    BY DEF IInv, TypeOK
  <2>2. r \in Request /\ r.held = {} /\ r.pc = "create"
    BY <2>1, IdleType DEF Request, Labels, Idle
  <2> QED
    BY <1>1, <2>2, MoveOn DEF LoginRead
<1>2. ASSUME NEW u \in Users, BeginAccountOp(p, u) PROVE IInv'
  <2> DEFINE F == {tbl[t].family : t \in {r \in rows : tbl[r].user = u}}
             r == [Idle EXCEPT !.pc = "revoke", !.user = u, !.now = clock, !.doomed = F]
  <2>1. F \in SUBSET (Tokens \cup {Null}) /\ clock \in Nat
    BY DEF IInv, TypeOK, Columns
  <2>2. r \in Request /\ r.held = {} /\ r.pc = "revoke"
    <3> HIDE DEF F
    <3> QED
      BY <2>1, IdleType DEF Request, Labels, Idle
  <2>3. req' = [req EXCEPT ![p] = r]
    BY <1>2 DEF BeginAccountOp
  <2> QED
    <3> HIDE DEF r
    <3> QED
      BY <1>2, <2>2, <2>3, MoveOn DEF BeginAccountOp
<1>3. ASSUME NEW t \in Tokens, BeginRefresh(p, t) PROVE IInv'
  <2> DEFINE r == [Idle EXCEPT !.pc = "find", !.tok = t, !.now = clock]
  <2>1. clock \in Nat
    BY DEF IInv, TypeOK
  <2>2. r \in Request /\ r.held = {} /\ r.pc = "find"
    BY <2>1, IdleType DEF Request, Labels, Idle
  <2> QED
    BY <1>3, <2>2, MoveOn DEF BeginRefresh
<1>4. ASSUME NEW t \in Tokens, BeginLogout(p, t) PROVE IInv'
  <2> DEFINE r == [Idle EXCEPT !.pc = "lookup", !.tok = t]
  <2>2. r \in Request /\ r.held = {} /\ r.pc = "lookup"
    BY IdleType DEF Request, Labels, Idle
  <2> QED
    BY <1>4, <2>2, MoveOn DEF BeginLogout
<1> QED
  BY <1>1, <1>2, <1>3, <1>4

\* Logout's lookup and the start of a DELETE lock nothing.
LEMMA LookupIInv ==
  ASSUME IInv, NEW p \in Procs, Lookup(p) \/ StartPass(p)
  PROVE  IInv'
<1>1. req[p] \in Request
  BY DEF IInv, TypeOK
<1>2. CASE Lookup(p)
  <2> DEFINE t == req[p].tok
             r == [req[p] EXCEPT !.pc = "revoke", !.doomed = {tbl[t].family}]
  <2>1. CASE Finish(p)
    BY <1>2, <2>1, FinishIInv DEF Lookup
  <2>2. CASE t \in rows /\ req' = [req EXCEPT ![p].pc = "revoke",
                                     ![p].doomed = {tbl[t].family}]
    <3>1. tbl[t].family \in Tokens \cup {Null}
      BY <2>2 DEF IInv, TypeOK, Columns
    <3>2. r \in Request /\ r.held = req[p].held /\ r.pc = "revoke"
      BY <1>1, <3>1 DEF Request, Labels
    <3>3. req' = [req EXCEPT ![p] = r]
      BY <2>2
    <3> QED
      BY <1>2, <3>2, <3>3, MoveOn DEF Lookup
  <2> QED
    BY <1>2, <2>1, <2>2 DEF Lookup
<1>3. CASE StartPass(p)
  <2> DEFINE S == {t \in rows \ req[p].held : Matches(p, t)}
             r == [req[p] EXCEPT !.pc = "delete", !.hit = FALSE, !.todo = S]
  <2>1. S \in SUBSET Tokens
    BY DEF IInv, TypeOK
  <2>2. req' = [req EXCEPT ![p] = r]
    BY <1>3 DEF StartPass
  <2> HIDE DEF S
  <2>3. r \in Request /\ r.held = req[p].held /\ r.pc = "delete"
    BY <1>1, <2>1 DEF Request, Labels
  <2> QED
    BY <1>3, <2>2, <2>3, MoveOn DEF StartPass
<1> QED
  BY <1>2, <1>3

\* A claim locks a live row no one else has locked.
LEMMA ClaimIInv ==
  ASSUME IInv, NEW p \in Procs, Claim(p)
  PROVE  IInv'
<1> DEFINE t == req[p].tok
           r == [req[p] EXCEPT !.pc = "insert", !.held = {t}]
<1>1. CASE Goto(p, "reread")
  BY <1>1, GotoIInv DEF Claim, Labels
<1>2. CASE Live(t) /\ req' = [req EXCEPT ![p].pc = "insert", ![p].held = {t}]
  <2>1. t \in Tokens /\ t \in rows /\ tbl[t].rotatedAt = Null
    BY <1>2 DEF IInv, TypeOK, Live
  <2>2. r \in Request /\ r.held = {t} /\ r.pc = "insert" /\ r.tok = t
    <3>1. req[p] \in Request
      BY DEF IInv, TypeOK
    <3> QED
      BY <2>1, <3>1 DEF Request, Labels
  <2>3. /\ req' \in [Procs -> Request]
        /\ req'[p] = r
        /\ \A q \in Procs \ {p} : req'[q] = req[q]
    BY <1>2, <2>2 DEF IInv, TypeOK
  <2>4. \A q \in Procs \ {p} : t \notin req[q].held
    BY DEF Claim, Free
  <2>5. \A q \in Procs : req[q].held \subseteq rows
    BY DEF IInv, HeldRows
  <2>6. /\ clock' \in Nat /\ rows' = rows /\ tbl' = tbl
        /\ account' \in [Users -> [epoch : Nat, active : BOOLEAN]]
        /\ revoked' \in SUBSET (Tokens \cup {Null})
    BY DEF Claim, IInv, TypeOK
  <2> HIDE DEF r, t
  <2> QED
    BY <2>1, <2>2, <2>3, <2>4, <2>5, <2>6, OneRequestStep
<1> QED
  BY <1>1, <1>2 DEF Claim

\* A DELETE locks the rows it reaches, once no one else has them locked.
LEMMA DeleteRowIInv ==
  ASSUME IInv, NEW p \in Procs, NEW t \in Tokens, DeleteRow(p, t)
  PROVE  IInv'
<1> DEFINE H == IF t \in rows THEN req[p].held \cup {t} ELSE req[p].held
           r == [req[p] EXCEPT !.todo = req[p].todo \ {t}, !.held = H,
                               !.hit = req[p].hit \/ t \in rows]
<1>1. req[p] \in Request
  BY DEF IInv, TypeOK
<1>2. H \in SUBSET Tokens /\ H \subseteq rows
  BY <1>1 DEF IInv, TypeOK, HeldRows, Request
<1>3. \A q \in Procs \ {p} : H \cap req[q].held = {}
  BY DEF DeleteRow, Free, IInv, HeldOnce
<1>4. req' = [req EXCEPT ![p] = r]
  BY DEF DeleteRow
<1> HIDE DEF H
<1>5. r \in Request /\ r.held = H /\ r.pc = req[p].pc
  <2>1. req[p].todo \ {t} \in SUBSET Tokens /\ (req[p].hit \/ t \in rows) \in BOOLEAN
    BY <1>1 DEF Request
  <2> QED
    BY <1>1, <1>2, <2>1 DEF Request
<1>6. r.pc # "insert"
  BY <1>5 DEF DeleteRow
<1>7. /\ req' \in [Procs -> Request]
      /\ req'[p] = r
      /\ \A q \in Procs \ {p} : req'[q] = req[q]
  BY <1>4, <1>5 DEF IInv, TypeOK
<1>8. \A q \in Procs : req[q].held \subseteq rows
  BY DEF IInv, HeldRows
<1>9. /\ clock' \in Nat /\ rows' = rows /\ tbl' = tbl
      /\ account' \in [Users -> [epoch : Nat, active : BOOLEAN]]
      /\ revoked' \in SUBSET (Tokens \cup {Null})
  BY DEF DeleteRow, IInv, TypeOK
<1> HIDE DEF r
<1> QED
  BY <1>2, <1>3, <1>5, <1>6, <1>7, <1>8, <1>9, OneRequestStep

\* The deletions that commit: only rows that p alone had locked, or that no one
\* had, disappear.
LEMMA DeletionIInv ==
  ASSUME IInv, NEW p \in Procs,
         DeleteExpired(p) \/ EndRevocation(p) \/ EndPass(p)
  PROVE  IInv'
<1> USE DEF Finish
<1>1. req[p] \in Request /\ \A q \in Procs : req[q].held \subseteq rows
  BY DEF IInv, TypeOK, HeldRows
<1>2. Idle.held = {} /\ Idle.pc # "insert" /\ Idle \in Request
  BY IdleType DEF Idle
<1>3. ASSUME req' = [req EXCEPT ![p] = Idle]
      PROVE  /\ req' \in [Procs -> Request] /\ req'[p] = Idle
             /\ \A q \in Procs \ {p} : req'[q] = req[q]
  BY <1>2, <1>3 DEF IInv, TypeOK
<1>4. \A q \in Procs \ {p} : req[p].held \cap req[q].held = {}
  BY DEF IInv, HeldOnce
<1>5. \A q \in Procs \ {p} : req[q].held \subseteq rows \ req[p].held
  BY <1>1, <1>4
<1>6. /\ clock \in Nat
      /\ account \in [Users -> [epoch : Nat, active : BOOLEAN]]
      /\ revoked \in SUBSET (Tokens \cup {Null})
  BY DEF IInv, TypeOK
<1>7. CASE DeleteExpired(p)
  <2>1. \A q \in Procs \ {p} : req[q].held \subseteq rows'
    BY <1>7, <1>1 DEF DeleteExpired, Free
  <2>2. rows' \subseteq rows
    BY <1>7 DEF DeleteExpired
  <2> QED
    BY <1>7, <1>2, <1>3, <1>6, <2>1, <2>2, OneRequestStep DEF DeleteExpired
<1>8. CASE EndRevocation(p)
  <2>1. account' \in [Users -> [epoch : Nat, active : BOOLEAN]]
    <3>1. CASE p \in AccountOps
      <4>1. PICK stays \in BOOLEAN :
              account' = [account EXCEPT
                 ![req[p].user] = [epoch |-> account[req[p].user].epoch + 1,
                                   active |-> stays]]
        BY <1>8, <3>1 DEF EndRevocation
      <4>2. CASE req[p].user \in Users
        BY <1>6, <4>1, <4>2
      <4>3. CASE req[p].user \notin Users
        BY <1>6, <4>1, <4>3
      <4> QED
        BY <4>2, <4>3
    <3>2. CASE p \notin AccountOps
      BY <1>6, <1>8, <3>2 DEF EndRevocation
    <3> QED
      BY <3>1, <3>2
  <2>2. revoked' \in SUBSET (Tokens \cup {Null})
    BY <1>1, <1>6, <1>8 DEF EndRevocation, Request
  <2>3. rows' = rows \ req[p].held
    BY <1>8 DEF EndRevocation
  <2>4. clock' \in Nat /\ tbl' = tbl /\ req' = [req EXCEPT ![p] = Idle]
    BY <1>6, <1>8 DEF EndRevocation
  <2> QED
    BY <1>2, <1>3, <1>5, <2>1, <2>2, <2>3, <2>4, OneRequestStep
<1>9. CASE EndPass(p)
  <2> DEFINE H == IF p \in Logouts THEN {} ELSE req[p].held
             r == [req[p] EXCEPT !.pc = "revoke", !.round = req[p].round + 1, !.held = H]
  <2>1. rows' = IF p \in Logouts THEN rows \ req[p].held ELSE rows
    BY <1>9 DEF EndPass
  <2>2. rows' \subseteq rows /\ \A q \in Procs \ {p} : req[q].held \subseteq rows'
    BY <1>1, <1>5, <2>1
  <2>3. /\ clock' \in Nat /\ tbl' = tbl
        /\ account' \in [Users -> [epoch : Nat, active : BOOLEAN]]
        /\ revoked' \in SUBSET (Tokens \cup {Null})
    BY <1>6, <1>9 DEF EndPass
  <2>4. CASE req' = [req EXCEPT ![p] = Idle]
    BY <1>2, <1>3, <2>2, <2>3, <2>4, OneRequestStep
  <2>5. CASE req' = [req EXCEPT ![p].pc = "revoke", ![p].round = req[p].round + 1,
                                ![p].held = H]
    <3>1. req' = [req EXCEPT ![p] = r]
      BY <2>5
    <3>2. /\ H \in SUBSET Tokens /\ H \subseteq rows'
          /\ \A q \in Procs \ {p} : H \cap req[q].held = {}
      BY <1>1, <1>4, <2>1 DEF Request
    <3> HIDE DEF H
    <3>3. r \in Request /\ r.held = H /\ r.pc = "revoke"
      <4>1. req[p].round + 1 \in Nat
        BY <1>1 DEF Request
      <4> QED
        BY <1>1, <3>2, <4>1 DEF Request, Labels
    <3>4. /\ req' \in [Procs -> Request]
          /\ req'[p] = r
          /\ \A q \in Procs \ {p} : req'[q] = req[q]
      BY <3>1, <3>3 DEF IInv, TypeOK
    <3> HIDE DEF r
    <3> QED
      BY <2>2, <2>3, <3>2, <3>3, <3>4, OneRequestStep
  <2> QED
    BY <1>9, <2>4, <2>5 DEF EndPass
<1> QED
  BY <1>7, <1>8, <1>9

\* Ending a request leaves the locks of the others alone.
LEMMA FinishLocks ==
  ASSUME IInv, NEW p \in Procs, Finish(p)
  PROVE  /\ req' \in [Procs -> Request]
         /\ req'[p].held = {} /\ req'[p].pc # "insert"
         /\ \A q \in Procs \ {p} : req'[q] = req[q]
<1>1. Idle.held = {} /\ Idle.pc # "insert" /\ Idle \in Request
  BY IdleType DEF Idle
<1> HIDE DEF Idle
<1> QED
  BY <1>1 DEF IInv, TypeOK, Finish

\* A login opens a family of its own.
LEMMA LoginCreateIInv ==
  ASSUME IInv, NEW p \in Procs, LoginCreate(p)
  PROVE  IInv'
<1>1. PICK t \in Fresh :
        /\ rows' = rows \cup {t}
        /\ tbl' = [tbl EXCEPT ![t] =
                    [user |-> req[p].user, family |-> t,
                     expiresAt |-> ExpiryOf(clock), rotatedAt |-> Null,
                     successor |-> Null, epoch |-> req[p].epoch]]
        /\ Finish(p)
  BY DEF LoginCreate
<1> DEFINE c == [user |-> req[p].user, family |-> t,
                 expiresAt |-> ExpiryOf(clock), rotatedAt |-> Null,
                 successor |-> Null, epoch |-> req[p].epoch]
<1>2. t \in Tokens /\ tbl[t].family = Null /\ t # Null
  BY NullAssumption DEF Fresh, Known
<1>3. c \in Columns /\ c.family = t /\ c.rotatedAt = Null
  <2>1. req[p].user \in Users \cup {Null} /\ req[p].epoch \in Nat
    BY DEF IInv, TypeOK, Request
  <2>2. ExpiryOf(clock) \in Nat
    BY BoundsAssumption DEF ExpiryOf, IInv, TypeOK
  <2> QED
    BY <1>2, <2>1, <2>2 DEF Columns
<1>4. /\ tbl' \in [Tokens -> Columns]
      /\ tbl'[t] = c
      /\ \A u \in Tokens \ {t} : tbl'[u] = tbl[u]
  BY <1>1, <1>2, <1>3 DEF IInv, TypeOK
<1> HIDE DEF c
<1>5. /\ req' \in [Procs -> Request]
      /\ req'[p].held = {} /\ req'[p].pc # "insert"
      /\ \A q \in Procs \ {p} : req'[q] = req[q]
  BY <1>1, FinishLocks
<1>6. t \notin rows
  BY <1>2 DEF IInv, RowsKnown
<1>7. TypeOK'
  BY <1>1, <1>2, <1>4, <1>5 DEF LoginCreate, IInv, TypeOK
<1>8. RowsKnown' /\ FamilyKnown'
  BY <1>1, <1>2, <1>3, <1>4 DEF IInv, TypeOK, Columns, RowsKnown, FamilyKnown
<1>9. HeldRows' /\ HeldOnce'
  BY <1>1, <1>5 DEF IInv, HeldRows, HeldOnce
<1>10. ClaimLocked'
  <2> SUFFICES ASSUME NEW q \in Procs, req'[q].pc = "insert"
               PROVE  (req[q].tok \in req[q].held /\ Live(req[q].tok))'
    BY DEF ClaimLocked
  <2>1. q # p /\ req'[q] = req[q]
    BY <1>5
  <2>2. req[q].tok \in req[q].held /\ Live(req[q].tok)
    BY <2>1 DEF IInv, ClaimLocked
  <2>3. req[q].tok \in Tokens /\ req[q].tok # t
    BY <2>2, <1>6 DEF Live, IInv, TypeOK
  <2> QED
    BY <1>1, <1>4, <2>1, <2>2, <2>3 DEF Live
<1>11. OneLivePerFamily'
  <2>1. \A u \in rows : u \in Tokens /\ u # t /\ tbl'[u] = tbl[u] /\ tbl[u].family # t
    BY <1>2, <1>4, <1>6 DEF IInv, TypeOK, FamilyKnown
  <2> QED
    BY <1>1, <1>3, <1>4, <2>1 DEF IInv, OneLivePerFamily, Live
<1> QED
  BY <1>7, <1>8, <1>9, <1>10, <1>11 DEF IInv

\* What a rotation writes: the claimed row t, locked and live until now, gets its
\* rotation time and its successor, the row s of the same login.
Rotates(p, t, s) ==
  /\ t = req[p].tok /\ t \in req[p].held /\ t \in rows
  /\ tbl[t].rotatedAt = Null /\ tbl[t].family # Null /\ req[p].now # Null
  /\ s \notin rows /\ tbl[s].family = Null /\ rows' = rows \cup {s}
  /\ tbl' \in [Tokens -> Columns]
  /\ tbl'[s] = [user |-> tbl[t].user, family |-> tbl[t].family,
                expiresAt |-> ExpiryOf(req[p].now), rotatedAt |-> Null,
                successor |-> Null, epoch |-> tbl[t].epoch]
  /\ tbl'[t] = [tbl[t] EXCEPT !.rotatedAt = req[p].now, !.successor = s]
  /\ \A u \in Tokens \ {s, t} : tbl'[u] = tbl[u]
  /\ Finish(p)

LEMMA Rotation ==
  ASSUME IInv, NEW p \in Procs, InsertSuccessor(p)
  PROVE  \E s, t \in Tokens : s # t /\ Rotates(p, t, s)
<1> DEFINE t == req[p].tok
<1>1. PICK s \in Fresh :
        /\ rows' = rows \cup {s}
        /\ tbl' = [tbl EXCEPT
             ![t].rotatedAt = req[p].now, ![t].successor = s,
             ![s] = [user |-> tbl[t].user, family |-> tbl[t].family,
                     expiresAt |-> ExpiryOf(req[p].now), rotatedAt |-> Null,
                     successor |-> Null, epoch |-> tbl[t].epoch]]
        /\ Finish(p)
  BY DEF InsertSuccessor
<1> DEFINE c == [user |-> tbl[t].user, family |-> tbl[t].family,
                 expiresAt |-> ExpiryOf(req[p].now), rotatedAt |-> Null,
                 successor |-> Null, epoch |-> tbl[t].epoch]
           d == [tbl[t] EXCEPT !.rotatedAt = req[p].now, !.successor = s]
<1>2. s \in Tokens /\ tbl[s].family = Null
  BY DEF Fresh, Known
<1>3. /\ t \in req[p].held /\ t \in rows /\ t \in Tokens
      /\ tbl[t].rotatedAt = Null /\ tbl[t].family # Null
      /\ req[p].now \in Nat /\ req[p].now # Null
  BY NullAssumption
     DEF InsertSuccessor, IInv, TypeOK, ClaimLocked, RowsKnown, Live, Request
<1>4. s # t /\ s \notin rows
  BY <1>2, <1>3 DEF IInv, RowsKnown
<1>5. tbl \in [Tokens -> Columns] /\ tbl[t] \in Columns
  BY <1>3 DEF IInv, TypeOK
<1>6. c \in Columns
  <2>1. ExpiryOf(req[p].now) \in Nat
    BY <1>3, BoundsAssumption DEF ExpiryOf
  <2> QED
    BY <1>5, <2>1 DEF Columns
<1>7. d \in Columns
  BY <1>2, <1>3, <1>5 DEF Columns
<1>8. tbl' = [[tbl EXCEPT ![t] = d] EXCEPT ![s] = c]
  BY <1>1, <1>3, <1>5 DEF Columns
<1>9. /\ tbl' \in [Tokens -> Columns]
      /\ tbl'[s] = c /\ tbl'[t] = d
      /\ \A u \in Tokens \ {s, t} : tbl'[u] = tbl[u]
  <2> HIDE DEF c, d
  <2> QED
    BY <1>2, <1>3, <1>4, <1>5, <1>6, <1>7, <1>8
<1>10. Rotates(p, t, s)
  BY <1>1, <1>2, <1>3, <1>4, <1>9 DEF Rotates
<1> QED
  BY <1>2, <1>3, <1>4, <1>10

\* The fields of the two rows a rotation writes.
LEMMA RotatedFields ==
  ASSUME IInv, NEW p \in Procs, NEW s \in Tokens, NEW t \in Tokens, s # t,
         Rotates(p, t, s)
  PROVE  /\ tbl'[s].user = tbl[t].user /\ tbl'[s].family = tbl[t].family
         /\ tbl'[s].expiresAt = ExpiryOf(req[p].now)
         /\ tbl'[s].rotatedAt = Null /\ tbl'[s].successor = Null
         /\ tbl'[t].user = tbl[t].user /\ tbl'[t].family = tbl[t].family
         /\ tbl'[t].expiresAt = tbl[t].expiresAt
         /\ tbl'[t].rotatedAt = req[p].now /\ tbl'[t].successor = s
<1>1. tbl[t] \in Columns
  BY DEF IInv, TypeOK
<1> QED
  BY <1>1 DEF Rotates, Columns

\* A rotation replaces the family's live row by its successor.
LEMMA InsertSuccessorIInv ==
  ASSUME IInv, NEW p \in Procs, InsertSuccessor(p)
  PROVE  IInv'
<1>1. PICK s, t \in Tokens : s # t /\ Rotates(p, t, s)
  BY Rotation
<1>2. tbl[s].family = Null /\ rows' = rows \cup {s}
  BY <1>1 DEF Rotates
<1>3. /\ t = req[p].tok /\ t \in req[p].held /\ t \in rows
      /\ tbl[t].rotatedAt = Null /\ tbl[t].family # Null
  BY <1>1 DEF Rotates
<1>4. s # t /\ s \notin rows
  BY <1>1 DEF Rotates
<1>5. tbl'[s].family = tbl[t].family /\ tbl'[s].rotatedAt = Null
  BY <1>1, RotatedFields
<1>6. tbl'[t].family = tbl[t].family /\ tbl'[t].rotatedAt # Null
  <2>1. tbl'[t].family = tbl[t].family /\ tbl'[t].rotatedAt = req[p].now
    BY <1>1, RotatedFields
  <2>2. req[p].now # Null
    BY <1>1 DEF Rotates
  <2> QED
    BY <2>1, <2>2
<1>7. /\ tbl' \in [Tokens -> Columns]
      /\ \A u \in Tokens \ {s, t} : tbl'[u] = tbl[u]
  BY <1>1 DEF Rotates
<1>8. /\ req' \in [Procs -> Request]
      /\ req'[p].held = {} /\ req'[p].pc # "insert"
      /\ \A q \in Procs \ {p} : req'[q] = req[q]
  BY <1>1, FinishLocks DEF Rotates
<1>9. TypeOK'
  BY <1>2, <1>7, <1>8 DEF InsertSuccessor, IInv, TypeOK
<1>10. RowsKnown' /\ FamilyKnown'
  <2>1. /\ \A u \in Tokens \ {s} : tbl'[u].family = tbl[u].family
        /\ tbl'[s].family = tbl[t].family
    BY <1>3, <1>5, <1>6, <1>7
  <2>2. RowsKnown'
    BY <1>2, <1>3, <1>4, <2>1 DEF IInv, TypeOK, RowsKnown
  <2>3. \A u \in Tokens : tbl'[u].family \in Tokens \cup {Null}
    BY <1>7 DEF Columns
  <2>4. \A f \in Tokens : tbl[f].family # Null => tbl'[f].family # Null
    BY <1>2, <2>1
  <2>5. FamilyKnown'
    <3> SUFFICES ASSUME NEW u \in Tokens, tbl'[u].family # Null
                 PROVE  tbl'[tbl'[u].family].family # Null
      BY DEF FamilyKnown
    <3>1. PICK v \in Tokens : tbl[v].family = tbl'[u].family
      BY <1>3, <2>1
    <3>2. tbl[tbl[v].family].family # Null
      BY <3>1 DEF IInv, FamilyKnown
    <3> QED
      BY <2>3, <2>4, <3>1, <3>2
  <2> QED
    BY <2>2, <2>5
<1>11. HeldRows' /\ HeldOnce'
  BY <1>2, <1>8 DEF IInv, HeldRows, HeldOnce
<1>12. ClaimLocked'
  <2> SUFFICES ASSUME NEW q \in Procs, req'[q].pc = "insert"
               PROVE  (req[q].tok \in req[q].held /\ Live(req[q].tok))'
    BY DEF ClaimLocked
  <2>1. q # p /\ req'[q] = req[q]
    BY <1>8
  <2>2. req[q].tok \in req[q].held /\ Live(req[q].tok)
    BY <2>1 DEF IInv, ClaimLocked
  <2>3. req[q].tok \in Tokens /\ req[q].tok # s
    BY <2>2, <1>4 DEF Live, IInv, TypeOK
  <2>4. req[q].tok # t
    BY <1>3, <2>1, <2>2 DEF IInv, HeldOnce
  <2> QED
    BY <1>2, <1>7, <2>1, <2>2, <2>3, <2>4 DEF Live
<1>13. OneLivePerFamily'
  <2>1. \A u \in rows : u \in Tokens /\ u # s
    BY <1>4 DEF IInv, TypeOK
  <2>2. \A u \in rows : u # t /\ tbl[u].rotatedAt = Null => tbl[u].family # tbl[t].family
    BY <1>3 DEF IInv, OneLivePerFamily, Live
  <2> QED
    BY <1>2, <1>5, <1>6, <1>7, <2>1, <2>2 DEF IInv, OneLivePerFamily, Live
<1> QED
  BY <1>9, <1>10, <1>11, <1>12, <1>13 DEF IInv

\* Time, cleanup and an admin's password edit.
LEMMA EnvironmentIInv ==
  ASSUME IInv,
         Tick \/ CleanupExpired \/ (\E u \in Users : AdminSetPassword(u))
  PROVE  IInv'
<1>1. CASE Tick
  <2>1. TypeOK'
    BY <1>1 DEF Tick, IInv, TypeOK
  <2> QED
    BY <1>1, <2>1 DEF Tick, IInv, RowsKnown, FamilyKnown, HeldRows, HeldOnce,
                      ClaimLocked, OneLivePerFamily, Live
<1>2. CASE CleanupExpired
  <2>1. /\ rows' \subseteq rows
        /\ \A q \in Procs : req[q].held \subseteq rows'
        /\ UNCHANGED <<clock, tbl, account, req, revoked>>
    BY <1>2 DEF CleanupExpired, IInv, HeldRows
  <2>2. TypeOK'
    BY <2>1 DEF IInv, TypeOK
  <2> QED
    BY <2>1, <2>2 DEF IInv, RowsKnown, FamilyKnown, HeldRows, HeldOnce,
                      ClaimLocked, OneLivePerFamily, Live
<1>3. ASSUME NEW u \in Users, AdminSetPassword(u) PROVE IInv'
  <2>1. TypeOK'
    BY <1>3 DEF AdminSetPassword, IInv, TypeOK
  <2> QED
    BY <1>3, <2>1 DEF AdminSetPassword, IInv, RowsKnown, FamilyKnown, HeldRows,
                      HeldOnce, ClaimLocked, OneLivePerFamily, Live
<1> QED
  BY <1>1, <1>2, <1>3

\* Every step keeps the invariant.
LEMMA NextIInv == IInv /\ [Next]_vars => IInv'
<1> SUFFICES ASSUME IInv, [Next]_vars PROVE IInv'
  OBVIOUS
<1> USE DEF Procs
<1>1. ASSUME NEW p \in Logins, LoginCreate(p) \/ \E u \in Users : LoginRead(p, u)
      PROVE  IInv'
  BY <1>1, LoginCreateIInv, BeginIInv
<1>2. ASSUME NEW p \in Refreshers,
             RefreshStep(p) \/ \E t \in Tokens : BeginRefresh(p, t)
      PROVE  IInv'
  <2>1. p \in Procs
    OBVIOUS
  <2> HIDE DEF Procs
  <2> QED
    BY <1>2, <2>1, ReadsIInv, DeletionIInv, ClaimIInv, InsertSuccessorIInv, BeginIInv
       DEF RefreshStep
<1>3. ASSUME NEW p \in Logouts, Lookup(p) \/ \E t \in Tokens : BeginLogout(p, t)
      PROVE  IInv'
  BY <1>3, LookupIInv, BeginIInv
<1>4. ASSUME NEW p \in AccountOps, NEW u \in Users, BeginAccountOp(p, u)
      PROVE  IInv'
  BY <1>4, BeginIInv
<1>5. ASSUME NEW p \in Procs, RevokeStep(p) \/ Abort(p)
      PROVE  IInv'
  <2> HIDE DEF Procs
  <2>1. CASE RevokeStep(p)
    BY <1>5, <2>1, LookupIInv, DeleteRowIInv, DeletionIInv DEF RevokeStep
  <2>2. CASE Abort(p)
    BY <1>5, <2>2, FinishIInv DEF Abort
  <2> QED
    BY <1>5, <2>1, <2>2
<1>6. CASE Tick \/ CleanupExpired \/ (\E u \in Users : AdminSetPassword(u))
  BY <1>6, EnvironmentIInv
<1>7. CASE UNCHANGED vars
  BY <1>7 DEF vars, IInv, TypeOK, RowsKnown, FamilyKnown, HeldRows, HeldOnce,
              ClaimLocked, OneLivePerFamily, Live
<1> QED
  BY <1>1, <1>2, <1>3, <1>4, <1>5, <1>6, <1>7 DEF Next

\* The invariant holds in every reachable state.
LEMMA InvariantHolds == Spec => []IInv
<1>1. IInv /\ [Next]_vars => IInv'
  BY NextIInv
<1> QED
  BY InitIInv, <1>1, PTL DEF Spec

\* The table, the accounts and the requests keep their types.
THEOREM TypeCorrect == Spec => []TypeOK
<1>1. IInv => TypeOK
  BY DEF IInv
<1> QED
  BY InvariantHolds, <1>1, PTL

\* However many requests, logouts, account operations, cleanups and crashes run
\* at once, a login never has two live refresh tokens.
THEOREM OneLiveToken == Spec => []OneLivePerFamily
<1>1. IInv => OneLivePerFamily
  BY DEF IInv
<1> QED
  BY InvariantHolds, <1>1, PTL

-----------------------------------------------------------------------------
(***************************************************************************)
(* What each request knows while it runs: which statements a request of    *)
(* its kind issues; that the token it presented was issued; when it        *)
(* started; what it has locked; what it decided about its token and has    *)
(* not acted on yet; and which rows its DELETE is after.                   *)
(***************************************************************************)
KindOf(p) ==
  \/ p \in Logins /\ req[p].pc \in {"idle", "create"}
  \/ p \in Logouts /\ req[p].pc \in {"idle", "lookup", "revoke", "delete"}
  \/ p \in AccountOps /\ req[p].pc \in {"idle", "revoke", "delete"}
  \/ p \in Refreshers /\ req[p].pc \in Labels \ {"create", "lookup"}

Presented(p) ==
  p \in Refreshers \cup Logouts /\ req[p].pc # "idle" => req[p].tok \in Known

Timed(p) ==
  p \in Refreshers /\ req[p].pc # "idle" =>
    /\ req[p].now <= clock
    /\ clock - req[p].now <= TxLimit
    /\ tbl[req[p].tok].expiresAt <= ExpiryOf(req[p].now)

Locks(p) == req[p].pc \notin {"insert", "revoke", "delete"} => req[p].held = {}

Judged(p) ==
  LET t == req[p].tok IN
  /\ req[p].pc = "delExpired" => tbl[t].expiresAt <= req[p].now
  /\ req[p].pc \in {"claim", "reread"} /\ tbl[t].rotatedAt # Null
       => req[p].now - tbl[t].rotatedAt <= TxLimit
  /\ p \in Refreshers /\ req[p].pc \in {"revoke", "delete"}
       => tbl[t].rotatedAt # Null /\ req[p].now - tbl[t].rotatedAt > Grace

\* A DELETE that is after a row is also after the row it succeeded.
Aimed(p) ==
  /\ req[p].pc \in {"revoke", "delete"} => \A t \in req[p].held : Matches(p, t)
  /\ req[p].pc = "delete" =>
       /\ req[p].todo \subseteq Known
       /\ \A t \in req[p].todo : Matches(p, t)
       /\ \A t \in rows : tbl[t].successor \in req[p].held \cup req[p].todo
            => t \in req[p].held \cup req[p].todo

Sound(p) ==
  KindOf(p) /\ Presented(p) /\ Timed(p) /\ Locks(p) /\ Judged(p) /\ Aimed(p)

\* A rotated token has a successor of the same login that expires no earlier.
Heir(t) ==
  LET s == tbl[t].successor IN
  tbl[t].rotatedAt # Null =>
    /\ s \in Known
    /\ tbl[s].family = tbl[t].family /\ tbl[s].user = tbl[t].user
    /\ tbl[t].expiresAt <= tbl[s].expiresAt

Heirs == \A t \in Known : tbl[t].expiresAt <= ExpiryOf(clock) /\ Heir(t)

\* Only rotated rows have a successor.
HeirsRotated == \A t \in Tokens : tbl[t].successor # Null => tbl[t].rotatedAt # Null

JInv == IInv /\ Heirs /\ HeirsRotated /\ SuccessorKept /\ \A p \in Procs : Sound(p)

-----------------------------------------------------------------------------
\* What a step other than Tick may do to the table: an issued token keeps its
\* login, its user and its expiry; a rotation is not redone, and happens within
\* the lifetime of the transaction that started it; a new row, and a row newly
\* rotated, has no successor that was known before.
TableStep ==
  /\ clock' = clock
  /\ \A t \in Known :
       /\ tbl'[t].family = tbl[t].family
       /\ tbl'[t].user = tbl[t].user
       /\ tbl'[t].expiresAt = tbl[t].expiresAt
       /\ tbl[t].rotatedAt # Null => /\ tbl'[t].rotatedAt = tbl[t].rotatedAt
                                     /\ tbl'[t].successor = tbl[t].successor
       /\ tbl[t].rotatedAt = Null /\ tbl'[t].rotatedAt # Null
            => clock - tbl'[t].rotatedAt <= TxLimit
  /\ \A t \in rows' : \/ t \in rows /\ tbl'[t].successor = tbl[t].successor
                      \/ tbl'[t].successor \notin Known

\* A step that writes no columns.
LEMMA QuietTable ==
  ASSUME clock' = clock, tbl' = tbl, rows' \subseteq rows
  PROVE  TableStep
BY DEF TableStep

\* Rows are issued tokens, and so are the rows a request has locked.
LEMMA RowsAreKnown ==
  ASSUME IInv
  PROVE  /\ rows \subseteq Known /\ Known \subseteq Tokens
         /\ \A p \in Procs : req[p].held \subseteq Known
BY DEF IInv, TypeOK, RowsKnown, HeldRows, Known

\* The kinds of requests exclude one another.
LEMMA KindsExclude ==
  ASSUME NEW p \in Procs, KindOf(p), req[p].pc # "idle"
  PROVE  /\ p \in Logins => req[p].pc = "create"
         /\ p \in Logouts => req[p].pc \in {"lookup", "revoke", "delete"}
         /\ p \in AccountOps => req[p].pc \in {"revoke", "delete"}
         /\ p \in Refreshers => req[p].pc \in Labels \ {"create", "lookup"}
BY RolesAssumption DEF KindOf, Procs

\* The steps of others leave what a request knows true.
LEMMA OtherSound ==
  ASSUME IInv, TypeOK', NEW q \in Procs, Sound(q), TableStep, req'[q] = req[q]
  PROVE  Sound(q)'
<1> USE DEF Sound
<1>1. Known \subseteq Known'
  BY DEF TableStep, Known
<1>2. KindOf(q)' /\ Locks(q)'
  BY DEF KindOf, Locks
<1>3. Presented(q)'
  BY <1>1 DEF Presented
<1>4. Timed(q)'
  BY DEF Timed, Presented, TableStep, ExpiryOf
<1>5. Judged(q)'
  <2> DEFINE t == req[q].tok
  <2>1. CASE req[q].pc = "delExpired"
    <3>1. q \in Refreshers
      BY <2>1, KindsExclude DEF Procs
    <3>2. t \in Known
      BY <2>1, <3>1 DEF Presented
    <3> QED
      BY <2>1, <3>2 DEF Judged, TableStep
  <2>2. CASE req[q].pc \in {"claim", "reread"}
    <3>1. q \in Refreshers
      BY <2>2, KindsExclude DEF Procs
    <3>2. t \in Known /\ t \in Tokens /\ req[q].now <= clock
      BY <2>2, <3>1 DEF Presented, Timed, Known
    <3>3. /\ req[q].now \in Nat /\ clock \in Nat /\ tbl[t].rotatedAt \in Nat \cup {Null}
          /\ tbl'[t].rotatedAt \in Nat \cup {Null}
      BY <3>2 DEF IInv, TypeOK, Request, Columns
    <3>4. CASE tbl[t].rotatedAt # Null
      BY <2>2, <3>2, <3>4 DEF Judged, TableStep
    <3>5. CASE tbl[t].rotatedAt = Null /\ tbl'[t].rotatedAt # Null
      <4>1. clock - tbl'[t].rotatedAt <= TxLimit
        BY <3>2, <3>5 DEF TableStep
      <4>2. req[q].now - tbl'[t].rotatedAt <= TxLimit
        <5>1. tbl'[t].rotatedAt \in Nat
          BY <3>3, <3>5
        <5> QED
          BY <3>2, <3>3, <4>1, <5>1, BoundsAssumption
      <4> QED
        BY <2>2, <4>2 DEF Judged
    <3>6. CASE tbl'[t].rotatedAt = Null
      BY <2>2, <3>6 DEF Judged
    <3> QED
      BY <3>4, <3>5, <3>6
  <2>3. CASE q \in Refreshers /\ req[q].pc \in {"revoke", "delete"}
    <3>1. t \in Known
      BY <2>3 DEF Presented
    <3> QED
      BY <2>3, <3>1 DEF Judged, TableStep
  <2> QED
    BY <2>1, <2>2, <2>3 DEF Judged
<1>6. Aimed(q)'
  <2> SUFFICES ASSUME req[q].pc \in {"revoke", "delete"} PROVE Aimed(q)'
    BY DEF Aimed
  <2>1. q \in AccountOps \/ req[q].tok \in Known
    BY KindsExclude DEF Procs, Presented
  <2>2. req[q].held \subseteq Known
    BY RowsAreKnown
  <2>3. \A t \in Known : Matches(q, t) => Matches(q, t)'
    BY <2>1 DEF Matches, TableStep
  <2>4. \A t \in req[q].held : Matches(q, t)'
    BY <2>2, <2>3 DEF Aimed
  <2>5. ASSUME req[q].pc = "delete"
        PROVE  /\ req[q].todo \subseteq Known'
               /\ \A t \in req[q].todo : Matches(q, t)'
               /\ \A t \in rows' : tbl'[t].successor \in req[q].held \cup req[q].todo
                    => t \in req[q].held \cup req[q].todo
    <3>1. req[q].todo \subseteq Known
      BY <2>5 DEF Aimed
    <3>2. \A t \in req[q].todo : Matches(q, t)'
      BY <2>3, <2>5, <3>1 DEF Aimed
    <3>3. \A t \in rows' : tbl'[t].successor \in req[q].held \cup req[q].todo
                    => t \in req[q].held \cup req[q].todo
      BY <2>2, <2>5, <3>1 DEF Aimed, TableStep
    <3> QED
      BY <1>1, <3>1, <3>2, <3>3
  <2> QED
    BY <2>4, <2>5 DEF Aimed
<1> QED
  BY <1>2, <1>3, <1>4, <1>5, <1>6

-----------------------------------------------------------------------------
\* A request that has ended knows nothing.
LEMMA IdleSound ==
  ASSUME NEW p \in Procs, req'[p] = Idle
  PROVE  Sound(p)'
BY DEF Sound, KindOf, Presented, Timed, Locks, Judged, Aimed, Idle, Procs, Labels

LEMMA FinishSound ==
  ASSUME IInv, NEW p \in Procs, Finish(p)
  PROVE  Sound(p)' /\ \A q \in Procs \ {p} : req'[q] = req[q]
<1>1. req'[p] = Idle /\ \A q \in Procs \ {p} : req'[q] = req[q]
  BY DEF Finish, IInv, TypeOK
<1> QED
  BY <1>1, IdleSound

\* A request goes to another statement and remembers the rest.
LEMMA GotoFields ==
  ASSUME IInv, NEW p \in Procs, NEW l, Goto(p, l)
  PROVE  /\ req'[p].pc = l /\ req'[p].tok = req[p].tok
         /\ req'[p].now = req[p].now /\ req'[p].held = req[p].held
         /\ \A q \in Procs \ {p} : req'[q] = req[q]
BY DEF Goto, IInv, TypeOK, Request

\* Deciding on a rotated token: reuse goes on to the revocation, the rest walks.
LEMMA GraceBranchSound ==
  ASSUME IInv, NEW p \in Refreshers, Sound(p), req[p].pc \in {"find", "reread"},
         req[p].tok \in rows, ~Live(req[p].tok), GraceBranch(p),
         UNCHANGED <<clock, rows, tbl>>
  PROVE  Sound(p)' /\ \A q \in Procs \ {p} : req'[q] = req[q]
<1> DEFINE t == req[p].tok
<1>1. p \in Procs /\ req[p].held = {} /\ tbl[t].rotatedAt # Null
  BY DEF Sound, Locks, Live, Procs
<1>2. /\ req'[p].tok = t /\ req'[p].now = req[p].now /\ req'[p].held = {}
      /\ \/ req'[p].pc = "revoke" /\ req[p].now - tbl[t].rotatedAt > Grace
         \/ req'[p].pc = "walk"
      /\ \A q \in Procs \ {p} : req'[q] = req[q]
  BY <1>1 DEF GraceBranch, IInv, TypeOK, Request
<1>3. KindOf(p)' /\ Locks(p)'
  BY <1>2 DEF KindOf, Locks, Labels
<1>4. Presented(p)' /\ Timed(p)'
  BY <1>2 DEF Sound, Presented, Timed, Known
<1>5. Judged(p)' /\ Aimed(p)'
  BY <1>1, <1>2 DEF Judged, Aimed
<1> QED
  BY <1>2, <1>3, <1>4, <1>5 DEF Sound

\* The statements of a refresh that write no row.
LEMMA RefreshSound ==
  ASSUME IInv, NEW p \in Refreshers, Sound(p),
         Find(p) \/ Claim(p) \/ Reread(p) \/ Hop(p)
  PROVE  Sound(p)' /\ \A q \in Procs \ {p} : req'[q] = req[q]
<1> DEFINE t == req[p].tok
<1>1. p \in Procs /\ UNCHANGED <<clock, rows, tbl>>
  BY DEF Procs, Find, Claim, Reread, Hop
<1>2. CASE Finish(p)
  BY <1>1, <1>2, FinishSound
<1>3. CASE GraceBranch(p) /\ (Find(p) \/ Reread(p)) /\ t \in rows /\ ~Live(t)
  <2>1. req[p].pc \in {"find", "reread"}
    BY <1>3 DEF Find, Reread
  <2> QED
    BY <1>1, <1>3, <2>1, GraceBranchSound
<1>4. ASSUME NEW l \in {"delExpired", "claim", "reread"}, Goto(p, l),
             req[p].pc \in {"find", "claim"},
             l = "delExpired" => tbl[t].expiresAt <= req[p].now,
             l = "claim" => tbl[t].rotatedAt = Null,
             l = "reread" => req[p].pc = "claim"
      PROVE  Sound(p)' /\ \A q \in Procs \ {p} : req'[q] = req[q]
  <2>1. /\ req'[p].pc = l /\ req'[p].tok = t
        /\ req'[p].now = req[p].now /\ req'[p].held = req[p].held
        /\ \A q \in Procs \ {p} : req'[q] = req[q]
    BY <1>1, <1>4, GotoFields
  <2>2. KindOf(p)' /\ Locks(p)'
    BY <1>4, <2>1 DEF Sound, KindOf, Locks, Labels
  <2>3. Presented(p)' /\ Timed(p)'
    BY <1>1, <1>4, <2>1 DEF Sound, Presented, Timed, Known
  <2>4. Judged(p)' /\ Aimed(p)'
    BY <1>1, <1>4, <2>1 DEF Sound, Judged, Aimed
  <2> QED
    BY <2>1, <2>2, <2>3, <2>4 DEF Sound
<1>5. CASE Live(t) /\ Claim(p) /\ req' = [req EXCEPT ![p].pc = "insert", ![p].held = {t}]
  <2>1. /\ req'[p].pc = "insert" /\ req'[p].tok = t /\ req'[p].now = req[p].now
        /\ \A q \in Procs \ {p} : req'[q] = req[q]
    BY <1>1, <1>5 DEF IInv, TypeOK, Request
  <2>2. req[p].pc = "claim"
    BY <1>5 DEF Claim
  <2>3. KindOf(p)' /\ Locks(p)'
    BY <2>1 DEF KindOf, Locks, Labels
  <2>4. Presented(p)' /\ Timed(p)'
    BY <1>1, <2>1, <2>2 DEF Sound, Presented, Timed, Known
  <2>5. Judged(p)' /\ Aimed(p)'
    BY <1>1, <2>1 DEF Judged, Aimed
  <2> QED
    BY <2>1, <2>3, <2>4, <2>5 DEF Sound
<1>6. CASE Hop(p) /\ ~Finish(p)
  <2>1. /\ req'[p].pc = "walk" /\ req[p].pc = "walk"
        /\ req'[p].tok = t /\ req'[p].now = req[p].now
        /\ req'[p].held = req[p].held
        /\ \A q \in Procs \ {p} : req'[q] = req[q]
    BY <1>1, <1>6 DEF Hop, IInv, TypeOK, Request
  <2>2. KindOf(p)' /\ Locks(p)'
    BY <2>1 DEF Sound, KindOf, Locks, Labels
  <2>3. Presented(p)' /\ Timed(p)'
    BY <1>1, <2>1 DEF Sound, Presented, Timed, Known
  <2>4. Judged(p)' /\ Aimed(p)'
    BY <1>1, <2>1 DEF Judged, Aimed
  <2> QED
    BY <2>1, <2>2, <2>3, <2>4 DEF Sound
<1>7. CASE Find(p)
  <2>1. req[p].pc = "find"
    BY <1>7 DEF Find
  <2>2. CASE t \in rows /\ Expired(p, t) /\ Goto(p, "delExpired")
    BY <1>4, <2>1, <2>2 DEF Expired
  <2>3. CASE Live(t) /\ Goto(p, "claim")
    BY <1>4, <2>1, <2>3 DEF Live
  <2> QED
    BY <1>2, <1>3, <1>7, <2>2, <2>3 DEF Find
<1>8. CASE Claim(p)
  <2>1. req[p].pc = "claim"
    BY <1>8 DEF Claim
  <2>2. CASE Goto(p, "reread")
    BY <1>4, <2>1, <2>2
  <2> QED
    BY <1>5, <1>8, <2>2 DEF Claim
<1> QED
  BY <1>2, <1>3, <1>6, <1>7, <1>8 DEF Reread

\* A new request has locked nothing; the token it presents was issued by now.
LEMMA BeginSound ==
  ASSUME IInv, Heirs, NEW p \in Procs,
         \/ p \in Logins /\ \E u \in Users : LoginRead(p, u)
         \/ p \in AccountOps /\ \E u \in Users : BeginAccountOp(p, u)
         \/ p \in Refreshers /\ \E t \in Tokens : BeginRefresh(p, t)
         \/ p \in Logouts /\ \E t \in Tokens : BeginLogout(p, t)
  PROVE  Sound(p)' /\ \A q \in Procs \ {p} : req'[q] = req[q]
<1>0. \A q \in Procs \ {p} : req'[q] = req[q]
  BY DEF IInv, TypeOK, LoginRead, BeginAccountOp, BeginRefresh, BeginLogout
<1>1. UNCHANGED <<clock, rows, tbl>> /\ clock \in Nat
  BY DEF IInv, TypeOK, LoginRead, BeginAccountOp, BeginRefresh, BeginLogout
<1>2. CASE p \in Logins /\ \E u \in Users : LoginRead(p, u)
  <2>1. req'[p].pc = "create" /\ req'[p].held = {}
    <3>1. PICK u \in Users : LoginRead(p, u)
      BY <1>2
    <3>2. req'[p] = [Idle EXCEPT !.pc = "create", !.user = u, !.epoch = account[u].epoch]
      BY <3>1 DEF LoginRead, IInv, TypeOK
    <3> QED
      BY <3>2 DEF Idle
  <2>2. p \notin Refreshers \cup Logouts
    BY <1>2, RolesAssumption
  <2> QED
    BY <1>0, <1>2, <2>1, <2>2
       DEF Sound, KindOf, Presented, Timed, Locks, Judged, Aimed
<1>3. CASE p \in AccountOps /\ \E u \in Users : BeginAccountOp(p, u)
  <2>1. req'[p].pc = "revoke" /\ req'[p].held = {}
    <3>1. PICK u \in Users : BeginAccountOp(p, u)
      BY <1>3
    <3> DEFINE F == {tbl[t].family : t \in {r \in rows : tbl[r].user = u}}
    <3>2. req'[p] = [Idle EXCEPT !.pc = "revoke", !.user = u, !.now = clock, !.doomed = F]
      BY <3>1 DEF BeginAccountOp, IInv, TypeOK
    <3> HIDE DEF F
    <3> QED
      BY <3>2 DEF Idle
  <2>2. p \notin Refreshers \cup Logouts
    BY <1>3, RolesAssumption
  <2> QED
    BY <1>0, <1>3, <2>1, <2>2
       DEF Sound, KindOf, Presented, Timed, Locks, Judged, Aimed
<1>4. CASE p \in Refreshers /\ \E t \in Tokens : BeginRefresh(p, t)
  <2>1. /\ req'[p].pc = "find" /\ req'[p].held = {} /\ req'[p].now = clock
        /\ req'[p].tok \in Known
    <3>1. PICK t \in Tokens : BeginRefresh(p, t)
      BY <1>4
    <3>2. req'[p] = [Idle EXCEPT !.pc = "find", !.tok = t, !.now = clock] /\ t \in Known
      BY <3>1 DEF BeginRefresh, IInv, TypeOK
    <3> QED
      BY <3>2 DEF Idle
  <2>2. KindOf(p)' /\ Locks(p)' /\ Judged(p)' /\ Aimed(p)'
    BY <1>4, <2>1 DEF KindOf, Locks, Judged, Aimed, Labels
  <2>3. Presented(p)' /\ Timed(p)'
    BY <1>1, <2>1, BoundsAssumption DEF Presented, Timed, Known, Heirs
  <2> QED
    BY <1>0, <2>2, <2>3 DEF Sound
<1>5. CASE p \in Logouts /\ \E t \in Tokens : BeginLogout(p, t)
  <2>1. req'[p].pc = "lookup" /\ req'[p].held = {} /\ req'[p].tok \in Known
    <3>1. PICK t \in Tokens : BeginLogout(p, t)
      BY <1>5
    <3>2. req'[p] = [Idle EXCEPT !.pc = "lookup", !.tok = t] /\ t \in Known
      BY <3>1 DEF BeginLogout, IInv, TypeOK
    <3> QED
      BY <3>2 DEF Idle
  <2>2. p \notin Refreshers
    BY <1>5, RolesAssumption
  <2> QED
    BY <1>0, <1>1, <1>5, <2>1, <2>2
       DEF Sound, KindOf, Presented, Timed, Locks, Judged, Aimed, Known
<1> QED
  BY <1>2, <1>3, <1>4, <1>5

\* Logout found its token: it revokes that token's login, and has locked nothing.
LEMMA LookupSound ==
  ASSUME IInv, NEW p \in Logouts, Sound(p), Lookup(p)
  PROVE  Sound(p)' /\ \A q \in Procs \ {p} : req'[q] = req[q]
<1>1. p \in Procs /\ p \notin Refreshers
  BY RolesAssumption DEF Procs
<1>2. CASE Finish(p)
  BY <1>1, <1>2, FinishSound
<1>3. CASE ~Finish(p)
  <2>1. /\ req[p].pc = "lookup" /\ req'[p].pc = "revoke"
        /\ req'[p].tok = req[p].tok /\ req'[p].held = req[p].held
        /\ \A q \in Procs \ {p} : req'[q] = req[q]
    BY <1>1, <1>3 DEF Lookup, IInv, TypeOK, Request
  <2>2. req[p].held = {} /\ req[p].tok \in Known
    BY <2>1 DEF Sound, Locks, Presented
  <2> QED
    BY <1>1, <2>1, <2>2
       DEF Lookup, Sound, KindOf, Presented, Timed, Locks, Judged, Aimed, Known
<1> QED
  BY <1>2, <1>3

\* A step inside a revocation that keeps the request's token, user and start
\* leaves everything but its aim as it was.
LEMMA RevokerSound ==
  ASSUME NEW p \in Procs, Sound(p), UNCHANGED <<clock, tbl>>,
         req[p].pc \in {"revoke", "delete"}, req'[p].pc \in {"revoke", "delete"},
         req'[p].tok = req[p].tok, req'[p].now = req[p].now,
         req'[p].user = req[p].user, Aimed(p)'
  PROVE  Sound(p)'
<1>1. KindOf(p)' /\ Locks(p)'
  BY KindsExclude DEF Sound, KindOf, Locks, Labels, Procs
<1>2. Presented(p)' /\ Timed(p)' /\ Judged(p)'
  BY DEF Sound, Presented, Timed, Judged, Known
<1> QED
  BY <1>1, <1>2 DEF Sound

\* A row matches the WHERE clause of a revocation iff its successor does.
LEMMA HeirsMatch ==
  ASSUME IInv, Heirs, NEW p \in Procs, NEW t \in rows,
         tbl[t].successor \in Tokens, tbl[t].rotatedAt # Null
  PROVE  Matches(p, t) <=> Matches(p, tbl[t].successor)
<1>1. t \in Known
  BY RowsAreKnown
<1>2. tbl[tbl[t].successor].family = tbl[t].family /\ tbl[tbl[t].successor].user = tbl[t].user
  BY <1>1 DEF Heirs, Heir
<1> QED
  BY <1>2 DEF Matches

\* The DELETE starts: what it will visit, with what it has deleted, holds every
\* row whose successor it holds.
LEMMA StartPassSound ==
  ASSUME IInv, Heirs, HeirsRotated, NEW p \in Procs, Sound(p), StartPass(p)
  PROVE  Sound(p)' /\ \A q \in Procs \ {p} : req'[q] = req[q]
<1> DEFINE T == {t \in rows \ req[p].held : Matches(p, t)}
           r == [req[p] EXCEPT !.pc = "delete", !.hit = FALSE, !.todo = T]
<1>1. req'[p] = r /\ \A q \in Procs \ {p} : req'[q] = req[q]
  BY DEF StartPass, IInv, TypeOK
<1>2. /\ req'[p].pc = "delete" /\ req'[p].tok = req[p].tok /\ req'[p].now = req[p].now
      /\ req'[p].user = req[p].user /\ req'[p].held = req[p].held /\ req'[p].todo = T
  <2> HIDE DEF T
  <2>1. req[p] \in Request
    BY DEF IInv, TypeOK
  <2> QED
    BY <1>1, <2>1 DEF Request
<1>3. UNCHANGED <<clock, rows, tbl>> /\ req[p].pc = "revoke"
  BY DEF StartPass
<1>4. \A t : Matches(p, t)' <=> Matches(p, t)
  BY <1>2, <1>3 DEF Matches
<1>5. req[p].held \subseteq Tokens /\ \A t \in req[p].held : Matches(p, t)
  BY <1>3 DEF Sound, Aimed, IInv, TypeOK, Request
<1>6. T \subseteq Known /\ \A t \in T : Matches(p, t)
  BY RowsAreKnown
<1>7. ASSUME NEW t \in rows, tbl[t].successor \in req[p].held \cup T
      PROVE  t \in req[p].held \cup T
  <2>1. tbl[t].successor \in Tokens /\ Matches(p, tbl[t].successor)
    BY <1>5, <1>6, <1>7 DEF Known
  <2>2. tbl[t].rotatedAt # Null
    BY <2>1, NullAssumption DEF HeirsRotated, IInv, TypeOK
  <2>3. Matches(p, t)
    BY <2>1, <2>2, HeirsMatch
  <2> QED
    BY <2>3
<1> HIDE DEF T, r
<1>8. Aimed(p)'
  BY <1>2, <1>3, <1>4, <1>5, <1>6, <1>7 DEF Aimed, Known
<1> QED
  BY <1>1, <1>2, <1>3, <1>8, RevokerSound

\* The DELETE reaches a row: it keeps it among the deleted, if it is still there.
LEMMA DeleteRowSound ==
  ASSUME IInv, NEW p \in Procs, NEW t \in Tokens, Sound(p), DeleteRow(p, t)
  PROVE  Sound(p)' /\ \A q \in Procs \ {p} : req'[q] = req[q]
<1> DEFINE H == IF t \in rows THEN req[p].held \cup {t} ELSE req[p].held
           r == [req[p] EXCEPT !.todo = req[p].todo \ {t}, !.held = H,
                               !.hit = req[p].hit \/ t \in rows]
<1>1. req'[p] = r /\ \A q \in Procs \ {p} : req'[q] = req[q]
  BY DEF DeleteRow, IInv, TypeOK
<1>2. /\ req'[p].pc = req[p].pc /\ req'[p].tok = req[p].tok /\ req'[p].now = req[p].now
      /\ req'[p].user = req[p].user /\ req'[p].held = H
      /\ req'[p].todo = req[p].todo \ {t}
  <2> HIDE DEF H
  <2>1. req[p] \in Request
    BY DEF IInv, TypeOK
  <2> QED
    BY <1>1, <2>1 DEF Request
<1>3. UNCHANGED <<clock, rows, tbl>> /\ req[p].pc = "delete" /\ t \in req[p].todo
  BY DEF DeleteRow
<1>4. \A x : Matches(p, x)' <=> Matches(p, x)
  BY <1>2, <1>3 DEF Matches
<1>5. /\ \A x \in req[p].held \cup req[p].todo : Matches(p, x)
      /\ req[p].todo \subseteq Known
      /\ \A x \in rows : tbl[x].successor \in req[p].held \cup req[p].todo
           => x \in req[p].held \cup req[p].todo
  BY <1>3 DEF Sound, Aimed
<1>6. \A x \in H : Matches(p, x)
  BY <1>3, <1>5
<1>7. \A x \in rows : tbl[x].successor \in H \cup (req[p].todo \ {t})
        => x \in H \cup (req[p].todo \ {t})
  BY <1>3, <1>5
<1> HIDE DEF H, r
<1>8. Aimed(p)'
  BY <1>2, <1>3, <1>4, <1>5, <1>6, <1>7 DEF Aimed, Known
<1> QED
  BY <1>1, <1>2, <1>3, <1>8, RevokerSound

\* A pass ended: the request forgets what it deleted only if that is committed.
LEMMA EndPassSound ==
  ASSUME IInv, NEW p \in Procs, Sound(p), EndPass(p)
  PROVE  Sound(p)' /\ \A q \in Procs \ {p} : req'[q] = req[q]
<1>1. CASE Finish(p)
  BY <1>1, FinishSound
<1>2. CASE ~Finish(p)
  <2> DEFINE H == IF p \in Logouts THEN {} ELSE req[p].held
             r == [req[p] EXCEPT !.pc = "revoke", !.round = req[p].round + 1, !.held = H]
  <2>1. req'[p] = r /\ \A q \in Procs \ {p} : req'[q] = req[q]
    BY <1>2 DEF EndPass, IInv, TypeOK
  <2>2. /\ req'[p].pc = "revoke" /\ req'[p].tok = req[p].tok
        /\ req'[p].now = req[p].now /\ req'[p].user = req[p].user /\ req'[p].held = H
    <3> HIDE DEF H
    <3>1. req[p] \in Request
      BY DEF IInv, TypeOK
    <3> QED
      BY <2>1, <3>1 DEF Request
  <2>3. UNCHANGED <<clock, tbl>> /\ req[p].pc = "delete"
    BY DEF EndPass
  <2>4. \A t \in H : Matches(p, t)
    BY <2>3 DEF Sound, Aimed
  <2>5. \A t : Matches(p, t)' <=> Matches(p, t)
    BY <2>2, <2>3 DEF Matches
  <2> HIDE DEF H, r
  <2>6. Aimed(p)'
    BY <2>2, <2>4, <2>5 DEF Aimed
  <2> QED
    BY <2>1, <2>2, <2>3, <2>6, RevokerSound
<1> QED
  BY <1>1, <1>2

-----------------------------------------------------------------------------
\* A step that writes no columns keeps the order of expiry along the successors.
LEMMA QuietHeirs ==
  ASSUME Heirs, HeirsRotated, UNCHANGED <<clock, tbl>>
  PROVE  Heirs' /\ HeirsRotated'
BY DEF Heirs, Heir, HeirsRotated, Known

\* A deletion keeps SuccessorKept if each row it removes has expired or goes
\* together with the row it succeeded.
LEMMA DeletionKeeps ==
  ASSUME SuccessorKept, UNCHANGED <<clock, tbl>>, rows' \subseteq rows,
         \A t \in rows' : /\ tbl[t].rotatedAt # Null
                          /\ tbl[t].expiresAt > clock
                          /\ tbl[t].successor \in rows
                          => tbl[t].successor \in rows'
  PROVE  SuccessorKept'
BY DEF SuccessorKept

\* A row that has expired is no longer the successor of an unexpired one.
LEMMA ExpiredHeirs ==
  ASSUME IInv, Heirs, NEW t \in rows, tbl[t].rotatedAt # Null,
         tbl[t].expiresAt > clock
  PROVE  tbl[tbl[t].successor].expiresAt > clock
<1>1. t \in Known /\ clock \in Nat
  BY RowsAreKnown DEF IInv, TypeOK
<1>2. tbl[t].expiresAt <= tbl[tbl[t].successor].expiresAt /\ tbl[t].successor \in Tokens
  BY <1>1 DEF Heirs, Heir, Known
<1>3. tbl[t].expiresAt \in Nat /\ tbl[tbl[t].successor].expiresAt \in Nat
  BY <1>2 DEF IInv, TypeOK, Columns
<1> QED
  BY <1>1, <1>2, <1>3

\* The deletion of a token its presenter found expired.
LEMMA DeleteExpiredKeeps ==
  ASSUME JInv, NEW p \in Refreshers, DeleteExpired(p)
  PROVE  /\ tbl[req[p].tok].expiresAt <= clock
         /\ SuccessorKept'
<1> DEFINE x == req[p].tok
<1>1. p \in Procs /\ req[p].pc = "delExpired" /\ Sound(p)
  BY DEF JInv, DeleteExpired, Procs
<1>2. tbl[x].expiresAt <= req[p].now /\ req[p].now <= clock /\ x \in Tokens
  BY <1>1 DEF Sound, Judged, Timed, Presented, Known
<1>3. tbl[x].expiresAt <= clock
  BY <1>1, <1>2 DEF JInv, IInv, TypeOK, Request, Columns
<1>4. ASSUME NEW t \in rows', tbl[t].rotatedAt # Null, tbl[t].expiresAt > clock,
             tbl[t].successor \in rows
      PROVE  tbl[t].successor \in rows'
  <2>1. t \in rows
    BY DEF DeleteExpired
  <2>2. tbl[tbl[t].successor].expiresAt > clock
    BY <1>4, <2>1, ExpiredHeirs DEF JInv
  <2>3. tbl[t].successor # x
    BY <1>2, <1>3, <2>2 DEF JInv, IInv, TypeOK, Columns
  <2> QED
    BY <1>4, <2>3 DEF DeleteExpired
<1> QED
  BY <1>3, <1>4, DeletionKeeps DEF DeleteExpired, JInv

LEMMA CleanupKeeps ==
  ASSUME JInv, CleanupExpired
  PROVE  /\ \A x \in rows \ rows' : tbl[x].expiresAt <= clock
         /\ SuccessorKept'
<1>1. PICK before \in 0..clock : rows' = rows \ {t \in rows : tbl[t].expiresAt < before}
  BY DEF CleanupExpired
<1>2. clock \in Nat /\ \A x \in rows : tbl[x].expiresAt \in Nat
  BY DEF JInv, IInv, TypeOK, Columns
<1>3. \A x \in rows \ rows' : tbl[x].expiresAt <= clock
  BY <1>1, <1>2
<1>4. ASSUME NEW t \in rows', tbl[t].rotatedAt # Null, tbl[t].expiresAt > clock,
             tbl[t].successor \in rows
      PROVE  tbl[t].successor \in rows'
  <2>1. t \in rows
    BY <1>1
  <2>2. tbl[tbl[t].successor].expiresAt > clock
    BY <1>4, <2>1, ExpiredHeirs DEF JInv
  <2> QED
    BY <1>2, <1>3, <1>4, <2>2
<1> QED
  BY <1>1, <1>3, <1>4, DeletionKeeps DEF CleanupExpired, JInv

\* A DELETE that has visited all its rows holds the predecessors of those it
\* holds: committing it leaves no rotated row without its successor.
LEMMA CommitKeeps ==
  ASSUME JInv, NEW p \in Procs, EndRevocation(p) \/ EndPass(p)
  PROVE  SuccessorKept'
<1>1. /\ req[p].pc = "delete" /\ req[p].todo = {} /\ Sound(p)
      /\ UNCHANGED <<clock, tbl>> /\ (rows' = rows \/ rows' = rows \ req[p].held)
  BY DEF JInv, EndRevocation, EndPass
<1>2. \A t \in rows : tbl[t].successor \in req[p].held => t \in req[p].held
  BY <1>1 DEF Sound, Aimed
<1>3. ASSUME NEW t \in rows', tbl[t].successor \in rows
      PROVE  tbl[t].successor \in rows'
  BY <1>1, <1>2, <1>3
<1> QED
  BY <1>1, <1>3, DeletionKeeps DEF JInv

-----------------------------------------------------------------------------
\* A login writes one new row, of a login of its own.
LEMMA LoginWrites ==
  ASSUME JInv, NEW p \in Procs, LoginCreate(p), TypeOK'
  PROVE  TableStep /\ Heirs' /\ HeirsRotated' /\ SuccessorKept'
<1>1. PICK t \in Fresh :
        /\ rows' = rows \cup {t}
        /\ tbl' = [tbl EXCEPT ![t] =
                    [user |-> req[p].user, family |-> t,
                     expiresAt |-> ExpiryOf(clock), rotatedAt |-> Null,
                     successor |-> Null, epoch |-> req[p].epoch]]
  BY DEF LoginCreate
<1>2. t \in Tokens /\ t \notin Known /\ Null \notin Tokens
  BY NullAssumption DEF Fresh
<1>3. /\ tbl'[t].family = t /\ tbl'[t].rotatedAt = Null /\ tbl'[t].successor = Null
      /\ tbl'[t].expiresAt = ExpiryOf(clock)
      /\ \A u \in Tokens \ {t} : tbl'[u] = tbl[u]
  BY <1>1, <1>2 DEF JInv, IInv, TypeOK
<1>4. clock' = clock /\ rows \subseteq Known /\ Known \subseteq Tokens
  BY RowsAreKnown DEF LoginCreate, JInv
<1>5. \A u \in Known : tbl'[u] = tbl[u]
  BY <1>2, <1>3, <1>4
<1>6. Known' = Known \cup {t}
  BY <1>2, <1>3 DEF Known
<1>7. TableStep
  <2>1. \A u \in rows' : \/ u \in rows /\ tbl'[u].successor = tbl[u].successor
                         \/ tbl'[u].successor \notin Known
    BY <1>1, <1>2, <1>3, <1>4, <1>5
  <2> QED
    BY <1>4, <1>5, <2>1 DEF TableStep
<1>8. Heirs'
  <2>1. \A u \in Known : (tbl[u].expiresAt <= ExpiryOf(clock) /\ Heir(u))'
    <3> SUFFICES ASSUME NEW u \in Known
                 PROVE  (tbl[u].expiresAt <= ExpiryOf(clock) /\ Heir(u))'
      OBVIOUS
    <3>1. tbl[u].expiresAt <= ExpiryOf(clock) /\ Heir(u)
      BY DEF JInv, Heirs
    <3> QED
      BY <1>4, <1>5, <1>6, <3>1 DEF Heir, ExpiryOf
  <2>2. (tbl[t].expiresAt <= ExpiryOf(clock) /\ Heir(t))'
    <3>1. ExpiryOf(clock) \in Nat
      BY BoundsAssumption DEF ExpiryOf, JInv, IInv, TypeOK
    <3> QED
      BY <1>3, <1>4, <3>1 DEF Heir, ExpiryOf
  <2> QED
    BY <1>6, <2>1, <2>2 DEF Heirs
<1>9. HeirsRotated'
  BY <1>2, <1>3 DEF JInv, HeirsRotated
<1>10. SuccessorKept'
  BY <1>1, <1>3, <1>4, <1>5 DEF JInv, SuccessorKept
<1> QED
  BY <1>7, <1>8, <1>9, <1>10

\* A rotation writes the new row and marks the old one, which was live until now.
LEMMA RotationWrites ==
  ASSUME JInv, NEW p \in Refreshers, InsertSuccessor(p), TypeOK'
  PROVE  TableStep /\ Heirs' /\ HeirsRotated' /\ SuccessorKept'
<1>0. p \in Procs
  BY DEF Procs
<1>1. PICK s, t \in Tokens : s # t /\ Rotates(p, t, s)
  BY <1>0, Rotation DEF JInv
<1>2. /\ t = req[p].tok /\ t \in rows /\ rows' = rows \cup {s} /\ tbl[s].family = Null
      /\ tbl[t].rotatedAt = Null /\ tbl[t].family # Null /\ req[p].now # Null
      /\ \A u \in Tokens \ {s, t} : tbl'[u] = tbl[u]
  BY <1>1 DEF Rotates
<1>3. /\ tbl'[s].user = tbl[t].user /\ tbl'[s].family = tbl[t].family
      /\ tbl'[s].expiresAt = ExpiryOf(req[p].now)
      /\ tbl'[s].rotatedAt = Null /\ tbl'[s].successor = Null
      /\ tbl'[t].user = tbl[t].user /\ tbl'[t].family = tbl[t].family
      /\ tbl'[t].expiresAt = tbl[t].expiresAt
      /\ tbl'[t].rotatedAt = req[p].now /\ tbl'[t].successor = s
  BY <1>0, <1>1, RotatedFields DEF JInv
<1>4. /\ clock' = clock /\ clock \in Nat /\ req[p].now \in Nat
      /\ rows \subseteq Known /\ Known \subseteq Tokens
  BY <1>0, RowsAreKnown DEF InsertSuccessor, JInv, IInv, TypeOK, Request
<1>5. s \notin Known /\ t \in Known /\ Known' = Known \cup {s} /\ Null \notin Tokens
  BY <1>2, <1>3, NullAssumption DEF Known
<1>6. /\ req[p].now <= clock /\ clock - req[p].now <= TxLimit
      /\ tbl[t].expiresAt <= ExpiryOf(req[p].now)
  <2>1. Sound(p) /\ req[p].pc # "idle"
    BY <1>0 DEF JInv, InsertSuccessor
  <2> QED
    BY <1>2, <2>1 DEF Sound, Timed
<1>7. TableStep
  <2>1. \A u \in rows' : \/ u \in rows /\ tbl'[u].successor = tbl[u].successor
                         \/ tbl'[u].successor \notin Known
    BY <1>2, <1>3, <1>4, <1>5
  <2>2. ASSUME NEW u \in Known
        PROVE  /\ tbl'[u].family = tbl[u].family
               /\ tbl'[u].user = tbl[u].user
               /\ tbl'[u].expiresAt = tbl[u].expiresAt
               /\ tbl[u].rotatedAt # Null => /\ tbl'[u].rotatedAt = tbl[u].rotatedAt
                                             /\ tbl'[u].successor = tbl[u].successor
               /\ tbl[u].rotatedAt = Null /\ tbl'[u].rotatedAt # Null
                    => clock - tbl'[u].rotatedAt <= TxLimit
    <3>1. CASE u = t
      BY <1>2, <1>3, <1>6, <3>1
    <3>2. CASE u # t
      BY <1>2, <1>4, <1>5, <3>2
    <3> QED
      BY <3>1, <3>2
  <2> QED
    BY <1>4, <2>1, <2>2 DEF TableStep
<1>8. Heirs'
  <2>1. ASSUME NEW u \in Known, u # t
        PROVE  (tbl[u].expiresAt <= ExpiryOf(clock) /\ Heir(u))'
    <3>1. tbl[u].expiresAt <= ExpiryOf(clock) /\ Heir(u)
      BY DEF JInv, Heirs
    <3>2. tbl'[u] = tbl[u]
      BY <1>2, <1>4, <1>5, <2>1
    <3>3. \A x \in Known : /\ tbl'[x].family = tbl[x].family /\ tbl'[x].user = tbl[x].user
                           /\ tbl'[x].expiresAt = tbl[x].expiresAt
      BY <1>7 DEF TableStep
    <3> QED
      BY <1>4, <1>5, <3>1, <3>2, <3>3 DEF Heir, ExpiryOf
  <2>2. (tbl[t].expiresAt <= ExpiryOf(clock) /\ Heir(t))'
    <3>1. tbl[t].expiresAt <= ExpiryOf(clock)
      BY <1>5 DEF JInv, Heirs
    <3> QED
      BY <1>3, <1>4, <1>5, <1>6, <3>1 DEF Heir, ExpiryOf
  <2>3. (tbl[s].expiresAt <= ExpiryOf(clock) /\ Heir(s))'
    BY <1>3, <1>4, <1>6, BoundsAssumption DEF Heir, ExpiryOf
  <2> QED
    BY <1>5, <2>1, <2>2, <2>3 DEF Heirs
<1>9. HeirsRotated'
  BY <1>2, <1>3 DEF JInv, HeirsRotated
<1>10. SuccessorKept'
  <2> SUFFICES ASSUME NEW u \in rows', tbl'[u].rotatedAt # Null, tbl'[u].expiresAt > clock'
               PROVE  tbl'[u].successor \in rows'
    BY DEF SuccessorKept
  <2>1. CASE u = t
    BY <1>2, <1>3, <2>1
  <2>2. CASE u # t
    <3>1. u # s /\ u \in rows /\ tbl'[u] = tbl[u]
      BY <1>2, <1>3, <1>4, <2>2
    <3> QED
      BY <1>2, <1>4, <3>1 DEF JInv, SuccessorKept
  <2> QED
    BY <2>1, <2>2
<1> QED
  BY <1>7, <1>8, <1>9, <1>10

-----------------------------------------------------------------------------
\* A step of one request that writes no columns keeps the invariant if it keeps
\* what the request knows and commits only deletions that keep the successors.
LEMMA ActorStep ==
  ASSUME JInv, IInv', NEW p \in Procs, TableStep, Sound(p)',
         \A q \in Procs \ {p} : req'[q] = req[q],
         Heirs' /\ HeirsRotated' /\ SuccessorKept'
  PROVE  JInv'
<1>1. TypeOK'
  BY DEF IInv
<1>2. \A q \in Procs \ {p} : Sound(q)'
  BY <1>1, OtherSound DEF JInv
<1> QED
  BY <1>2 DEF JInv

LEMMA ReadingStep ==
  ASSUME JInv, IInv', NEW p \in Procs, UNCHANGED <<clock, rows, tbl>>, Sound(p)',
         \A q \in Procs \ {p} : req'[q] = req[q]
  PROVE  JInv'
<1>1. TableStep /\ Heirs' /\ HeirsRotated'
  BY QuietTable, QuietHeirs DEF JInv
<1>2. SuccessorKept'
  BY DEF JInv, SuccessorKept
<1> QED
  BY <1>1, <1>2, ActorStep

LEMMA DeletingStep ==
  ASSUME JInv, IInv', NEW p \in Procs, UNCHANGED <<clock, tbl>>, rows' \subseteq rows,
         Sound(p)', \A q \in Procs \ {p} : req'[q] = req[q], SuccessorKept'
  PROVE  JInv'
<1>1. TableStep /\ Heirs' /\ HeirsRotated'
  BY QuietTable, QuietHeirs DEF JInv
<1> QED
  BY <1>1, ActorStep

\* Time passes: no interactive transaction outlives its limit.
LEMMA TickJInv ==
  ASSUME JInv, IInv', Tick
  PROVE  JInv'
<1>1. clock' = clock + 1 /\ clock \in Nat /\ UNCHANGED <<rows, tbl, req>>
  BY DEF Tick, JInv, IInv, TypeOK
<1>2. Heirs' /\ HeirsRotated'
  <2>1. \A t \in Known : tbl[t].expiresAt \in Nat
    BY DEF Known, JInv, IInv, TypeOK, Columns
  <2> QED
    BY <1>1, <2>1, BoundsAssumption DEF JInv, Heirs, Heir, HeirsRotated, Known, ExpiryOf
<1>3. SuccessorKept'
  <2>1. \A t \in rows : tbl[t].expiresAt \in Nat
    BY DEF JInv, IInv, TypeOK, Columns
  <2> QED
    BY <1>1, <2>1 DEF JInv, SuccessorKept
<1>4. ASSUME NEW q \in Procs PROVE Sound(q)'
  <2>1. Sound(q) /\ req[q].now \in Nat
    BY DEF JInv, IInv, TypeOK, Request
  <2>2. KindOf(q)' /\ Presented(q)' /\ Locks(q)' /\ Judged(q)'
    BY <1>1, <2>1 DEF Sound, KindOf, Presented, Locks, Judged, Known
  <2>3. Aimed(q)'
    BY <1>1, <2>1 DEF Sound, Aimed, Matches, Known
  <2>4. Timed(q)'
    <3> SUFFICES ASSUME q \in Refreshers, req[q].pc # "idle" PROVE Timed(q)'
      BY <1>1 DEF Timed
    <3>1. clock - req[q].now < TxLimit
      BY DEF Tick
    <3> QED
      BY <1>1, <2>1, <3>1, BoundsAssumption DEF Sound, Timed
  <2> QED
    BY <2>2, <2>3, <2>4 DEF Sound
<1> QED
  BY <1>2, <1>3, <1>4 DEF JInv

\* Cleanup and an admin's password edit move no request.
LEMMA BackgroundJInv ==
  ASSUME JInv, IInv', CleanupExpired \/ (\E u \in Users : AdminSetPassword(u))
  PROVE  JInv'
<1>1. UNCHANGED <<clock, tbl, req>> /\ rows' \subseteq rows
  BY DEF CleanupExpired, AdminSetPassword
<1>2. TableStep /\ Heirs' /\ HeirsRotated' /\ TypeOK'
  BY <1>1, QuietTable, QuietHeirs DEF JInv, IInv
<1>3. \A q \in Procs : Sound(q)'
  BY <1>1, <1>2, OtherSound DEF JInv
<1>4. SuccessorKept'
  <2>1. CASE \E u \in Users : AdminSetPassword(u)
    BY <2>1 DEF AdminSetPassword, JInv, SuccessorKept
  <2> QED
    BY <2>1, CleanupKeeps
<1> QED
  BY <1>2, <1>3, <1>4 DEF JInv

\* Every step keeps the invariant.
LEMMA NextJInv == JInv /\ [Next]_vars => JInv'
<1> SUFFICES ASSUME JInv, [Next]_vars PROVE JInv'
  OBVIOUS
<1>0. IInv /\ IInv' /\ TypeOK' /\ Heirs /\ HeirsRotated
  BY NextIInv DEF JInv, IInv
<1>1. \A q \in Procs : Sound(q)
  BY DEF JInv
<1>2. ASSUME NEW p \in Logins, LoginCreate(p) \/ \E u \in Users : LoginRead(p, u)
      PROVE  JInv'
  <2>1. p \in Procs
    BY DEF Procs
  <2>2. CASE LoginCreate(p)
    <3>1. Sound(p)' /\ \A q \in Procs \ {p} : req'[q] = req[q]
      BY <1>0, <2>1, <2>2, FinishSound DEF LoginCreate
    <3>2. TableStep /\ Heirs' /\ HeirsRotated' /\ SuccessorKept'
      BY <1>0, <2>1, <2>2, LoginWrites
    <3> QED
      BY <1>0, <2>1, <3>1, <3>2, ActorStep
  <2>3. CASE \E u \in Users : LoginRead(p, u)
    <3>1. Sound(p)' /\ \A q \in Procs \ {p} : req'[q] = req[q]
      BY <1>0, <2>1, <2>3, BeginSound
    <3>2. UNCHANGED <<clock, rows, tbl>>
      BY <2>3 DEF LoginRead
    <3> QED
      BY <1>0, <2>1, <3>1, <3>2, ReadingStep
  <2> QED
    BY <1>2, <2>2, <2>3
<1>3. ASSUME NEW p \in Refreshers,
             RefreshStep(p) \/ \E t \in Tokens : BeginRefresh(p, t)
      PROVE  JInv'
  <2>1. p \in Procs
    BY DEF Procs
  <2>2. CASE Find(p) \/ Claim(p) \/ Reread(p) \/ Hop(p)
    <3>1. Sound(p)' /\ \A q \in Procs \ {p} : req'[q] = req[q]
      BY <1>0, <1>1, <2>1, <2>2, RefreshSound
    <3>2. UNCHANGED <<clock, rows, tbl>>
      BY <2>2 DEF Find, Claim, Reread, Hop
    <3> QED
      BY <1>0, <2>1, <3>1, <3>2, ReadingStep
  <2>3. CASE \E t \in Tokens : BeginRefresh(p, t)
    <3>1. Sound(p)' /\ \A q \in Procs \ {p} : req'[q] = req[q]
      BY <1>0, <2>1, <2>3, BeginSound
    <3>2. UNCHANGED <<clock, rows, tbl>>
      BY <2>3 DEF BeginRefresh
    <3> QED
      BY <1>0, <2>1, <3>1, <3>2, ReadingStep
  <2>4. CASE DeleteExpired(p)
    <3>1. Sound(p)' /\ \A q \in Procs \ {p} : req'[q] = req[q]
      BY <1>0, <2>1, <2>4, FinishSound DEF DeleteExpired
    <3>2. UNCHANGED <<clock, tbl>> /\ rows' \subseteq rows
      BY <2>4 DEF DeleteExpired
    <3> QED
      BY <1>0, <2>1, <2>4, <3>1, <3>2, DeleteExpiredKeeps, DeletingStep
  <2>5. CASE InsertSuccessor(p)
    <3>1. Sound(p)' /\ \A q \in Procs \ {p} : req'[q] = req[q]
      BY <1>0, <2>1, <2>5, FinishSound DEF InsertSuccessor
    <3>2. TableStep /\ Heirs' /\ HeirsRotated' /\ SuccessorKept'
      BY <1>0, <2>5, RotationWrites
    <3> QED
      BY <1>0, <2>1, <3>1, <3>2, ActorStep
  <2> QED
    BY <1>3, <2>2, <2>3, <2>4, <2>5 DEF RefreshStep
<1>4. ASSUME NEW p \in Logouts, Lookup(p) \/ \E t \in Tokens : BeginLogout(p, t)
      PROVE  JInv'
  <2>1. p \in Procs
    BY DEF Procs
  <2>2. Sound(p)' /\ \A q \in Procs \ {p} : req'[q] = req[q]
    BY <1>0, <1>1, <1>4, <2>1, LookupSound, BeginSound
  <2>3. UNCHANGED <<clock, rows, tbl>>
    BY <1>4 DEF Lookup, BeginLogout
  <2> QED
    BY <1>0, <2>1, <2>2, <2>3, ReadingStep
<1>5. ASSUME NEW p \in AccountOps, NEW u \in Users, BeginAccountOp(p, u)
      PROVE  JInv'
  <2>1. p \in Procs
    BY DEF Procs
  <2>2. Sound(p)' /\ \A q \in Procs \ {p} : req'[q] = req[q]
    BY <1>0, <1>5, <2>1, BeginSound
  <2>3. UNCHANGED <<clock, rows, tbl>>
    BY <1>5 DEF BeginAccountOp
  <2> QED
    BY <1>0, <2>1, <2>2, <2>3, ReadingStep
<1>6. ASSUME NEW p \in Procs, RevokeStep(p) \/ Abort(p)
      PROVE  JInv'
  <2>1. CASE StartPass(p)
    <3>1. Sound(p)' /\ \A q \in Procs \ {p} : req'[q] = req[q]
      BY <1>0, <1>1, <2>1, StartPassSound
    <3>2. UNCHANGED <<clock, rows, tbl>>
      BY <2>1 DEF StartPass
    <3> QED
      BY <1>0, <3>1, <3>2, ReadingStep
  <2>2. ASSUME NEW t \in Tokens, DeleteRow(p, t)
        PROVE  JInv'
    <3>1. Sound(p)' /\ \A q \in Procs \ {p} : req'[q] = req[q]
      BY <1>0, <1>1, <2>2, DeleteRowSound
    <3>2. UNCHANGED <<clock, rows, tbl>>
      BY <2>2 DEF DeleteRow
    <3> QED
      BY <1>0, <3>1, <3>2, ReadingStep
  <2>3. CASE EndRevocation(p)
    <3>1. Sound(p)' /\ \A q \in Procs \ {p} : req'[q] = req[q]
      BY <1>0, <2>3, FinishSound DEF EndRevocation
    <3>2. UNCHANGED <<clock, tbl>> /\ rows' \subseteq rows
      BY <2>3 DEF EndRevocation
    <3> QED
      BY <1>0, <2>3, <3>1, <3>2, CommitKeeps, DeletingStep
  <2>4. CASE EndPass(p)
    <3>1. Sound(p)' /\ \A q \in Procs \ {p} : req'[q] = req[q]
      BY <1>0, <1>1, <2>4, EndPassSound
    <3>2. UNCHANGED <<clock, tbl>> /\ rows' \subseteq rows
      BY <2>4 DEF EndPass
    <3> QED
      BY <1>0, <2>4, <3>1, <3>2, CommitKeeps, DeletingStep
  <2>5. CASE Abort(p)
    <3>1. Sound(p)' /\ \A q \in Procs \ {p} : req'[q] = req[q]
      BY <1>0, <2>5, FinishSound DEF Abort
    <3>2. UNCHANGED <<clock, rows, tbl>>
      BY <2>5 DEF Abort
    <3> QED
      BY <1>0, <3>1, <3>2, ReadingStep
  <2> QED
    BY <1>6, <2>1, <2>2, <2>3, <2>4, <2>5 DEF RevokeStep
<1>7. CASE Tick
  BY <1>0, <1>7, TickJInv
<1>8. CASE CleanupExpired \/ (\E u \in Users : AdminSetPassword(u))
  BY <1>0, <1>8, BackgroundJInv
<1>9. CASE UNCHANGED vars
  <2>1. UNCHANGED <<clock, rows, tbl, req>>
    BY <1>9 DEF vars
  <2>2. TableStep /\ Heirs' /\ HeirsRotated' /\ SuccessorKept'
    BY <2>1, QuietTable, QuietHeirs DEF JInv, SuccessorKept
  <2>3. \A q \in Procs : Sound(q)'
    BY <1>0, <1>1, <2>1, <2>2, OtherSound
  <2> QED
    BY <1>0, <2>2, <2>3 DEF JInv
<1> QED
  BY <1>2, <1>3, <1>4, <1>5, <1>6, <1>7, <1>8, <1>9 DEF Next

LEMMA InitJInv == Init => JInv
<1> SUFFICES ASSUME Init PROVE JInv
  OBVIOUS
<1>1. IInv /\ Heirs /\ HeirsRotated /\ SuccessorKept
  BY InitIInv DEF Init, Heirs, HeirsRotated, SuccessorKept, Known, NoColumns
<1>2. ASSUME NEW p \in Procs PROVE Sound(p)
  <2>1. req[p] = Idle
    BY DEF Init
  <2> QED
    BY <2>1
       DEF Sound, KindOf, Presented, Timed, Locks, Judged, Aimed, Idle, Procs, Labels
<1> QED
  BY <1>1, <1>2 DEF JInv

LEMMA KnowledgeHolds == Spec => []JInv
<1>1. JInv /\ [Next]_vars => JInv'
  BY NextJInv
<1> QED
  BY InitJInv, <1>1, PTL DEF Spec

\* No order of revocations, expiry deletions, cleanups and aborts leaves an
\* unexpired rotated row whose successor has lost its row.
THEOREM SuccessorsKept == Spec => []SuccessorKept
<1>1. JInv => SuccessorKept
  BY DEF JInv
<1> QED
  BY KnowledgeHolds, <1>1, PTL

\* If the grace window is at least as long as an interactive transaction may
\* live, a request that lost the claim to a concurrent one is never taken for a
\* reuse.
THEOREM LostClaimsForgiven ==
  ASSUME TxLimit <= Grace
  PROVE  Spec => []LostClaimIsNotReuse
<1>1. JInv => LostClaimIsNotReuse
  <2> SUFFICES ASSUME JInv, NEW p \in Refreshers, req[p].pc = "reread",
                      req[p].tok \in rows, ~Live(req[p].tok)
               PROVE  req[p].now - tbl[req[p].tok].rotatedAt <= Grace
    BY DEF LostClaimIsNotReuse
  <2> DEFINE t == req[p].tok
  <2>1. p \in Procs /\ Sound(p)
    BY DEF JInv, Procs
  <2>2. tbl[t].rotatedAt # Null /\ req[p].now - tbl[t].rotatedAt <= TxLimit
    BY <2>1 DEF Live, Sound, Judged
  <2>3. tbl[t].rotatedAt \in Nat /\ req[p].now \in Nat
    BY <2>1, <2>2 DEF JInv, IInv, TypeOK, Columns, Request
  <2> QED
    BY <2>2, <2>3, BoundsAssumption
<1> QED
  BY KnowledgeHolds, <1>1, PTL

\* Only an expiry, or a request aimed at that very login or at all of its user's,
\* ends a login.
THEOREM OnlyTargetedEnd == Spec => OnlyTargetedLoginsEnd
<1> DEFINE Gone(t) ==
             \/ tbl[t].expiresAt <= clock
             \/ \E p \in Procs : RevokedBy(p, t) /\ req'[p].pc # "delete"
           A == \A t \in rows \ rows' : Live(t) => Gone(t)
<1>1. ASSUME JInv, [Next]_vars PROVE A
  <2>1. CASE rows \subseteq rows'
    BY <2>1
  <2>2. ASSUME NEW p \in Procs, EndRevocation(p) \/ EndPass(p) PROVE A
    <3>1. /\ req[p].pc = "delete" /\ rows \ rows' \subseteq req[p].held /\ Sound(p)
      BY <1>1, <2>2 DEF JInv, EndRevocation, EndPass
    <3>2. req'[p].pc # "delete"
      BY <1>1, <2>2 DEF EndRevocation, EndPass, Finish, Idle, JInv, IInv, TypeOK, Request
    <3>3. ASSUME NEW t \in req[p].held PROVE RevokedBy(p, t)
      <4>1. Matches(p, t)
        BY <3>1 DEF Sound, Aimed
      <4> QED
        BY <3>1, <4>1 DEF RevokedBy, Matches, Sound, Judged
    <3> QED
      BY <3>1, <3>2, <3>3
  <2>3. ASSUME NEW p \in Refreshers, DeleteExpired(p) PROVE A
    BY <1>1, <2>3, DeleteExpiredKeeps DEF DeleteExpired
  <2>4. CASE CleanupExpired
    BY <1>1, <2>4, CleanupKeeps
  <2> HIDE DEF A
  <2>5. ASSUME NEW p \in Procs, RevokeStep(p) \/ Abort(p) PROVE A
    BY <2>1, <2>2, <2>5 DEF RevokeStep, StartPass, DeleteRow, Abort
  <2>6. ASSUME NEW p \in Refreshers,
               RefreshStep(p) \/ \E t \in Tokens : BeginRefresh(p, t)
        PROVE  A
    BY <2>1, <2>3, <2>6
       DEF RefreshStep, Find, Claim, InsertSuccessor, Reread, Hop, BeginRefresh
  <2> QED
    BY <1>1, <2>1, <2>4, <2>5, <2>6
       DEF Next, LoginCreate, LoginRead, Lookup, BeginLogout, BeginAccountOp,
           AdminSetPassword, Tick, vars
<1>2. JInv /\ [Next]_vars => [A]_vars
  BY <1>1
<1> QED
  BY KnowledgeHolds, <1>2, PTL DEF Spec, OnlyTargetedLoginsEnd

-----------------------------------------------------------------------------
(***************************************************************************)
(* The sessions implement LoginSessions.                                   *)
(***************************************************************************)
\* The live row of a login is its newest token: now, and after a step.
LEMMA Newest ==
  ASSUME OneLivePerFamily, NEW t \in rows, Live(t), tbl[t].family \in Tokens
  PROVE  NewestToken[tbl[t].family] = t
<1> DEFINE f == tbl[t].family
           c == CHOOSE x \in rows : Live(x) /\ tbl[x].family = f
<1>1. \E x \in rows : Live(x) /\ tbl[x].family = f
  OBVIOUS
<1>2. c \in rows /\ Live(c) /\ tbl[c].family = f
  BY <1>1
<1>3. c = t
  <2> HIDE DEF c
  <2> QED
    BY <1>2 DEF OneLivePerFamily
<1>4. NewestToken[f] = c
  BY <1>1 DEF NewestToken
<1> QED
  BY <1>3, <1>4

LEMMA NewestNext ==
  ASSUME OneLivePerFamily', NEW t \in rows', tbl'[t].rotatedAt = Null,
         tbl'[t].family \in Tokens
  PROVE  NewestToken'[tbl'[t].family] = t
<1> DEFINE f == tbl'[t].family
           L(x) == x \in rows' /\ tbl'[x].rotatedAt = Null
           c == CHOOSE x \in rows' : L(x) /\ tbl'[x].family = f
<1>1. \E x \in rows' : L(x) /\ tbl'[x].family = f
  OBVIOUS
<1>2. c \in rows' /\ L(c) /\ tbl'[c].family = f
  <2> HIDE DEF L
  <2> QED
    BY <1>1
<1>3. \A x, y \in rows' : L(x) /\ L(y) /\ tbl'[x].family = tbl'[y].family => x = y
  BY DEF OneLivePerFamily, Live
<1>4. c = t
  <2> HIDE DEF c
  <2> QED
    BY <1>2, <1>3
<1>5. NewestToken'[f] = c
  BY <1>1 DEF NewestToken, Live
<1> QED
  BY <1>4, <1>5

\* Deleting rows ends the logins whose live row went, and touches no other.
LEMMA EndStep ==
  ASSUME IInv, IInv', tbl' = tbl, rows' \subseteq rows
  PROVE  Abstract!AbsNext
<1> DEFINE F == {f \in Tokens : ~ \E t \in rows' : tbl[t].rotatedAt = Null /\ tbl[t].family = f}
<1>1. ASSUME NEW f \in Tokens
      PROVE  NewestToken'[f] = IF f \in F THEN Null ELSE NewestToken[f]
  <2>1. CASE f \in F
    <3>1. NewestToken'[f] = Null
      BY <2>1 DEF NewestToken, Live
    <3> QED
      BY <2>1, <3>1
  <2>2. CASE f \notin F
    <3>1. PICK t \in rows' : tbl[t].rotatedAt = Null /\ tbl[t].family = f
      BY <2>2
    <3>2. t \in rows /\ Live(t) /\ tbl'[t].family = f
      BY <3>1 DEF Live
    <3>3. NewestToken[f] = t
      BY <3>1, <3>2, Newest DEF IInv
    <3>4. NewestToken'[f] = t
      <4>1. OneLivePerFamily'
        BY DEF IInv
      <4> QED
        BY <3>1, <3>2, <4>1, NewestNext
    <3> QED
      BY <2>2, <3>3, <3>4
  <2> QED
    BY <2>1, <2>2
<1>2. NewestToken' = [f \in Tokens |-> IF f \in F THEN Null ELSE NewestToken[f]]
  <2> HIDE DEF F
  <2> QED
    BY <1>1 DEF NewestToken
<1>3. Known' = Known
  BY DEF Known
<1> QED
  BY <1>2, <1>3 DEF Abstract!AbsNext, Abstract!End

\* A login whose live rows a step leaves alone keeps its newest token.
LEMMA SameLogin ==
  ASSUME IInv, IInv', NEW f \in Tokens,
         \A t : (t \in rows' /\ tbl'[t].rotatedAt = Null /\ tbl'[t].family = f)
                  <=> (t \in rows /\ tbl[t].rotatedAt = Null /\ tbl[t].family = f)
  PROVE  NewestToken'[f] = NewestToken[f]
<1>1. CASE \E t \in rows : tbl[t].rotatedAt = Null /\ tbl[t].family = f
  <2>1. PICK t \in rows : tbl[t].rotatedAt = Null /\ tbl[t].family = f
    BY <1>1
  <2>2. NewestToken[f] = t
    BY <2>1, Newest DEF IInv, Live
  <2>3. t \in rows' /\ tbl'[t].rotatedAt = Null /\ tbl'[t].family = f
    BY <2>1
  <2>4. OneLivePerFamily'
    BY DEF IInv
  <2>5. NewestToken'[f] = t
    BY <2>3, <2>4, NewestNext
  <2> QED
    BY <2>2, <2>5
<1>2. CASE ~ \E t \in rows : tbl[t].rotatedAt = Null /\ tbl[t].family = f
  <2>1. ~ \E t \in rows' : tbl'[t].rotatedAt = Null /\ tbl'[t].family = f
    BY <1>2
  <2>2. NewestToken[f] = Null
    BY <1>2 DEF NewestToken, Live
  <2>3. NewestToken'[f] = Null
    BY <2>1 DEF NewestToken, Live
  <2> QED
    BY <2>2, <2>3
<1> QED
  BY <1>1, <1>2

\* A login opens under a name that was never used.
LEMMA OpenStep ==
  ASSUME IInv, IInv', NEW p \in Procs, LoginCreate(p)
  PROVE  Abstract!AbsNext
<1>1. PICK t \in Fresh :
        /\ rows' = rows \cup {t}
        /\ tbl' = [tbl EXCEPT ![t] =
                    [user |-> req[p].user, family |-> t,
                     expiresAt |-> ExpiryOf(clock), rotatedAt |-> Null,
                     successor |-> Null, epoch |-> req[p].epoch]]
  BY DEF LoginCreate
<1>2. t \in Tokens /\ t \notin Known /\ Null \notin Tokens /\ tbl[t].family = Null
  BY NullAssumption DEF Fresh, Known
<1>3. /\ tbl'[t].family = t /\ tbl'[t].rotatedAt = Null
      /\ \A u \in Tokens \ {t} : tbl'[u] = tbl[u]
  BY <1>1, <1>2 DEF IInv, TypeOK
<1>4. Known' = Known \cup {t}
  BY <1>2, <1>3 DEF Known
<1>5. NewestToken'[t] = t
  <2>1. t \in rows' /\ OneLivePerFamily'
    BY <1>1 DEF IInv
  <2> QED
    BY <1>2, <1>3, <2>1, NewestNext
<1>6. ASSUME NEW f \in Tokens, f # t PROVE NewestToken'[f] = NewestToken[f]
  <2>1. \A u : (u \in rows' /\ tbl'[u].rotatedAt = Null /\ tbl'[u].family = f)
                 <=> (u \in rows /\ tbl[u].rotatedAt = Null /\ tbl[u].family = f)
    BY <1>1, <1>2, <1>3, <1>6 DEF IInv, TypeOK, RowsKnown
  <2> QED
    BY <1>6, <2>1, SameLogin
<1>7. NewestToken' = [NewestToken EXCEPT ![t] = t]
  <2>1. /\ NewestToken = [f \in Tokens |-> NewestToken[f]]
        /\ NewestToken' = [f \in Tokens |-> NewestToken'[f]]
    BY DEF NewestToken
  <2>2. DOMAIN NewestToken = Tokens
    BY <2>1
  <2>3. [NewestToken EXCEPT ![t] = t] = [f \in Tokens |-> IF f = t THEN t ELSE NewestToken[f]]
    BY <2>2
  <2>4. \A f \in Tokens : NewestToken'[f] = IF f = t THEN t ELSE NewestToken[f]
    BY <1>5, <1>6
  <2> QED
    BY <2>1, <2>3, <2>4
<1>8. Abstract!Open(t)
  BY <1>2, <1>4, <1>7 DEF Abstract!Open
<1> QED
  BY <1>2, <1>8 DEF Abstract!AbsNext

\* A rotation renews its login with a token that was never used.
LEMMA RenewStep ==
  ASSUME IInv, IInv', NEW p \in Procs, InsertSuccessor(p)
  PROVE  Abstract!AbsNext
<1>1. PICK s, t \in Tokens : s # t /\ Rotates(p, t, s)
  BY Rotation
<1> DEFINE g == tbl[t].family
<1>2. /\ t \in rows /\ s \notin rows /\ rows' = rows \cup {s} /\ tbl[s].family = Null
      /\ tbl[t].rotatedAt = Null /\ g # Null /\ req[p].now # Null
      /\ \A u \in Tokens \ {s, t} : tbl'[u] = tbl[u]
  BY <1>1 DEF Rotates
<1>3. /\ tbl'[s].family = g /\ tbl'[s].rotatedAt = Null
      /\ tbl'[t].family = g /\ tbl'[t].rotatedAt = req[p].now
  BY <1>1, RotatedFields
<1>4. g \in Tokens /\ Null \notin Tokens
  BY <1>2, NullAssumption DEF IInv, TypeOK, Columns
<1>5. Known' = Known \cup {s} /\ s \notin Known
  BY <1>2, <1>3 DEF Known
<1>6. NewestToken[g] = t /\ t # Null
  BY <1>2, <1>4, Newest DEF IInv, Live
<1>7. NewestToken'[g] = s
  <2>1. s \in rows' /\ OneLivePerFamily' /\ tbl'[s].family \in Tokens
    BY <1>2, <1>3, <1>4 DEF IInv
  <2> QED
    BY <1>3, <2>1, NewestNext
<1>8. ASSUME NEW f \in Tokens, f # g PROVE NewestToken'[f] = NewestToken[f]
  <2>1. \A u : (u \in rows' /\ tbl'[u].rotatedAt = Null /\ tbl'[u].family = f)
                 <=> (u \in rows /\ tbl[u].rotatedAt = Null /\ tbl[u].family = f)
    <3>1. \A u \in rows : u \in Tokens
      BY DEF IInv, TypeOK
    <3> QED
      BY <1>2, <1>3, <1>8, <3>1
  <2> QED
    BY <1>8, <2>1, SameLogin
<1>9. NewestToken' = [NewestToken EXCEPT ![g] = s]
  <2>1. /\ NewestToken = [f \in Tokens |-> NewestToken[f]]
        /\ NewestToken' = [f \in Tokens |-> NewestToken'[f]]
    BY DEF NewestToken
  <2> HIDE DEF g
  <2> QED
    BY <1>4, <1>7, <1>8, <2>1
<1>10. Abstract!Renew(g, s)
  BY <1>5, <1>6, <1>9 DEF Abstract!Renew
<1> QED
  BY <1>4, <1>10 DEF Abstract!AbsNext

\* Every step of the sessions opens, renews or ends logins, or leaves them alone.
LEMMA AbstractStep ==
  ASSUME IInv, IInv', [Next]_vars
  PROVE  Abstract!AbsNext
<1>1. CASE tbl' = tbl /\ rows' \subseteq rows
  BY <1>1, EndStep
<1>2. ASSUME NEW p \in Logins, LoginCreate(p) PROVE Abstract!AbsNext
  <2>1. p \in Procs
    BY DEF Procs
  <2> QED
    BY <1>2, <2>1, OpenStep
<1>3. ASSUME NEW p \in Refreshers, InsertSuccessor(p) PROVE Abstract!AbsNext
  <2>1. p \in Procs
    BY DEF Procs
  <2> QED
    BY <1>3, <2>1, RenewStep
<1>4. ASSUME NEW p \in Refreshers,
             RefreshStep(p) \/ \E t \in Tokens : BeginRefresh(p, t)
      PROVE  Abstract!AbsNext
  BY <1>1, <1>3, <1>4
     DEF RefreshStep, Find, DeleteExpired, Claim, Reread, Hop, BeginRefresh
<1>5. ASSUME NEW p \in Procs, RevokeStep(p) \/ Abort(p) PROVE Abstract!AbsNext
  BY <1>1, <1>5
     DEF RevokeStep, StartPass, DeleteRow, EndRevocation, EndPass, Abort
<1>6. CASE CleanupExpired
  BY <1>1, <1>6 DEF CleanupExpired
<1> QED
  BY <1>1, <1>2, <1>4, <1>5, <1>6
     DEF Next, LoginRead, Lookup, BeginLogout, BeginAccountOp, AdminSetPassword,
         Tick, vars

\* The sessions implement LoginSessions: a login's newest token is only replaced
\* by one never used before, and a login that has ended never comes back.
THEOREM SessionsRefinement == Spec => ImplementsLoginSessions
<1>1. Init => Abstract!AbsInit
  BY DEF Init, Abstract!AbsInit, Known, NewestToken, NoColumns
<1>2. IInv /\ IInv' /\ [Next]_vars => [Abstract!AbsNext]_(Abstract!avars)
  BY AbstractStep
<1> QED
  BY <1>1, <1>2, InvariantHolds, PTL DEF Spec, ImplementsLoginSessions, Abstract!AbsSpec

-----------------------------------------------------------------------------
(***************************************************************************)
(* Revocations inside a transaction are final while no token expires: the  *)
(* deletions of one revocation then appear at once, so that another which  *)
(* finds a row gone finds the row's successors gone too.                   *)
(***************************************************************************)
FamilyUser ==
  \A s, t \in Known : tbl[s].family = tbl[t].family => tbl[s].user = tbl[t].user

Unexpiring == clock <= MaxTime /\ \A t \in Known : tbl[t].expiresAt > MaxTime

\* The logins a revocation will report are logins its WHERE clause matches.
Doomed(p) ==
  req[p].pc \in {"revoke", "delete"} =>
    /\ req[p].doomed \subseteq Known
    /\ \A t \in Known : tbl[t].family \in req[p].doomed => Matches(p, t)

Covers(p, f) == f \in req[p].doomed \/ \E h \in req[p].held : tbl[h].family = f

\* While a pass has deleted nothing, every row of a login it covers is one it has
\* deleted before, one it will visit, or of a login with a row it will still find.
Complete(p) ==
  req[p].pc = "delete" /\ ~req[p].hit =>
    \A t \in rows :
      Matches(p, t) /\ Covers(p, tbl[t].family) =>
        \/ t \in req[p].held \cup req[p].todo
        \/ \E y \in rows \cap req[p].todo : tbl[y].family = tbl[t].family

FinalInv ==
  /\ JInv /\ FamilyUser /\ Unexpiring
  /\ revoked \subseteq Known /\ RevocationFinal
  /\ \A p \in Procs : Doomed(p) /\ Complete(p)

\* What a step may do to the rows, seen by a request q that does not take it: a
\* new row opens a login or joins one through a row that q has not deleted; a
\* login that loses a row loses all of them.
RowStep(q) ==
  /\ rows' \subseteq rows \cup (Known' \ Known)
  /\ \A t \in Known' \ Known :
       \/ tbl'[t].family \notin Known
       \/ \E y \in (rows \cap rows') \ req[q].held :
            tbl[y].family = tbl'[t].family /\ tbl[y].user = tbl'[t].user
  /\ \A y \in rows \ rows', t \in rows \cap rows' : tbl[t].family # tbl[y].family

\* The login of an issued token is named by an issued token.
LEMMA FamiliesKnown ==
  ASSUME IInv, NEW t \in Known
  PROVE  tbl[t].family \in Known
BY DEF IInv, TypeOK, Columns, FamilyKnown, Known

LEMMA OtherComplete ==
  ASSUME FinalInv, NEW q \in Procs, req'[q] = req[q], TableStep, RowStep(q)
  PROVE  Doomed(q)' /\ Complete(q)'
<1>1. IInv /\ Sound(q) /\ Doomed(q) /\ Complete(q)
  BY DEF FinalInv, JInv
<1>2. /\ Known \subseteq Known' /\ rows \subseteq Known /\ req[q].held \subseteq Known
      /\ \A t \in Known : tbl'[t].family = tbl[t].family /\ tbl'[t].user = tbl[t].user
  BY <1>1, RowsAreKnown DEF TableStep, Known
<1> SUFFICES ASSUME req[q].pc \in {"revoke", "delete"} PROVE Doomed(q)' /\ Complete(q)'
  BY DEF Doomed, Complete
<1>3. q \in AccountOps \/ req[q].tok \in Known
  BY <1>1, KindsExclude DEF Procs, Presented, Sound
<1>4. ASSUME NEW t, NEW y \in Known,
             tbl[y].family = tbl'[t].family, tbl[y].user = tbl'[t].user
      PROVE  Matches(q, t)' <=> Matches(q, y)
  BY <1>2, <1>3, <1>4 DEF Matches
<1>5. Doomed(q)'
  <2>1. req[q].doomed \subseteq Known
    BY <1>1 DEF Doomed
  <2>2. ASSUME NEW t \in Known', tbl'[t].family \in req[q].doomed
        PROVE  Matches(q, t)'
    <3>1. CASE t \in Known
      BY <1>1, <1>2, <1>4, <2>2, <3>1 DEF Doomed
    <3>2. CASE t \notin Known
      <4>1. PICK y \in rows : tbl[y].family = tbl'[t].family /\ tbl[y].user = tbl'[t].user
        BY <2>1, <2>2, <3>2 DEF RowStep
      <4>2. y \in Known /\ Matches(q, y)
        BY <1>1, <1>2, <2>2, <4>1 DEF Doomed
      <4> QED
        BY <1>4, <4>1, <4>2
    <3> QED
      BY <3>1, <3>2
  <2> QED
    BY <1>2, <2>1, <2>2 DEF Doomed
<1>6. Complete(q)'
  <2> SUFFICES ASSUME req[q].pc = "delete", ~req[q].hit, NEW t \in rows',
                      Matches(q, t)', Covers(q, tbl[t].family)'
               PROVE  \/ t \in req[q].held \cup req[q].todo
                      \/ \E y \in rows' \cap req[q].todo : tbl'[y].family = tbl'[t].family
    BY DEF Complete
  <2>1. /\ req[q].doomed \subseteq Known
        /\ Covers(q, tbl'[t].family)
    BY <1>1, <1>2 DEF Doomed, Covers
  <2>2. ASSUME NEW u \in rows \cap rows', tbl[u].family = tbl'[t].family,
               tbl[u].user = tbl'[t].user
        PROVE  \/ u \in req[q].held \cup req[q].todo
               \/ \E y \in rows' \cap req[q].todo : tbl'[y].family = tbl'[t].family
    <3>1. Matches(q, u) /\ Covers(q, tbl[u].family)
      BY <1>2, <1>4, <2>1, <2>2
    <3>2. CASE u \in req[q].held \cup req[q].todo
      BY <3>2
    <3>3. ASSUME NEW y \in rows \cap req[q].todo, tbl[y].family = tbl[u].family
          PROVE  \E z \in rows' \cap req[q].todo : tbl'[z].family = tbl'[t].family
      <4>1. y \in rows' /\ y \in Known
        BY <1>2, <2>2, <3>3 DEF RowStep
      <4> QED
        BY <1>2, <2>2, <3>3, <4>1
    <3> QED
      BY <1>1, <3>1, <3>2, <3>3 DEF Complete
  <2>3. CASE t \in rows
    BY <1>2, <2>2, <2>3
  <2>4. CASE t \notin rows
    <3>1. t \in Known' \ Known
      BY <2>4 DEF RowStep
    <3>2. tbl'[t].family \in Known
      BY <1>1, <1>2, <2>1, FamiliesKnown DEF Covers
    <3>3. PICK y \in (rows \cap rows') \ req[q].held :
             tbl[y].family = tbl'[t].family /\ tbl[y].user = tbl'[t].user
      BY <3>1, <3>2 DEF RowStep
    <3>4. CASE y \in req[q].todo
      BY <1>2, <3>3, <3>4
    <3> QED
      BY <2>2, <3>3, <3>4
  <2> QED
    BY <2>3, <2>4
<1> QED
  BY <1>5, <1>6

\* A request that is not revoking after its step has nothing to complete.
LEMMA NotRevoking ==
  ASSUME NEW p \in Procs, req'[p].pc \notin {"revoke", "delete"}
  PROVE  Doomed(p)' /\ Complete(p)'
BY DEF Doomed, Complete

LEMMA FinishComplete ==
  ASSUME IInv, NEW p \in Procs, Finish(p)
  PROVE  Doomed(p)' /\ Complete(p)'
<1>1. req'[p].pc = "idle"
  BY DEF IInv, TypeOK, Finish, Idle
<1> QED
  BY <1>1, NotRevoking

\* A step of p that writes no columns and adds no row.
LEMMA FinalStep ==
  ASSUME FinalInv, JInv', NEW p \in Procs, UNCHANGED <<clock, tbl>>, rows' \subseteq rows,
         \A q \in Procs \ {p} : req'[q] = req[q],
         Doomed(p)', Complete(p)',
         \A y \in rows \ rows', t \in rows \cap rows' : tbl[t].family # tbl[y].family,
         revoked' \subseteq Known, RevocationFinal'
  PROVE  FinalInv'
<1>1. Known' = Known /\ TableStep
  BY QuietTable DEF Known
<1>2. FamilyUser' /\ Unexpiring'
  BY <1>1 DEF FinalInv, FamilyUser, Unexpiring
<1>3. \A q \in Procs : RowStep(q)
  BY <1>1 DEF RowStep
<1>4. \A q \in Procs \ {p} : Doomed(q)' /\ Complete(q)'
  BY <1>1, <1>3, OtherComplete
<1> QED
  BY <1>1, <1>2, <1>4 DEF FinalInv

LEMMA FinalRead ==
  ASSUME FinalInv, JInv', NEW p \in Procs, UNCHANGED <<clock, rows, tbl, revoked>>,
         \A q \in Procs \ {p} : req'[q] = req[q],
         Doomed(p)', Complete(p)'
  PROVE  FinalInv'
<1>1. revoked' \subseteq Known /\ RevocationFinal'
  BY DEF FinalInv, RevocationFinal
<1> QED
  BY <1>1, FinalStep

\* A new login joins no login that was revoked or is being revoked.
LEMMA LoginFinal ==
  ASSUME FinalInv, JInv', MaxTime < TTL, NEW p \in Procs, LoginCreate(p)
  PROVE  FinalInv'
<1>1. PICK t \in Fresh :
        /\ rows' = rows \cup {t}
        /\ tbl' = [tbl EXCEPT ![t] =
                    [user |-> req[p].user, family |-> t,
                     expiresAt |-> ExpiryOf(clock), rotatedAt |-> Null,
                     successor |-> Null, epoch |-> req[p].epoch]]
  BY DEF LoginCreate
<1>2. t \in Tokens /\ t \notin Known /\ Null \notin Tokens
  BY NullAssumption DEF Fresh
<1>3. /\ tbl'[t].family = t /\ tbl'[t].expiresAt = ExpiryOf(clock)
      /\ \A u \in Tokens \ {t} : tbl'[u] = tbl[u]
  BY <1>1, <1>2 DEF FinalInv, JInv, IInv, TypeOK
<1>4. /\ UNCHANGED <<clock, revoked>> /\ IInv /\ clock \in Nat
      /\ rows \subseteq Known /\ Known \subseteq Tokens
  BY RowsAreKnown DEF LoginCreate, FinalInv, JInv, IInv, TypeOK
<1>5. /\ \A u \in Known : tbl'[u] = tbl[u]
      /\ Known' = Known \cup {t}
      /\ \A u \in Known : tbl[u].family # t
  BY <1>2, <1>3, <1>4, FamiliesKnown DEF Known
<1>6. FamilyUser'
  BY <1>3, <1>5 DEF FinalInv, FamilyUser
<1>7. Unexpiring'
  <2>1. tbl'[t].expiresAt > MaxTime
    BY <1>3, <1>4, BoundsAssumption DEF ExpiryOf
  <2> QED
    BY <1>4, <1>5, <2>1 DEF FinalInv, Unexpiring
<1>8. revoked' \subseteq Known' /\ RevocationFinal'
  BY <1>1, <1>2, <1>3, <1>4, <1>5 DEF FinalInv, RevocationFinal
<1>9. \A q \in Procs : RowStep(q)
  BY <1>1, <1>2, <1>3, <1>5 DEF RowStep
<1>10. TableStep
  <2>1. TypeOK'
    BY DEF JInv, IInv
  <2> QED
    BY <2>1, LoginWrites DEF FinalInv
<1>11. Finish(p) /\ \A q \in Procs \ {p} : req'[q] = req[q]
  BY DEF LoginCreate, Finish, FinalInv, JInv, IInv, TypeOK
<1>12. \A q \in Procs : Doomed(q)' /\ Complete(q)'
  BY <1>4, <1>9, <1>10, <1>11, OtherComplete, FinishComplete
<1> QED
  BY <1>6, <1>7, <1>8, <1>12 DEF FinalInv

\* A successor joins the login of a row that its rotation has locked.
LEMMA RotationFinal ==
  ASSUME FinalInv, JInv', MaxTime < TTL, NEW p \in Refreshers, InsertSuccessor(p)
  PROVE  FinalInv'
<1>0. p \in Procs /\ IInv
  BY DEF Procs, FinalInv, JInv
<1>1. PICK s, t \in Tokens : s # t /\ Rotates(p, t, s)
  BY <1>0, Rotation
<1>2. /\ t \in rows /\ t \in req[p].held /\ s \notin rows /\ rows' = rows \cup {s}
      /\ tbl[s].family = Null /\ tbl[t].family # Null
      /\ \A u \in Tokens \ {s, t} : tbl'[u] = tbl[u]
  BY <1>1 DEF Rotates
<1>3. /\ tbl'[s].user = tbl[t].user /\ tbl'[s].family = tbl[t].family
      /\ tbl'[s].expiresAt = ExpiryOf(req[p].now)
      /\ tbl'[t].user = tbl[t].user /\ tbl'[t].family = tbl[t].family
      /\ tbl'[t].expiresAt = tbl[t].expiresAt
  BY <1>0, <1>1, RotatedFields
<1>4. /\ UNCHANGED <<clock, revoked>> /\ req[p].now \in Nat
      /\ rows \subseteq Known /\ Known \subseteq Tokens
  BY <1>0, RowsAreKnown DEF InsertSuccessor, IInv, TypeOK, Request
<1>5. /\ \A u \in Known : /\ tbl'[u].family = tbl[u].family /\ tbl'[u].user = tbl[u].user
                          /\ tbl'[u].expiresAt = tbl[u].expiresAt
      /\ Known' = Known \cup {s} /\ t \in Known
  BY <1>2, <1>3, <1>4 DEF Known
<1>6. FamilyUser'
  BY <1>3, <1>5 DEF FinalInv, FamilyUser
<1>7. Unexpiring'
  <2>1. tbl'[s].expiresAt > MaxTime
    BY <1>3, <1>4, BoundsAssumption DEF ExpiryOf
  <2> QED
    BY <1>4, <1>5, <2>1 DEF FinalInv, Unexpiring
<1>8. revoked' \subseteq Known' /\ RevocationFinal'
  <2>1. \A u \in rows' : \E v \in rows : tbl'[u].family = tbl[v].family
    BY <1>2, <1>3, <1>4, <1>5
  <2> QED
    BY <1>4, <1>5, <2>1 DEF FinalInv, RevocationFinal
<1>9. \A q \in Procs \ {p} : RowStep(q)
  <2>1. \A q \in Procs \ {p} : t \notin req[q].held
    BY <1>0, <1>2 DEF IInv, HeldOnce
  <2> QED
    BY <1>2, <1>3, <1>5, <2>1 DEF RowStep
<1>10. TableStep
  <2>1. TypeOK'
    BY DEF JInv, IInv
  <2> QED
    BY <2>1, RotationWrites DEF FinalInv
<1>11. Finish(p) /\ \A q \in Procs \ {p} : req'[q] = req[q]
  BY <1>0 DEF InsertSuccessor, Finish, IInv, TypeOK
<1>12. \A q \in Procs : Doomed(q)' /\ Complete(q)'
  BY <1>0, <1>9, <1>10, <1>11, OtherComplete, FinishComplete
<1> QED
  BY <1>6, <1>7, <1>8, <1>12 DEF FinalInv

\* A revocation starts: the logins it dooms are issued and match.
LEMMA StartsDoomed ==
  ASSUME FinalInv, NEW p \in Procs, UNCHANGED <<rows, tbl>>,
         req'[p].pc = "revoke",
         \A f \in req'[p].doomed : \E r \in rows : tbl[r].family = f /\ Matches(p, r)'
  PROVE  Doomed(p)' /\ Complete(p)'
<1>1. IInv /\ rows \subseteq Known /\ Known' = Known
  BY RowsAreKnown DEF FinalInv, JInv, Known
<1>2. req'[p].doomed \subseteq Known
  BY <1>1, FamiliesKnown
<1>3. ASSUME NEW t \in Known, tbl[t].family \in req'[p].doomed
      PROVE  Matches(p, t)'
  <2>1. PICK r \in rows : tbl[r].family = tbl[t].family /\ Matches(p, r)'
    BY <1>3
  <2>2. tbl[r].user = tbl[t].user
    BY <1>1, <2>1 DEF FinalInv, FamilyUser
  <2> QED
    BY <2>1, <2>2 DEF Matches
<1> QED
  BY <1>1, <1>2, <1>3 DEF Doomed, Complete

\* A refresh that takes its token for a reused one revokes that token's login.
LEMMA ReuseDoomed ==
  ASSUME FinalInv, NEW p \in Refreshers, req[p].tok \in rows, GraceBranch(p),
         UNCHANGED <<rows, tbl>>
  PROVE  Doomed(p)' /\ Complete(p)'
<1> DEFINE t == req[p].tok
<1>1. p \in Procs /\ p \notin AccountOps /\ req[p] \in Request /\ req \in [Procs -> Request]
  BY RolesAssumption DEF Procs, FinalInv, JInv, IInv, TypeOK
<1>2. CASE req' = [req EXCEPT ![p].pc = "revoke", ![p].doomed = {tbl[t].family}]
  <2>1. /\ req'[p].pc = "revoke" /\ req'[p].tok = t
        /\ req'[p].doomed = {tbl[t].family}
    BY <1>1, <1>2 DEF Request
  <2>2. Matches(p, t)'
    BY <1>1, <2>1 DEF Matches
  <2> QED
    BY <1>1, <2>1, <2>2, StartsDoomed
<1>3. CASE req' = [req EXCEPT ![p].pc = "walk", ![p].cur = t]
  <2>1. req'[p].pc = "walk"
    BY <1>1, <1>3 DEF Request
  <2> QED
    BY <1>1, <2>1, NotRevoking
<1> QED
  BY <1>2, <1>3 DEF GraceBranch

\* An account operation revokes the logins its user has.
LEMMA AccountDoomed ==
  ASSUME FinalInv, NEW p \in AccountOps, NEW u \in Users, BeginAccountOp(p, u)
  PROVE  Doomed(p)' /\ Complete(p)'
<1> DEFINE F == {tbl[t].family : t \in {r \in rows : tbl[r].user = u}}
<1>1. p \in Procs /\ req \in [Procs -> Request]
  BY DEF Procs, FinalInv, JInv, IInv, TypeOK
<1>2. req'[p] = [Idle EXCEPT !.pc = "revoke", !.user = u, !.now = clock, !.doomed = F]
  BY <1>1 DEF BeginAccountOp
<1>3. req'[p].pc = "revoke" /\ req'[p].user = u /\ req'[p].doomed = F
  <2> HIDE DEF F
  <2> QED
    BY <1>2 DEF Idle
<1>4. UNCHANGED <<rows, tbl>>
  BY DEF BeginAccountOp
<1>5. \A f \in req'[p].doomed : \E r \in rows : tbl[r].family = f /\ Matches(p, r)'
  BY <1>3, <1>4 DEF Matches
<1> QED
  BY <1>1, <1>3, <1>4, <1>5, StartsDoomed

\* A pass starts: it will visit every row that matches and is not deleted yet.
LEMMA StartPassFinal ==
  ASSUME FinalInv, NEW p \in Procs, StartPass(p)
  PROVE  Doomed(p)' /\ Complete(p)'
<1> DEFINE T == {t \in rows \ req[p].held : Matches(p, t)}
           r == [req[p] EXCEPT !.pc = "delete", !.hit = FALSE, !.todo = T]
<1>1. req'[p] = r /\ UNCHANGED <<rows, tbl>> /\ req[p].pc = "revoke"
  BY DEF StartPass, FinalInv, JInv, IInv, TypeOK
<1>2. /\ req'[p].pc = "delete" /\ req'[p].tok = req[p].tok /\ req'[p].user = req[p].user
      /\ req'[p].held = req[p].held /\ req'[p].todo = T /\ req'[p].doomed = req[p].doomed
  <2> HIDE DEF T
  <2>1. req[p] \in Request
    BY DEF FinalInv, JInv, IInv, TypeOK
  <2> QED
    BY <1>1, <2>1 DEF Request
<1>3. \A t : Matches(p, t)' <=> Matches(p, t)
  BY <1>1, <1>2 DEF Matches
<1>4. \A t \in rows : Matches(p, t) => t \in req[p].held \cup T
  OBVIOUS
<1> HIDE DEF T, r
<1>5. Doomed(p)'
  BY <1>1, <1>2, <1>3 DEF FinalInv, Doomed, Known
<1>6. Complete(p)'
  BY <1>1, <1>2, <1>3, <1>4 DEF Complete
<1> QED
  BY <1>5, <1>6

\* A pass that finds a row gone has lost nothing it could still delete.
LEMMA DeleteRowFinal ==
  ASSUME FinalInv, NEW p \in Procs, NEW t \in Tokens, DeleteRow(p, t)
  PROVE  Doomed(p)' /\ Complete(p)'
<1> DEFINE H == IF t \in rows THEN req[p].held \cup {t} ELSE req[p].held
           r == [req[p] EXCEPT !.todo = req[p].todo \ {t}, !.held = H,
                               !.hit = req[p].hit \/ t \in rows]
<1>0. req[p] \in Request
  BY DEF FinalInv, JInv, IInv, TypeOK
<1>1. req'[p] = r /\ UNCHANGED <<rows, tbl>> /\ req[p].pc = "delete"
  BY DEF DeleteRow, FinalInv, JInv, IInv, TypeOK
<1>2. /\ req'[p].pc = "delete" /\ req'[p].tok = req[p].tok /\ req'[p].user = req[p].user
      /\ req'[p].held = H /\ req'[p].todo = req[p].todo \ {t}
      /\ req'[p].doomed = req[p].doomed
  <2> HIDE DEF H
  <2> QED
    BY <1>0, <1>1 DEF Request
<1>3. req'[p].hit <=> (req[p].hit \/ t \in rows)
  <2> HIDE DEF H
  <2>1. req'[p].hit = (req[p].hit \/ t \in rows)
    BY <1>0, <1>1 DEF Request
  <2> QED
    BY <2>1
<1>4. \A x : Matches(p, x)' <=> Matches(p, x)
  BY <1>1, <1>2 DEF Matches
<1>5. Doomed(p)'
  BY <1>1, <1>2, <1>4 DEF FinalInv, Doomed, Known
<1>6. Complete(p)'
  <2> SUFFICES ASSUME ~req'[p].hit, NEW x \in rows, Matches(p, x),
                      Covers(p, tbl[x].family)'
               PROVE  \/ x \in req'[p].held \cup req'[p].todo
                      \/ \E y \in rows \cap req'[p].todo : tbl[y].family = tbl[x].family
    BY <1>1, <1>4 DEF Complete
  <2>1. ~req[p].hit /\ t \notin rows /\ H = req[p].held
    BY <1>3
  <2>2. Covers(p, tbl[x].family)
    BY <1>1, <1>2, <2>1 DEF Covers
  <2>3. Complete(p)
    BY DEF FinalInv
  <2>4. \/ x \in req[p].held \cup req[p].todo
        \/ \E y \in rows \cap req[p].todo : tbl[y].family = tbl[x].family
    BY <1>1, <2>1, <2>2, <2>3 DEF Complete
  <2> QED
    BY <1>2, <2>1, <2>4
<1> QED
  BY <1>5, <1>6

\* A pass that deleted rows inside a transaction is followed by another.
LEMMA EndPassFinal ==
  ASSUME FinalInv, NEW p \in Procs \ Logouts, EndPass(p)
  PROVE  Doomed(p)' /\ Complete(p)'
<1>0. req[p] \in Request /\ req \in [Procs -> Request] /\ IInv
  BY DEF FinalInv, JInv, IInv, TypeOK
<1>1. CASE Finish(p)
  BY <1>0, <1>1, FinishComplete
<1>2. CASE ~Finish(p)
  <2> DEFINE r == [req[p] EXCEPT !.pc = "revoke", !.round = req[p].round + 1,
                                 !.held = req[p].held]
  <2>1. req'[p] = r /\ UNCHANGED <<rows, tbl>> /\ req[p].pc = "delete"
    BY <1>0, <1>2 DEF EndPass
  <2>2. /\ req'[p].pc = "revoke" /\ req'[p].tok = req[p].tok /\ req'[p].user = req[p].user
        /\ req'[p].doomed = req[p].doomed
    BY <1>0, <2>1 DEF Request
  <2>3. \A t : Matches(p, t)' <=> Matches(p, t)
    BY <2>1, <2>2 DEF Matches
  <2> QED
    BY <2>1, <2>2, <2>3 DEF FinalInv, Doomed, Complete, Known
<1> QED
  BY <1>1, <1>2

\* A revocation that reports success leaves no row of the logins it was for, and
\* takes every row of a login of which it takes one.
LEMMA EndRevocationFinal ==
  ASSUME FinalInv, JInv', NEW p \in Procs, EndRevocation(p)
  PROVE  FinalInv'
<1>1. /\ req[p].pc = "delete" /\ req[p].todo = {} /\ ~req[p].hit
      /\ rows' = rows \ req[p].held /\ revoked' = revoked \cup req[p].doomed
      /\ UNCHANGED <<clock, tbl>> /\ Finish(p)
  BY DEF EndRevocation
<1>2. IInv /\ Sound(p) /\ Doomed(p) /\ Complete(p) /\ FamilyUser
  BY DEF FinalInv, JInv
<1>3. rows \subseteq Known /\ req[p].held \subseteq rows
  BY <1>2, RowsAreKnown DEF IInv, HeldRows
<1>4. ASSUME NEW t \in rows, Matches(p, t), Covers(p, tbl[t].family)
      PROVE  t \notin rows'
  BY <1>1, <1>2, <1>4 DEF Complete
<1>5. ASSUME NEW y \in rows \ rows', NEW t \in rows \cap rows'
      PROVE  tbl[t].family # tbl[y].family
  <2> SUFFICES ASSUME tbl[t].family = tbl[y].family PROVE FALSE
    OBVIOUS
  <2>1. y \in req[p].held /\ Matches(p, y)
    BY <1>1, <1>2 DEF Sound, Aimed
  <2>2. tbl[t].user = tbl[y].user
    BY <1>2, <1>3 DEF FamilyUser
  <2>3. Matches(p, t) /\ Covers(p, tbl[t].family)
    BY <2>1, <2>2 DEF Matches, Covers
  <2> QED
    BY <1>4, <2>3
<1>6. revoked' \subseteq Known
  BY <1>1, <1>2 DEF FinalInv, Doomed
<1>7. RevocationFinal'
  <2> SUFFICES ASSUME NEW t \in rows', tbl[t].family \in revoked' PROVE FALSE
    BY <1>1 DEF RevocationFinal
  <2>1. t \in rows /\ t \in Known
    BY <1>1, <1>3
  <2>2. tbl[t].family \in req[p].doomed
    BY <1>1, <2>1 DEF FinalInv, RevocationFinal
  <2>3. Matches(p, t) /\ Covers(p, tbl[t].family)
    BY <1>1, <1>2, <2>1, <2>2 DEF Doomed, Covers
  <2> QED
    BY <1>4, <2>1, <2>3
<1>8. \A q \in Procs \ {p} : req'[q] = req[q]
  BY <1>1, <1>2 DEF Finish, IInv, TypeOK
<1>9. Doomed(p)' /\ Complete(p)'
  BY <1>1, <1>2, FinishComplete
<1>10. rows' \subseteq rows
  BY <1>1
<1> QED
  BY <1>1, <1>5, <1>6, <1>7, <1>8, <1>9, <1>10, FinalStep

\* No row expires, so neither a refresh nor the cleanup deletes one.
LEMMA NothingExpires ==
  ASSUME FinalInv
  PROVE  ~CleanupExpired /\ \A p \in Refreshers : ~DeleteExpired(p)
<1>1. /\ clock \in Nat /\ rows \subseteq Known /\ Known \subseteq Tokens
      /\ \A t \in Known : tbl[t].expiresAt \in Nat
  BY RowsAreKnown DEF FinalInv, JInv, IInv, TypeOK, Columns, Known
<1>2. \A t \in Known : tbl[t].expiresAt > clock
  BY <1>1, BoundsAssumption DEF FinalInv, Unexpiring
<1>3. ~CleanupExpired
  BY <1>1, <1>2 DEF CleanupExpired
<1>4. ASSUME NEW p \in Refreshers, DeleteExpired(p) PROVE FALSE
  <2>1. tbl[req[p].tok].expiresAt <= clock
    BY <1>4, DeleteExpiredKeeps DEF FinalInv
  <2>2. req[p].tok \in Known
    BY <1>4 DEF FinalInv, JInv, Sound, Presented, DeleteExpired, Procs
  <2> QED
    BY <1>1, <1>2, <2>1, <2>2
<1> QED
  BY <1>3, <1>4

\* Time and an admin's password edit move no request and touch no row.
LEMMA EnvironmentFinal ==
  ASSUME FinalInv, JInv',
         Tick \/ (\E u \in Users : AdminSetPassword(u)) \/ UNCHANGED vars
  PROVE  FinalInv'
<1>1. UNCHANGED <<rows, tbl, req, revoked>> /\ Known' = Known
  BY DEF Tick, AdminSetPassword, vars, Known
<1>2. Unexpiring'
  <2>1. clock' <= MaxTime
    BY BoundsAssumption DEF Tick, AdminSetPassword, vars, FinalInv, Unexpiring, JInv, IInv, TypeOK
  <2> QED
    BY <1>1, <2>1 DEF FinalInv, Unexpiring
<1>3. FamilyUser' /\ revoked' \subseteq Known' /\ RevocationFinal'
  BY <1>1 DEF FinalInv, FamilyUser, RevocationFinal
<1>4. ASSUME NEW q \in Procs PROVE Doomed(q)' /\ Complete(q)'
  <2>1. Doomed(q) /\ Complete(q)
    BY DEF FinalInv
  <2> QED
    BY <1>1, <2>1 DEF Doomed, Complete, Covers, Matches
<1> QED
  BY <1>2, <1>3, <1>4 DEF FinalInv

\* Every step keeps the invariant, if only transactions revoke and nothing expires.
LEMMA NextFinal ==
  ASSUME Logouts = {}, MaxTime < TTL, FinalInv, [Next]_vars
  PROVE  FinalInv'
<1>0. JInv' /\ IInv /\ JInv
  BY NextJInv DEF FinalInv, JInv
<1>1. ASSUME NEW p \in Logins, LoginCreate(p) \/ \E u \in Users : LoginRead(p, u)
      PROVE  FinalInv'
  <2>1. p \in Procs
    BY DEF Procs
  <2>2. CASE LoginCreate(p)
    BY <1>0, <2>1, <2>2, LoginFinal
  <2>3. ASSUME NEW u \in Users, LoginRead(p, u) PROVE FinalInv'
    <3>1. req'[p] = [Idle EXCEPT !.pc = "create", !.user = u, !.epoch = account[u].epoch]
      BY <1>0, <2>1, <2>3 DEF LoginRead, IInv, TypeOK
    <3>2. req'[p].pc = "create"
      BY <3>1 DEF Idle
    <3>3. Doomed(p)' /\ Complete(p)'
      BY <2>1, <3>2, NotRevoking
    <3>4. /\ UNCHANGED <<clock, rows, tbl, revoked>>
          /\ \A q \in Procs \ {p} : req'[q] = req[q]
      BY <1>0, <2>3 DEF LoginRead, IInv, TypeOK
    <3> QED
      BY <1>0, <2>1, <3>3, <3>4, FinalRead
  <2> QED
    BY <1>1, <2>2, <2>3
<1>2. ASSUME NEW p \in Refreshers,
             RefreshStep(p) \/ \E t \in Tokens : BeginRefresh(p, t)
      PROVE  FinalInv'
  <2>1. p \in Procs /\ Sound(p)
    BY <1>0 DEF Procs, JInv
  <2>2. CASE Find(p) \/ Claim(p) \/ Reread(p) \/ Hop(p)
    <3>1. \A q \in Procs \ {p} : req'[q] = req[q]
      BY <1>0, <2>1, <2>2, RefreshSound
    <3>2. UNCHANGED <<clock, rows, tbl, revoked>>
      BY <2>2 DEF Find, Claim, Reread, Hop
    <3>3. Doomed(p)' /\ Complete(p)'
      <4>1. CASE Finish(p)
        BY <1>0, <2>1, <4>1, FinishComplete
      <4>2. CASE req[p].tok \in rows /\ GraceBranch(p)
        BY <3>2, <4>2, ReuseDoomed
      <4>3. CASE Goto(p, "delExpired") \/ Goto(p, "claim") \/ Goto(p, "reread")
        <5>1. req'[p].pc \notin {"revoke", "delete"}
          BY <1>0, <2>1, <4>3, GotoFields
        <5> QED
          BY <2>1, <5>1, NotRevoking
      <4>4. CASE req' = [req EXCEPT ![p].pc = "insert", ![p].held = {req[p].tok}]
        <5>1. req'[p].pc = "insert"
          BY <1>0, <2>1, <4>4 DEF IInv, TypeOK, Request
        <5> QED
          BY <2>1, <5>1, NotRevoking
      <4>5. CASE Hop(p) /\ ~Finish(p)
        <5>1. req'[p].pc = "walk"
          BY <1>0, <2>1, <4>5 DEF Hop, IInv, TypeOK, Request
        <5> QED
          BY <2>1, <5>1, NotRevoking
      <4> QED
        BY <2>2, <4>1, <4>2, <4>3, <4>4, <4>5 DEF Find, Claim, Reread
    <3> QED
      BY <1>0, <2>1, <3>1, <3>2, <3>3, FinalRead
  <2>3. ASSUME NEW t \in Tokens, BeginRefresh(p, t) PROVE FinalInv'
    <3>1. req'[p] = [Idle EXCEPT !.pc = "find", !.tok = t, !.now = clock]
      BY <1>0, <2>1, <2>3 DEF BeginRefresh, IInv, TypeOK
    <3>2. req'[p].pc = "find"
      BY <3>1 DEF Idle
    <3>3. Doomed(p)' /\ Complete(p)'
      BY <2>1, <3>2, NotRevoking
    <3>4. /\ UNCHANGED <<clock, rows, tbl, revoked>>
          /\ \A q \in Procs \ {p} : req'[q] = req[q]
      BY <1>0, <2>3 DEF BeginRefresh, IInv, TypeOK
    <3> QED
      BY <1>0, <2>1, <3>3, <3>4, FinalRead
  <2>4. CASE InsertSuccessor(p)
    BY <1>0, <2>4, RotationFinal
  <2>5. ~DeleteExpired(p)
    BY NothingExpires
  <2> QED
    BY <1>2, <2>2, <2>3, <2>4, <2>5 DEF RefreshStep
<1>3. ASSUME NEW p \in AccountOps, NEW u \in Users, BeginAccountOp(p, u)
      PROVE  FinalInv'
  <2>1. p \in Procs
    BY DEF Procs
  <2>2. Doomed(p)' /\ Complete(p)'
    BY <1>3, AccountDoomed
  <2>3. /\ UNCHANGED <<clock, rows, tbl, revoked>>
        /\ \A q \in Procs \ {p} : req'[q] = req[q]
    BY <1>0, <1>3 DEF BeginAccountOp, IInv, TypeOK
  <2> QED
    BY <1>0, <2>1, <2>2, <2>3, FinalRead
<1>4. ASSUME NEW p \in Procs, RevokeStep(p) \/ Abort(p)
      PROVE  FinalInv'
  <2>1. CASE EndRevocation(p)
    BY <1>0, <2>1, EndRevocationFinal
  <2>2. ASSUME NEW t \in Tokens, DeleteRow(p, t)
        PROVE  FinalInv'
    <3>1. Doomed(p)' /\ Complete(p)'
      BY <2>2, DeleteRowFinal
    <3>2. /\ UNCHANGED <<clock, rows, tbl, revoked>>
          /\ \A q \in Procs \ {p} : req'[q] = req[q]
      BY <1>0, <2>2 DEF DeleteRow, IInv, TypeOK
    <3> QED
      BY <1>0, <3>1, <3>2, FinalRead
  <2>3. CASE StartPass(p) \/ EndPass(p) \/ Abort(p)
    <3>1. Doomed(p)' /\ Complete(p)'
      BY <1>0, <2>3, StartPassFinal, EndPassFinal, FinishComplete DEF Abort
    <3>2. UNCHANGED <<clock, rows, tbl, revoked>>
      BY <2>3 DEF StartPass, EndPass, Abort
    <3>3. \A q \in Procs \ {p} : req'[q] = req[q]
      BY <1>0, <2>3 DEF StartPass, EndPass, Abort, Finish, IInv, TypeOK
    <3> QED
      BY <1>0, <3>1, <3>2, <3>3, FinalRead
  <2> QED
    BY <1>4, <2>1, <2>2, <2>3 DEF RevokeStep
<1>5. CASE Tick \/ (\E u \in Users : AdminSetPassword(u)) \/ UNCHANGED vars
  BY <1>0, <1>5, EnvironmentFinal
<1>6. ~CleanupExpired
  BY NothingExpires
<1> QED
  BY <1>1, <1>2, <1>3, <1>4, <1>5, <1>6 DEF Next

\* If only transactions revoke (account operations and the reuse of a refresh
\* token, but no logout, whose deletions commit one by one) and no token expires
\* meanwhile, a reported revocation is final, however many revocations and
\* rotations of the same logins run at once.
THEOREM TransactionalRevocationFinal ==
  ASSUME Logouts = {}, MaxTime < TTL
  PROVE  Spec => []RevocationFinal
<1>1. Init => FinalInv
  <2> SUFFICES ASSUME Init PROVE FinalInv
    OBVIOUS
  <2>1. JInv /\ Known = {} /\ FamilyUser /\ Unexpiring
    BY InitJInv, BoundsAssumption DEF Init, Known, NoColumns, FamilyUser, Unexpiring
  <2>2. revoked \subseteq Known /\ RevocationFinal
    BY DEF Init, RevocationFinal
  <2>3. \A p \in Procs : Doomed(p) /\ Complete(p)
    BY DEF Init, Doomed, Complete, Idle
  <2> QED
    BY <2>1, <2>2, <2>3 DEF FinalInv
<1>2. FinalInv /\ [Next]_vars => FinalInv'
  BY NextFinal
<1>3. FinalInv => RevocationFinal
  BY DEF FinalInv
<1> QED
  BY <1>1, <1>2, <1>3, PTL DEF Spec
=============================================================================
