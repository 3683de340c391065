--------------------------- MODULE RegistrationProofs ---------------------------
(***************************************************************************)
(* Proofs about the credentials that are mailed to a user: the codes of a  *)
(* registration (RegistrationOtp), for any number of requests, codes and   *)
(* attempts, and the links of an account (CredentialLinks), for            *)
(* any number of links and of requests that verify, issue and reset.       *)
(***************************************************************************)
EXTENDS RegistrationOtp, CredentialLinks, FiniteSetTheorems, TLAPS

-----------------------------------------------------------------------------
(***************************************************************************)
(* Part 1: registration codes.                                             *)
(***************************************************************************)
Request == [pc : {"idle", "issue", "compare", "mark", "readBack", "consume", "create"},
            guess : Nat, id : Nat, code : Codes \cup {0}, seen : Nat \cup {Null},
            ticket : Nat \X Nat]

Types ==
  /\ row \in Row \cup {Null}
  /\ issued \in 0 .. MaxCodes /\ stamps \in Nat
  /\ tickets \subseteq Nat \X Nat /\ accounts \in Nat
  /\ req \in [Procs -> Request]
  /\ lock \in Registrars \cup {Null}
  /\ guesses \in [Codes -> Nat]

-----------------------------------------------------------------------------
(***************************************************************************)
(* One account.  Whoever checked before the account was there holds a      *)
(* ticket of an earlier verification than any that may follow.             *)
(***************************************************************************)
\* Verifications are numbered as they happen.
Stamped ==
  /\ row # Null => row.verified = Null \/ row.verified <= stamps
  /\ \A t \in tickets : t[2] <= stamps
  /\ \A p \in Procs : /\ req[p].ticket[2] <= stamps
                      /\ req[p].seen = Null \/ req[p].seen <= stamps

\* The lock is held by the registration that is about to create the account.
Creating ==
  /\ \A p \in Registrars : req[p].pc = "create" <=> lock = p
  /\ lock # Null => row \in Row

\* Once there is an account, no pending registration can consume the row.
Spent ==
  accounts # 0 =>
    /\ accounts = 1 /\ lock = Null
    /\ row # Null => \/ row.consumed \/ row.verified = Null
                     \/ \A p \in Registrars :
                          req[p].pc = "consume" => req[p].ticket[2] # row.verified

-----------------------------------------------------------------------------
(***************************************************************************)
(* Guesses.  Attempts that were reserved and not yet used are counted too. *)
(***************************************************************************)
InFlight(c) == {p \in Verifiers : req[p].pc = "compare" /\ req[p].code = c}

\* The attempts that code c has been granted so far.
Granted(c) ==
  IF row # Null /\ row.code = c THEN row.attempts
  ELSE IF c <= issued THEN MaxAttempts ELSE 0

Counted ==
  /\ row # Null => row.code <= issued
  /\ \A p \in Verifiers : req[p].pc = "compare" => req[p].code \in Codes
  /\ \A c \in Codes : guesses[c] + Cardinality(InFlight(c)) <= Granted(c)

IInv == Types /\ Stamped /\ Creating /\ Spent /\ Counted

-----------------------------------------------------------------------------
LEMMA ProcsSplit == /\ Senders \subseteq Procs /\ Verifiers \subseteq Procs
                    /\ Registrars \subseteq Procs
                    /\ \A p \in Verifiers : p \notin Registrars /\ p \notin Senders
                    /\ \A p \in Registrars : p \notin Senders /\ p # Null
  BY OtpAssumption DEF Procs

LEMMA IdleRequest == Idle \in Request /\ Idle.pc = "idle" /\ Idle.ticket[2] = 0 /\ Idle.seen = Null
  BY DEF Idle, Request

LEMMA InitInv == Init => IInv
<1> SUFFICES ASSUME Init PROVE IInv  OBVIOUS
<1> USE OtpAssumption
<1>1. Types  BY IdleRequest DEF Init, Types
<1>2. Stamped  BY IdleRequest DEF Init, Stamped
<1>3. Creating /\ Spent  BY IdleRequest, ProcsSplit DEF Init, Creating, Spent
<1>4. Counted
  <2>1. \A c \in Codes : InFlight(c) = {}  BY IdleRequest, ProcsSplit DEF Init, InFlight
  <2>2. Cardinality({}) = 0  BY FS_EmptySet
  <2>3. \A c \in Codes : guesses[c] = 0 /\ Granted(c) = 0  BY DEF Init, Granted, Codes
  <2> QED  BY <2>1, <2>2, <2>3, IdleRequest, ProcsSplit DEF Init, Counted
<1> QED  BY <1>1, <1>2, <1>3, <1>4 DEF IInv

-----------------------------------------------------------------------------
(***************************************************************************)
(* Steps and the account.                                                  *)
(***************************************************************************)
AccountInv == Types /\ Stamped /\ Creating /\ Spent

LEMMA SendSteps ==
  ASSUME AccountInv, Counted, NEW p \in Senders, CheckUnregistered(p) \/ Issue(p)
  PROVE  AccountInv'
<1> USE OtpAssumption, ProcsSplit, IdleRequest DEF AccountInv
<1>1. CASE CheckUnregistered(p)
  BY <1>1 DEF CheckUnregistered, Types, Stamped, Creating, Spent, Request
<1>2. CASE Issue(p)
  <2>1. CASE row' = row /\ issued' = issued
    BY <1>2, <2>1 DEF Issue, Finish, Types, Stamped, Creating, Spent
  <2>2. CASE issued < MaxCodes /\ issued' = issued + 1 /\ row' = WithCode(issued + 1)
    <3>1. row' \in Row /\ row'.verified = Null /\ issued' \in 0 .. MaxCodes
      BY <2>2 DEF WithCode, Row, Types, Codes
    <3> QED  BY <1>2, <2>2, <3>1 DEF Issue, Finish, Types, Stamped, Creating, Spent
  <2> QED  BY <1>2, <2>1, <2>2 DEF Issue
<1> QED  BY <1>1, <1>2

LEMMA VerifySteps ==
  ASSUME AccountInv, NEW p \in Verifiers, VerifyStep(p), Counted
  PROVE  AccountInv'
<1> USE OtpAssumption, ProcsSplit, IdleRequest DEF AccountInv
<1>1. ASSUME NEW g \in 0 .. issued, ReserveAttempt(p, g)  PROVE AccountInv'
  <2>1. row \in Row /\ row.attempts < MaxAttempts  BY <1>1 DEF ReserveAttempt, Open, Types
  <2>2. row' \in Row /\ row'.verified = row.verified /\ row'.consumed = row.consumed
    BY <1>1, <2>1 DEF ReserveAttempt, Row
  <2> DEFINE q == [Idle EXCEPT !.pc = "compare", !.guess = g, !.id = row.id,
                               !.code = row.code, !.seen = row.verified]
  <2>3. q \in Request /\ q.pc = "compare" /\ q.ticket[2] = 0 /\ q.seen = row.verified
    <3>1. row.id \in Nat /\ row.code \in Codes /\ row.verified \in Nat \cup {Null} /\ g \in Nat
      BY <2>1 DEF Row, Types
    <3> QED  BY <3>1 DEF Request
  <2>4. req' = [req EXCEPT ![p] = q]  BY <1>1 DEF ReserveAttempt
  <2> HIDE DEF q
  <2> QED  BY <1>1, <2>1, <2>2, <2>3, <2>4 DEF ReserveAttempt, Types, Stamped, Creating, Spent
<1>2. CASE CompareCode(p)
  <2>1. guesses' \in [Codes -> Nat]  BY <1>2 DEF CompareCode, Types, Counted
  <2>2. req[p].seen \in Nat \cup {Null} /\ req[p].id \in Nat  BY DEF Types, Request
  <2>3. tickets' \subseteq Nat \X Nat /\ \A t \in tickets' : t[2] <= stamps
    BY <1>2, <2>2 DEF CompareCode, Types, Stamped
  <2>4. \/ req' = [req EXCEPT ![p] = Idle]
        \/ req' = [req EXCEPT ![p].pc = "mark"]
    BY <1>2 DEF CompareCode, Finish
  <2>5. UNCHANGED <<row, issued, stamps, accounts, lock>>  BY <1>2 DEF CompareCode
  <2>6. CASE req' = [req EXCEPT ![p] = Idle]
    BY <2>1, <2>3, <2>5, <2>6 DEF Types, Stamped, Creating, Spent
  <2>7. CASE req' = [req EXCEPT ![p].pc = "mark"]
    BY <2>1, <2>3, <2>5, <2>7 DEF Types, Stamped, Creating, Spent, Request
  <2> QED  BY <2>4, <2>6, <2>7
<1>3. CASE MarkVerified(p)
  <2>1. req' = [req EXCEPT ![p].pc = "readBack"] /\ lock = Null /\ lock' = lock
        /\ UNCHANGED <<issued, tickets, accounts, guesses>>
    BY <1>3 DEF MarkVerified
  <2>2. CASE row' = row /\ stamps' = stamps
    BY <2>1, <2>2 DEF Types, Stamped, Creating, Spent, Request
  <2>3. CASE row # Null /\ stamps' = stamps + 1
             /\ row' = [row EXCEPT !.verified = stamps + 1, !.window = TRUE]
    <3>1. row' \in Row /\ row'.verified = stamps'
      <4>1. row \in Row /\ stamps + 1 \in Nat  BY <2>3 DEF Types
      <4> QED  BY <2>3, <4>1 DEF Row
    <3>2. Types'  BY <2>1, <2>3, <3>1 DEF Types, Request
    <3>3. Stamped'
      <4>1. \A q \in Procs : req'[q].ticket = req[q].ticket /\ req'[q].seen = req[q].seen
        BY <2>1 DEF Types, Request
      <4>2. \A q \in Procs : req[q].ticket[2] \in Nat /\ req[q].seen \in Nat \cup {Null}
        BY DEF Types, Request
      <4> QED  BY <2>1, <2>3, <3>1, <4>1, <4>2 DEF Types, Stamped
    <3>4. \A q \in Registrars : req'[q] = req[q]  BY <2>1 DEF Types
    <3>5. Creating'  BY <2>1, <3>1, <3>4 DEF Creating
    <3>6. \A q \in Registrars : req[q].ticket[2] \in Nat /\ req[q].ticket[2] <= stamps
      BY DEF Types, Request, Stamped
    <3>7. Spent'  BY <2>1, <2>3, <3>1, <3>4, <3>6 DEF Spent, Types
    <3> QED  BY <3>2, <3>3, <3>5, <3>7
  <2> QED  BY <1>3, <2>2, <2>3 DEF MarkVerified
<1>4. CASE ReadBack(p)
  <2>1. tickets' \subseteq Nat \X Nat /\ \A t \in tickets' : t[2] <= stamps
    BY <1>4 DEF ReadBack, Types, Stamped, Row
  <2> QED  BY <1>4, <2>1 DEF ReadBack, Finish, Types, Stamped, Creating, Spent
<1> QED  BY <1>1, <1>2, <1>3, <1>4 DEF VerifyStep

LEMMA RegisterSteps ==
  ASSUME AccountInv, NEW p \in Registrars, RegisterStep(p)
  PROVE  AccountInv'
<1> USE OtpAssumption, ProcsSplit, IdleRequest DEF AccountInv
<1>1. ASSUME NEW t \in tickets, CheckNoAccount(p, t)  PROVE AccountInv'
  <2> DEFINE q == [Idle EXCEPT !.pc = "consume", !.ticket = t]
  <2>1. q \in Request /\ q.pc = "consume" /\ q.ticket = t /\ q.seen = Null
    BY DEF Idle, Request, Types
  <2>2. req' = [req EXCEPT ![p] = q]  BY <1>1 DEF CheckNoAccount
  <2> HIDE DEF q
  <2> QED  BY <1>1, <2>1, <2>2 DEF CheckNoAccount, Types, Stamped, Creating, Spent
<1>2. CASE Consume(p)
  <2>1. CASE Consumable(row) /\ TicketMatches(req[p].ticket, row)
    <3>1. row \in Row /\ accounts = 0
      BY <1>2, <2>1 DEF Consume, Consumable, TicketMatches, Types, Spent
    <3>2. /\ lock = Null /\ lock' = p /\ req' = [req EXCEPT ![p].pc = "create"]
          /\ UNCHANGED <<row, issued, stamps, tickets, accounts, guesses>>
      BY <1>2, <2>1 DEF Consume
    <3>3. [req[p] EXCEPT !.pc = "create"] \in Request  BY DEF Types, Request
    <3>4. Types'  BY <3>2, <3>3 DEF Types
    <3>5. Stamped'  BY <3>2 DEF Types, Stamped
    <3>6. Creating'  BY <3>1, <3>2 DEF Types, Creating
    <3>7. Spent'  BY <3>1, <3>2 DEF Spent
    <3> QED  BY <3>4, <3>5, <3>6, <3>7
  <2>2. CASE ~(Consumable(row) /\ TicketMatches(req[p].ticket, row))
    BY <1>2, <2>2 DEF Consume, Finish, Types, Stamped, Creating, Spent
  <2> QED  BY <2>1, <2>2
<1>3. CASE CreateUser(p)
  <2>1. lock = p /\ row \in Row /\ accounts = 0  BY <1>3 DEF CreateUser, Creating, Spent, Types
  <2>2. row' \in Row /\ row'.consumed = TRUE /\ row'.verified = row.verified
    BY <1>3, <2>1 DEF CreateUser, Row
  <2>3. /\ accounts' = 1 /\ lock' = Null /\ req' = [req EXCEPT ![p] = Idle]
        /\ UNCHANGED <<issued, stamps, tickets, guesses>>
    BY <1>3, <2>1 DEF CreateUser, Finish
  <2>4. Types'  BY <2>2, <2>3 DEF Types
  <2>5. Stamped'  BY <2>1, <2>2, <2>3, RowAssumption DEF Types, Stamped
  <2>6. Creating'
    <3>1. \A r \in Registrars : req'[r].pc # "create"
      <4> SUFFICES ASSUME NEW r \in Registrars, r # p  PROVE req'[r].pc # "create"
        BY <2>3 DEF Types
      <4>1. req'[r] = req[r] /\ lock # r  BY <2>1, <2>3 DEF Types
      <4> QED  BY <4>1 DEF Creating
    <3> QED  BY <2>3, <3>1 DEF Creating
  <2>7. Spent'  BY <2>2, <2>3 DEF Spent
  <2> QED  BY <2>4, <2>5, <2>6, <2>7
<1> QED  BY <1>1, <1>2, <1>3 DEF RegisterStep

LEMMA OtherSteps ==
  ASSUME AccountInv,
         (\E p \in Procs : Fail(p)) \/ CooldownOver \/ Expire \/ WindowOver \/ DeleteExpired
  PROVE  AccountInv'
<1> USE OtpAssumption, ProcsSplit, IdleRequest DEF AccountInv
<1>1. ASSUME NEW p \in Procs, Fail(p)  PROVE AccountInv'
  BY <1>1 DEF Fail, Finish, Types, Stamped, Creating, Spent
<1>2. CASE CooldownOver \/ Expire \/ WindowOver
  <2>1. row' \in Row /\ row'.verified = row.verified /\ row'.consumed = row.consumed
    BY <1>2 DEF CooldownOver, Expire, WindowOver, Types, Row
  <2>2. row # Null /\ UNCHANGED <<issued, stamps, tickets, accounts, req, lock, guesses>>
    BY <1>2 DEF CooldownOver, Expire, WindowOver
  <2> QED  BY <2>1, <2>2 DEF Types, Stamped, Creating, Spent
<1>3. CASE DeleteExpired
  BY <1>3 DEF DeleteExpired, Types, Stamped, Creating, Spent
<1> QED  BY <1>1, <1>2, <1>3

-----------------------------------------------------------------------------
(***************************************************************************)
(* Steps and the guesses.                                                  *)
(***************************************************************************)
LEMMA Flights == \A c \in Codes : /\ IsFiniteSet(InFlight(c)) /\ Cardinality(InFlight(c)) \in Nat
                                  /\ IsFiniteSet(InFlight(c)') /\ Cardinality(InFlight(c)') \in Nat
<1>1. \A c \in Codes : InFlight(c) \subseteq Verifiers /\ InFlight(c)' \subseteq Verifiers
  BY DEF InFlight
<1> QED  BY <1>1, OtpAssumption, FS_Subset, FS_CardinalityType

LEMMA GrantedNat == ASSUME Types PROVE \A c \in Codes : Granted(c) \in Nat
  BY OtpAssumption DEF Types, Row, Granted, Codes

\* A step that starts no comparison, ends none and takes no grant back.
LEMMA NoGuess ==
  ASSUME Types, Types', Counted, guesses' = guesses,
         \A c \in Codes : InFlight(c)' \subseteq InFlight(c),
         \A c \in Codes : guesses[c] + Cardinality(InFlight(c)) <= Granted(c) => Granted(c) <= Granted(c)'
  PROVE  \A c \in Codes : (guesses[c] + Cardinality(InFlight(c)) <= Granted(c))'
<1> SUFFICES ASSUME NEW c \in Codes
             PROVE  guesses'[c] + Cardinality(InFlight(c)') <= Granted(c)'
  OBVIOUS
<1>1. Cardinality(InFlight(c)') <= Cardinality(InFlight(c))  BY Flights, FS_Subset
<1>2. guesses[c] \in Nat /\ Granted(c) \in Nat  BY GrantedNat DEF Types
<1>3. Granted(c)' \in Nat  BY OtpAssumption DEF Types, Row, Granted, Codes
<1> QED  BY <1>1, <1>2, <1>3, Flights DEF Counted

LEMMA SendCounted ==
  ASSUME IInv, Types', NEW p \in Senders, CheckUnregistered(p) \/ Issue(p)
  PROVE  Counted'
<1> USE OtpAssumption, ProcsSplit, RowAssumption, IdleRequest DEF IInv
<1>1. \A q \in Verifiers : req'[q] = req[q]
  BY DEF CheckUnregistered, Issue, Finish, Types
<1>2. guesses' = guesses  BY DEF CheckUnregistered, Issue
<1>3. \A c \in Codes : InFlight(c)' \subseteq InFlight(c)  BY <1>1 DEF InFlight
<1>4. (row # Null => row.code <= issued)' /\ \A c \in Codes : Granted(c) <= Granted(c)'
  <2>1. CASE row' = row /\ issued' = issued
    BY <2>1, GrantedNat DEF Counted, Granted
  <2>2. CASE issued < MaxCodes /\ issued' = issued + 1 /\ row' = WithCode(issued + 1)
    <3>1. row' # Null /\ row'.code = issued + 1 /\ row'.attempts = 0
      <4>1. row' \in Row  BY <2>2 DEF WithCode, Row, Types, Codes
      <4> QED  BY <2>2, <4>1 DEF WithCode
    <3>2. ASSUME NEW c \in Codes  PROVE Granted(c) <= Granted(c)'
      <4>1. c \in Nat /\ issued \in Nat /\ Granted(c) \in Nat  BY GrantedNat DEF Types, Codes
      <4>2. CASE c = issued + 1
        BY <2>2, <3>1, <4>1, <4>2 DEF Counted, Granted
      <4>3. CASE c # issued + 1
        <5>1. Granted(c)' = IF c <= issued THEN MaxAttempts ELSE 0
          BY <2>2, <3>1, <4>1, <4>3 DEF Granted
        <5> QED  BY <4>1, <5>1 DEF Counted, Granted, Types, Row
      <4> QED  BY <4>2, <4>3
    <3> QED  BY <2>2, <3>1, <3>2 DEF Types
  <2> QED  BY <2>1, <2>2 DEF CheckUnregistered, Issue
<1>5. \A c \in Codes : (guesses[c] + Cardinality(InFlight(c)) <= Granted(c))'
  BY <1>2, <1>3, <1>4, NoGuess
<1> QED  BY <1>1, <1>4, <1>5 DEF Counted

LEMMA ReserveCounted ==
  ASSUME IInv, Types', NEW p \in Verifiers, NEW g \in 0 .. issued, ReserveAttempt(p, g)
  PROVE  Counted'
<1> USE OtpAssumption, ProcsSplit, RowAssumption, IdleRequest DEF IInv
<1>1. row \in Row /\ row.attempts < MaxAttempts /\ row.code \in Codes /\ row.attempts \in Nat
  BY DEF ReserveAttempt, Open, Types, Row
<1>2. row' \in Row /\ row'.code = row.code /\ row'.attempts = row.attempts + 1
  BY <1>1 DEF ReserveAttempt, Row
<1>3. req'[p].pc = "compare" /\ req'[p].code = row.code /\ req[p].pc = "idle"
  BY DEF ReserveAttempt, Types, Idle
<1>4. \A q \in Verifiers : q # p => req'[q] = req[q]  BY DEF ReserveAttempt, Types
<1>5. guesses' = guesses /\ issued' = issued  BY DEF ReserveAttempt
<1>6. ASSUME NEW c \in Codes
      PROVE  guesses'[c] + Cardinality(InFlight(c)') <= Granted(c)'
  <2>1. guesses[c] \in Nat /\ guesses[c] + Cardinality(InFlight(c)) <= Granted(c)
    BY DEF Types, Counted
  <2>2. CASE c = row.code
    <3>1. InFlight(c)' = InFlight(c) \cup {p} /\ p \notin InFlight(c)
      BY <1>3, <1>4, <2>2 DEF InFlight
    <3>2. Cardinality(InFlight(c)') = Cardinality(InFlight(c)) + 1
      BY <3>1, Flights, FS_AddElement
    <3>3. Granted(c) = row.attempts /\ Granted(c)' = row.attempts + 1
      BY <1>1, <1>2, <2>2 DEF Granted
    <3> QED  BY <1>1, <1>5, <2>1, <3>2, <3>3, Flights
  <2>3. CASE c # row.code
    <3>1. InFlight(c)' = InFlight(c)  BY <1>3, <1>4, <2>3 DEF InFlight
    <3>2. Granted(c)' = Granted(c)  BY <1>1, <1>2, <1>5, <2>3 DEF Granted
    <3> QED  BY <1>5, <2>1, <3>1, <3>2
  <2> QED  BY <2>2, <2>3
<1>7. row.code <= issued  BY <1>1 DEF Counted
<1> QED  BY <1>1, <1>2, <1>3, <1>4, <1>5, <1>6, <1>7 DEF Counted

LEMMA CompareCounted ==
  ASSUME IInv, Types', NEW p \in Verifiers, CompareCode(p)
  PROVE  Counted'
<1> USE OtpAssumption, ProcsSplit, IdleRequest DEF IInv
<1>1. req[p].pc = "compare" /\ req[p].code \in Codes /\ req'[p].pc # "compare"
  BY DEF CompareCode, Finish, Types, Request, Counted
<1>2. \A q \in Verifiers : q # p => req'[q] = req[q]  BY DEF CompareCode, Finish, Types
<1>3. row' = row /\ issued' = issued  BY DEF CompareCode
<1>4. guesses' = [guesses EXCEPT ![req[p].code] = guesses[req[p].code] + 1]  BY DEF CompareCode
<1>5. ASSUME NEW c \in Codes
      PROVE  guesses'[c] + Cardinality(InFlight(c)') <= Granted(c)'
  <2>1. guesses[c] \in Nat /\ guesses[c] + Cardinality(InFlight(c)) <= Granted(c)
    BY DEF Types, Counted
  <2>2. Granted(c)' = Granted(c)  BY <1>3 DEF Granted
  <2>3. CASE c = req[p].code
    <3>1. InFlight(c)' = InFlight(c) \ {p} /\ p \in InFlight(c)
      BY <1>1, <1>2, <2>3 DEF InFlight
    <3>2. Cardinality(InFlight(c)') = Cardinality(InFlight(c)) - 1
      BY <3>1, Flights, FS_RemoveElement
    <3>3. guesses'[c] = guesses[c] + 1
      <4>1. DOMAIN guesses = Codes  BY DEF Types
      <4> QED  BY <1>4, <2>3, <4>1
    <3> QED  BY <2>1, <2>2, <3>2, <3>3, Flights
  <2>4. CASE c # req[p].code
    <3>1. InFlight(c)' = InFlight(c)  BY <1>1, <1>2, <2>4 DEF InFlight
    <3>2. guesses'[c] = guesses[c]  BY <1>4, <2>4 DEF Types
    <3> QED  BY <2>1, <2>2, <3>1, <3>2
  <2> QED  BY <2>3, <2>4
<1> QED  BY <1>1, <1>2, <1>3, <1>5 DEF Counted

\* Every other step leaves the code of the row, its attempts and the guesses alone,
\* or deletes the row, whose code then counts as used up.
LEMMA QuietCounted ==
  ASSUME IInv, Types', issued' = issued, guesses' = guesses,
         \/ row' = row
         \/ row' = Null
         \/ row \in Row /\ row' \in Row /\ row'.code = row.code /\ row'.attempts = row.attempts,
         \A q \in Verifiers : req'[q] = req[q] \/ req'[q].pc # "compare"
  PROVE  Counted'
<1> USE OtpAssumption, RowAssumption DEF IInv
<1>1. \A c \in Codes : InFlight(c)' \subseteq InFlight(c)  BY DEF InFlight
<1>2. \A c \in Codes : Granted(c) <= Granted(c)'
  <2> SUFFICES ASSUME NEW c \in Codes  PROVE Granted(c) <= Granted(c)'
    OBVIOUS
  <2>1. Granted(c) \in Nat  BY GrantedNat
  <2>2. CASE row' = Null
    <3>1. Granted(c)' = IF c <= issued THEN MaxAttempts ELSE 0  BY <2>2 DEF Granted
    <3> QED  BY <2>1, <3>1 DEF Counted, Granted, Types, Row
  <2>3. CASE row' # Null
    <3>1. Granted(c)' = Granted(c)  BY <2>3 DEF Granted
    <3> QED  BY <2>1, <3>1
  <2> QED  BY <2>2, <2>3
<1>3. \A c \in Codes : (guesses[c] + Cardinality(InFlight(c)) <= Granted(c))'
  BY <1>1, <1>2, NoGuess
<1>4. (row # Null => row.code <= issued)'  BY DEF Counted
<1> QED  BY <1>3, <1>4 DEF Counted

-----------------------------------------------------------------------------
LEMMA NextInv == IInv /\ [Next]_vars => IInv'
<1> SUFFICES ASSUME IInv, [Next]_vars  PROVE IInv'
  OBVIOUS
<1> USE OtpAssumption, ProcsSplit, RowAssumption, IdleRequest
<1>0. AccountInv /\ Counted  BY DEF IInv, AccountInv
<1>1. ASSUME NEW p \in Senders, CheckUnregistered(p) \/ Issue(p)  PROVE IInv'
  <2>1. AccountInv'  BY <1>0, <1>1, SendSteps
  <2> QED  BY <1>1, <2>1, SendCounted DEF AccountInv, IInv
<1>2. ASSUME NEW p \in Verifiers, VerifyStep(p)  PROVE IInv'
  <2>1. AccountInv'  BY <1>0, <1>2, VerifySteps
  <2>2. Types'  BY <2>1 DEF AccountInv
  <2>3. ASSUME MarkVerified(p)  PROVE Counted'
    <3>1. row' = row \/ (row \in Row /\ row' \in Row /\ row'.code = row.code /\ row'.attempts = row.attempts)
      <4>1. row \in Row \cup {Null} /\ stamps + 1 \in Nat  BY DEF IInv, Types
      <4>2. CASE row # Null /\ row' = [row EXCEPT !.verified = stamps + 1, !.window = TRUE]
        <5>1. row \in Row  BY <4>1, <4>2
        <5> QED  BY <4>1, <4>2, <5>1 DEF Row
      <4> QED  BY <2>3, <4>2 DEF MarkVerified
    <3>2. \A q \in Verifiers : req'[q] = req[q] \/ req'[q].pc # "compare"
      BY <2>3 DEF MarkVerified, IInv, Types, Request
    <3>3. issued' = issued /\ guesses' = guesses  BY <2>3 DEF MarkVerified
    <3> QED  BY <2>2, <3>1, <3>2, <3>3, QuietCounted
  <2>4. ASSUME ReadBack(p)  PROVE Counted'
    BY <2>2, <2>4, QuietCounted DEF ReadBack, Finish, IInv, Types
  <2>5. Counted'  BY <1>2, <2>2, <2>3, <2>4, ReserveCounted, CompareCounted DEF VerifyStep, IInv
  <2> QED  BY <2>1, <2>5 DEF AccountInv, IInv
<1>3. ASSUME NEW p \in Registrars, RegisterStep(p)  PROVE IInv'
  <2>1. AccountInv'  BY <1>0, <1>3, RegisterSteps
  <2>2. \A q \in Verifiers : req'[q] = req[q]
    BY <1>3 DEF RegisterStep, CheckNoAccount, Consume, CreateUser, Finish, IInv, Types
  <2>3. \/ row' = row
        \/ row \in Row /\ row' \in Row /\ row'.code = row.code /\ row'.attempts = row.attempts
    <3>1. CASE CreateUser(p)
      <4>1. row \in Row  BY <3>1, <1>0 DEF CreateUser, AccountInv, Creating
      <4> QED  BY <3>1, <4>1 DEF CreateUser, Row
    <3> QED  BY <1>3, <3>1 DEF RegisterStep, CheckNoAccount, Consume
  <2>4. issued' = issued /\ guesses' = guesses
    BY <1>3 DEF RegisterStep, CheckNoAccount, Consume, CreateUser
  <2>5. Counted'  BY <2>1, <2>2, <2>3, <2>4, QuietCounted DEF AccountInv
  <2> QED  BY <2>1, <2>5 DEF AccountInv, IInv
<1>4. ASSUME (\E p \in Procs : Fail(p)) \/ CooldownOver \/ Expire \/ WindowOver \/ DeleteExpired
      PROVE  IInv'
  <2>1. AccountInv'  BY <1>0, <1>4, OtherSteps
  <2>2. \A q \in Verifiers : req'[q] = req[q] \/ req'[q].pc # "compare"
    BY <1>4 DEF Fail, Finish, CooldownOver, Expire, WindowOver, DeleteExpired, IInv, Types
  <2>3. \/ row' = row
        \/ row' = Null
        \/ row \in Row /\ row' \in Row /\ row'.code = row.code /\ row'.attempts = row.attempts
    <3>1. row # Null => row \in Row  BY DEF IInv, Types
    <3>2. CASE CooldownOver  BY <3>1, <3>2 DEF CooldownOver, Row
    <3>3. CASE Expire  BY <3>1, <3>3 DEF Expire, Row
    <3>4. CASE WindowOver  BY <3>1, <3>4 DEF WindowOver, Row
    <3>5. row' = row \/ row' = Null \/ CooldownOver \/ Expire \/ WindowOver
      BY <1>4 DEF Fail, DeleteExpired
    <3> QED  BY <3>2, <3>3, <3>4, <3>5
  <2>4. issued' = issued /\ guesses' = guesses
    BY <1>4 DEF Fail, CooldownOver, Expire, WindowOver, DeleteExpired
  <2>5. Counted'  BY <2>1, <2>2, <2>3, <2>4, QuietCounted DEF AccountInv
  <2> QED  BY <2>1, <2>5 DEF AccountInv, IInv
<1>5. CASE UNCHANGED vars
  <2>1. AccountInv'
    BY <1>0, <1>5 DEF vars, AccountInv, Types, Stamped, Creating, Spent
  <2>2. Counted'
    BY <1>0, <1>5, <2>1, QuietCounted DEF vars, AccountInv
  <2> QED  BY <2>1, <2>2 DEF AccountInv, IInv
<1> QED  BY <1>1, <1>2, <1>3, <1>4, <1>5 DEF Next

(***************************************************************************)
(* For any number of requests and any limit: no code is compared with more *)
(* guesses than OTP_MAX_ATTEMPTS, because reserveAttempt counts in the     *)
(* statement that admits the guess and a new code replaces the old one.    *)
(***************************************************************************)
THEOREM GuessesLimited == Spec => []GuessesBounded
<1>1. IInv => GuessesBounded
  <2> SUFFICES ASSUME IInv, NEW c \in Codes  PROVE guesses[c] <= MaxAttempts
    BY DEF GuessesBounded
  <2>1. guesses[c] \in Nat /\ guesses[c] + Cardinality(InFlight(c)) <= Granted(c)
    BY DEF IInv, Types, Counted
  <2>2. Granted(c) \in Nat /\ Granted(c) <= MaxAttempts
    BY GrantedNat, OtpAssumption DEF IInv, Types, Row, Granted
  <2> QED  BY <2>1, <2>2, Flights, OtpAssumption
<1> QED  BY <1>1, InitInv, NextInv, PTL DEF Spec

(***************************************************************************)
(* For any number of registrations in parallel with resends and            *)
(* verifications of the address: register creates one account at most,     *)
(* because consumeForRegistration keeps the row until the commit and takes *)
(* it for the verification of the presented ticket only.                   *)
(***************************************************************************)
THEOREM SingleAccount == Spec => []OneAccount
<1>1. IInv => OneAccount  BY DEF IInv, Types, Spent, OneAccount
<1> QED  BY <1>1, InitInv, NextInv, PTL DEF Spec

-----------------------------------------------------------------------------
(***************************************************************************)
(* Part 2: the links of an account.                                        *)
(***************************************************************************)
LinkRequest == [pc : {"idle", "dropLink", "verify", "deleteLink", "deleteUnused", "createLink",
                  "dropReset", "setPassword", "markUsed"},
            link : Links \cup {None}, todo : SUBSET Links, held : SUBSET Links]

LinkTypes ==
  /\ verified \in BOOLEAN \cup {None}
  /\ rlink \in [Links -> {"none", "unused", "used", "gone"}]
  /\ work \in [LinkHandlers -> LinkRequest]
  /\ notices \in Nat
  /\ resets \in [Links -> Nat] /\ overlap \in [Links -> Nat]

\* A reset works on a link, and handlers only meet links that were issued.
Working(p) ==
  /\ work[p].pc \in {"dropReset", "setPassword", "markUsed"} => work[p].link \in Links
  /\ work[p].pc \in {"deleteUnused", "createLink"} => \A l \in work[p].todo : rlink[l] # "none"
  /\ \A l \in work[p].held : rlink[l] # "none"

\* The verification link is there exactly until the account is verified or the
\* link is dropped.
LinkUnspent == vlink = "live" => verified = FALSE

\* The resets that read link l unused and have not committed.
Using(l) == {q \in Resetters : work[q].link = l /\ work[q].pc \in {"setPassword", "markUsed"}}

\* Once used, a link is only available to the resets counted at its first use.
Closing(l) ==
  /\ rlink[l] = "none" => resets[l] = 0
  /\ resets[l] > 0 => /\ rlink[l] # "unused"
                      /\ resets[l] + Cardinality(Using(l)) <= 1 + overlap[l]

\* A request about to issue a link has deleted, or seen used or deleted, every
\* link it found.
Swept(p) ==
  work[p].pc = "createLink" => \A l \in work[p].todo : l \in work[p].held \/ rlink[l] # "unused"

LinkInv ==
  /\ LinkTypes
  /\ \A p \in LinkHandlers : Working(p) /\ Swept(p)
  /\ LinkUnspent /\ VerifiedWithOneNotice
  /\ \A l \in Links : Closing(l)

-----------------------------------------------------------------------------
LEMMA LinkIdle == /\ NoWork \in LinkRequest /\ NoWork.pc = "idle" /\ NoWork.link = None
                  /\ NoWork.todo = {} /\ NoWork.held = {}
  BY DEF NoWork, LinkRequest

LEMMA LinkProcs == /\ Followers \subseteq LinkHandlers
                   /\ Requesters \subseteq LinkHandlers /\ Resetters \subseteq LinkHandlers
                   /\ \A p \in Resetters : p \notin Followers /\ p \notin Requesters
                   /\ \A p \in Requesters : p \notin Followers
  BY KindsAssumption DEF LinkHandlers

LEMMA UsingFinite ==
  \A l \in Links : /\ IsFiniteSet(Using(l)) /\ Cardinality(Using(l)) \in Nat
                   /\ IsFiniteSet(Using(l)') /\ Cardinality(Using(l)') \in Nat
<1>1. \A l \in Links : Using(l) \subseteq Resetters /\ Using(l)' \subseteq Resetters
  BY DEF Using
<1> QED  BY <1>1, KindsAssumption, FS_Subset, FS_CardinalityType

\* Rows of reset links are issued once and never become unused again.
Moves(l) == /\ rlink'[l] = "none" => rlink[l] = "none"
            /\ rlink'[l] = "unused" => rlink[l] \in {"none", "unused"}

\* What others do to the links does not disturb a handler.
LEMMA HandlerKept ==
  ASSUME LinkInv, NEW p \in LinkHandlers, work'[p] = work[p], \A l \in Links : Moves(l)
  PROVE  Working(p)' /\ Swept(p)'
<1>1. work[p].todo \subseteq Links /\ work[p].held \subseteq Links
  BY DEF LinkInv, LinkTypes, LinkRequest
<1>2. Working(p) /\ Swept(p)  BY DEF LinkInv
<1> QED  BY <1>1, <1>2 DEF Working, Swept, Moves

\* A link stays closed unless a reset commits or takes it up.
LEMMA ClosingKept ==
  ASSUME LinkInv, NEW l \in Links, Moves(l), resets'[l] = resets[l], overlap'[l] = overlap[l],
         Using(l)' \subseteq Using(l) \/ rlink[l] = "unused"
  PROVE  Closing(l)'
<1>1. Closing(l) /\ resets[l] \in Nat /\ overlap[l] \in Nat  BY DEF LinkInv, LinkTypes
<1>2. CASE rlink[l] = "unused"  BY <1>1, <1>2 DEF Closing, Moves
<1>3. CASE Using(l)' \subseteq Using(l)
  <2>1. Cardinality(Using(l)') <= Cardinality(Using(l))  BY <1>3, UsingFinite, FS_Subset
  <2> QED  BY <1>1, <2>1, UsingFinite DEF Closing, Moves
<1> QED  BY <1>2, <1>3

\* A handler moves on, or ends, and leaves the links alone.
LEMMA RequestStep ==
  ASSUME LinkInv, NEW p \in LinkHandlers, NEW h \in LinkRequest, work' = [work EXCEPT ![p] = h],
         UNCHANGED <<rlink, resets, overlap>>,
         Working(p)', Swept(p)',
         \/ h.pc \notin {"setPassword", "markUsed"}
         \/ work[p].link = h.link /\ work[p].pc \in {"setPassword", "markUsed"}
         \/ h.link \in Links /\ rlink[h.link] = "unused"
  PROVE  /\ work' \in [LinkHandlers -> LinkRequest]
         /\ \A q \in LinkHandlers : Working(q)' /\ Swept(q)'
         /\ \A l \in Links : Closing(l)'
<1>1. \A l \in Links : Moves(l)  BY DEF Moves
<1>2. /\ work' \in [LinkHandlers -> LinkRequest] /\ work'[p] = h
      /\ \A q \in LinkHandlers \ {p} : work'[q] = work[q]
  BY DEF LinkInv, LinkTypes
<1>3. ASSUME NEW l \in Links  PROVE Closing(l)'
  <2>1. Using(l)' \subseteq Using(l) \/ rlink[l] = "unused"
    BY <1>2, LinkProcs DEF Using
  <2> QED  BY <1>1, <2>1, ClosingKept
<1> QED  BY <1>1, <1>2, <1>3, HandlerKept

\* A handler ends.
LEMMA EndStep ==
  ASSUME LinkInv, NEW p \in LinkHandlers, EndWork(p),
         rlink' \in [Links -> {"none", "unused", "used", "gone"}],
         UNCHANGED <<resets, overlap>>, \A l \in Links : Moves(l)
  PROVE  /\ work' \in [LinkHandlers -> LinkRequest]
         /\ \A q \in LinkHandlers : Working(q)' /\ Swept(q)'
         /\ \A l \in Links : Closing(l)'
<1>1. /\ work' \in [LinkHandlers -> LinkRequest] /\ work'[p] = NoWork
      /\ \A q \in LinkHandlers \ {p} : work'[q] = work[q]
  BY LinkIdle DEF LinkInv, LinkTypes, EndWork
<1>2. Working(p)' /\ Swept(p)'  BY <1>1, LinkIdle DEF Working, Swept
<1>3. \A l \in Links : Using(l)' \subseteq Using(l)  BY <1>1, LinkIdle, LinkProcs DEF Using
<1> QED  BY <1>1, <1>2, <1>3, HandlerKept, ClosingKept

-----------------------------------------------------------------------------
LEMMA LinkInitInv == LinkInit => LinkInv
<1> SUFFICES ASSUME LinkInit  PROVE LinkInv  OBVIOUS
<1>1. LinkTypes  BY LinkIdle DEF LinkInit, LinkTypes
<1>2. \A p \in LinkHandlers : Working(p) /\ Swept(p)  BY LinkIdle DEF LinkInit, Working, Swept
<1>3. LinkUnspent /\ VerifiedWithOneNotice
  BY KindsAssumption DEF LinkInit, LinkUnspent, VerifiedWithOneNotice
<1>4. \A l \in Links : Closing(l)  BY DEF LinkInit, Closing
<1> QED  BY <1>1, <1>2, <1>3, <1>4 DEF LinkInv

LEMMA VerifyInv ==
  ASSUME LinkInv, NEW p \in Followers,
         VerifyFind(p) \/ VerifyExpired(p) \/ VerifyUser(p) \/ VerifyDelete(p)
  PROVE  LinkInv'
<1> USE LinkProcs, KindsAssumption
<1>1. CASE VerifyFind(p) \/ VerifyUser(p)
  <2>1. PICK label \in {"dropLink", "verify", "deleteLink"} : work' = [work EXCEPT ![p].pc = label]
    BY <1>1 DEF VerifyFind, VerifyUser, Goto
  <2> DEFINE h == [work[p] EXCEPT !.pc = label]
  <2>2. h \in LinkRequest /\ h.pc = label /\ h.held = work[p].held /\ work' = [work EXCEPT ![p] = h]
    BY <2>1 DEF LinkInv, LinkTypes, LinkRequest
  <2> HIDE DEF h
  <2>3. UNCHANGED <<verified, vlink, rlink, notices, resets, overlap>>
    BY <1>1 DEF VerifyFind, VerifyUser
  <2>4. Working(p)' /\ Swept(p)'
    <3>1. work'[p] = h /\ Working(p)  BY <2>2 DEF LinkInv, LinkTypes
    <3> QED  BY <2>1, <2>2, <2>3, <3>1 DEF Working, Swept
  <2>5. /\ work' \in [LinkHandlers -> LinkRequest]
        /\ \A q \in LinkHandlers : Working(q)' /\ Swept(q)'
        /\ \A l \in Links : Closing(l)'
    BY <2>1, <2>2, <2>3, <2>4, RequestStep
  <2> QED  BY <2>3, <2>5 DEF LinkInv, LinkTypes, LinkUnspent, VerifiedWithOneNotice
<1>2. CASE VerifyExpired(p) \/ VerifyDelete(p)
  <2>1. EndWork(p) /\ UNCHANGED <<rlink, resets, overlap>>
    BY <1>2 DEF VerifyExpired, VerifyDelete
  <2>2. /\ work' \in [LinkHandlers -> LinkRequest]
        /\ \A q \in LinkHandlers : Working(q)' /\ Swept(q)'
        /\ \A l \in Links : Closing(l)'
    BY <2>1, EndStep DEF Moves, LinkInv, LinkTypes
  <2>3. /\ verified' \in BOOLEAN \cup {None} /\ notices' \in Nat
        /\ LinkUnspent' /\ VerifiedWithOneNotice'
    <3>1. CASE verified' = verified /\ notices' = notices /\ vlink' # "live"
      BY <3>1 DEF LinkInv, LinkTypes, LinkUnspent, VerifiedWithOneNotice
    <3>2. CASE vlink = "live" /\ vlink' = "gone" /\ verified' = TRUE /\ notices' = notices + 1
      <4>1. verified = FALSE  BY <3>2 DEF LinkInv, LinkUnspent
      <4>2. notices = 0  BY <4>1 DEF LinkInv, VerifiedWithOneNotice
      <4> QED  BY <3>2, <4>2 DEF LinkUnspent, VerifiedWithOneNotice
    <3> QED  BY <1>2, <3>1, <3>2 DEF VerifyExpired, VerifyDelete
  <2> QED  BY <2>1, <2>2, <2>3 DEF LinkInv, LinkTypes
<1> QED  BY <1>1, <1>2

LEMMA RequestInv ==
  ASSUME LinkInv, NEW p \in Requesters, RequestReset(p) \/ DeleteUnused(p) \/ CreateLink(p)
  PROVE  LinkInv'
<1> USE LinkProcs
<1>1. CASE RequestReset(p)
  <2> DEFINE T == {l \in Links : rlink[l] = "unused"}
             h == [work[p] EXCEPT !.pc = "deleteUnused", !.todo = T]
  <2>1. /\ h \in LinkRequest /\ h.pc = "deleteUnused" /\ h.held = work[p].held /\ h.todo = T
        /\ work' = [work EXCEPT ![p] = h]
    BY <1>1 DEF RequestReset, LinkInv, LinkTypes, LinkRequest
  <2>2. UNCHANGED <<verified, vlink, rlink, notices, resets, overlap>>  BY <1>1 DEF RequestReset
  <2> HIDE DEF h
  <2>3. Working(p)' /\ Swept(p)'
    <3>1. work'[p] = h /\ Working(p)  BY <2>1 DEF LinkInv, LinkTypes
    <3> QED  BY <2>1, <2>2, <3>1 DEF Working, Swept
  <2>4. /\ work' \in [LinkHandlers -> LinkRequest]
        /\ \A q \in LinkHandlers : Working(q)' /\ Swept(q)'
        /\ \A l \in Links : Closing(l)'
    BY <2>1, <2>2, <2>3, RequestStep
  <2> QED  BY <2>2, <2>4 DEF LinkInv, LinkTypes, LinkUnspent, VerifiedWithOneNotice
<1>2. CASE DeleteUnused(p)
  <2> DEFINE T == {l \in work[p].todo : rlink[l] = "unused"}
             h == [work[p] EXCEPT !.pc = "createLink", !.held = T]
  <2>1. /\ h \in LinkRequest /\ h.pc = "createLink" /\ h.held = T /\ h.todo = work[p].todo
        /\ work' = [work EXCEPT ![p] = h]
    BY <1>2 DEF DeleteUnused, LinkInv, LinkTypes, LinkRequest
  <2>2. UNCHANGED <<verified, vlink, rlink, notices, resets, overlap>>  BY <1>2 DEF DeleteUnused
  <2> HIDE DEF h
  <2>3. Working(p)' /\ Swept(p)'
    <3>1. work'[p] = h /\ Working(p) /\ work[p].pc = "deleteUnused"
      BY <1>2, <2>1 DEF DeleteUnused, LinkInv, LinkTypes
    <3> QED  BY <2>1, <2>2, <3>1 DEF Working, Swept
  <2>4. /\ work' \in [LinkHandlers -> LinkRequest]
        /\ \A q \in LinkHandlers : Working(q)' /\ Swept(q)'
        /\ \A l \in Links : Closing(l)'
    BY <2>1, <2>2, <2>3, RequestStep
  <2> QED  BY <2>2, <2>4 DEF LinkInv, LinkTypes, LinkUnspent, VerifiedWithOneNotice
<1>3. CASE CreateLink(p)
  <2>1. EndWork(p) /\ UNCHANGED <<verified, vlink, notices, resets, overlap>>
    BY <1>3 DEF CreateLink
  <2>2. /\ rlink' \in [Links -> {"none", "unused", "used", "gone"}]
        /\ \A l \in Links : Moves(l)
    BY <1>3 DEF CreateLink, Moves, LinkInv, LinkTypes
  <2>3. /\ work' \in [LinkHandlers -> LinkRequest]
        /\ \A q \in LinkHandlers : Working(q)' /\ Swept(q)'
        /\ \A l \in Links : Closing(l)'
    BY <2>1, <2>2, EndStep
  <2> QED  BY <2>1, <2>2, <2>3 DEF LinkInv, LinkTypes, LinkUnspent, VerifiedWithOneNotice
<1> QED  BY <1>1, <1>2, <1>3

\* The reset that commits leaves Using; the first one counts those that stay in it.
LEMMA CommitCloses ==
  ASSUME LinkInv, NEW p \in Resetters, NEW l \in Links, l = work[p].link, work[p].pc = "markUsed",
         EndWork(p), Committed(p, l), rlink'[l] = "used"
  PROVE  Closing(l)'
<1> USE LinkProcs
<1>1. work'[p] = NoWork /\ \A q \in LinkHandlers \ {p} : work'[q] = work[q]
  BY DEF EndWork, LinkInv, LinkTypes
<1>2. Using(l)' = Using(l) \ {p} /\ p \in Using(l)  BY <1>1, LinkIdle DEF Using
<1>3. Cardinality(Using(l)') = Cardinality(Using(l)) - 1
  BY <1>2, UsingFinite, FS_RemoveElement
<1>4. Closing(l) /\ resets[l] \in Nat /\ overlap[l] \in Nat /\ resets'[l] = resets[l] + 1
  BY DEF LinkInv, LinkTypes, Committed
<1>5. CASE resets[l] > 0
  <2>1. overlap'[l] = overlap[l]  BY <1>5 DEF Committed
  <2> QED  BY <1>3, <1>4, <1>5, <2>1, UsingFinite DEF Closing
<1>6. CASE ~(resets[l] > 0)
  <2> DEFINE O == {q \in Resetters \ {p} : work[q].link = l}
  <2>1. overlap'[l] = Cardinality(O)  BY <1>6 DEF Committed, LinkInv, LinkTypes
  <2>2. Using(l)' \subseteq O  BY <1>2 DEF Using
  <2>3. IsFiniteSet(O)  BY KindsAssumption, FS_Subset
  <2>4. Cardinality(Using(l)') <= Cardinality(O) /\ Cardinality(O) \in Nat
    BY <2>2, <2>3, FS_Subset, FS_CardinalityType
  <2> HIDE DEF O
  <2> QED  BY <1>4, <1>6, <2>1, <2>4, UsingFinite DEF Closing
<1> QED  BY <1>5, <1>6

LEMMA ResetInv ==
  ASSUME LinkInv, NEW p \in Resetters,
         \/ ResetExpired(p) \/ SetPassword(p) \/ MarkUsed(p)
         \/ \E l \in Links : ResetFind(p, l)
  PROVE  LinkInv'
<1> USE LinkProcs
<1>1. ASSUME NEW l \in Links, ResetFind(p, l)  PROVE LinkInv'
  <2> DEFINE label == IF l \in expired THEN "dropReset" ELSE "setPassword"
             h == [work[p] EXCEPT !.link = l, !.pc = label]
  <2>1. /\ h \in LinkRequest /\ h.pc = label /\ h.held = work[p].held /\ h.link = l
        /\ label \in {"dropReset", "setPassword"}
        /\ work' = [work EXCEPT ![p] = h]
    BY <1>1 DEF ResetFind, LinkInv, LinkTypes, LinkRequest
  <2>2. UNCHANGED <<verified, vlink, rlink, notices, resets, overlap>>  BY <1>1 DEF ResetFind
  <2>3. label = "setPassword" => rlink[l] = "unused"  BY <1>1 DEF ResetFind
  <2> HIDE DEF h, label
  <2>4. Working(p)' /\ Swept(p)'
    <3>1. work'[p] = h /\ Working(p)  BY <2>1 DEF LinkInv, LinkTypes
    <3> QED  BY <2>1, <2>2, <3>1 DEF Working, Swept
  <2>5. /\ work' \in [LinkHandlers -> LinkRequest]
        /\ \A q \in LinkHandlers : Working(q)' /\ Swept(q)'
        /\ \A k \in Links : Closing(k)'
    BY <2>1, <2>2, <2>3, <2>4, RequestStep
  <2> QED  BY <2>2, <2>5 DEF LinkInv, LinkTypes, LinkUnspent, VerifiedWithOneNotice
<1>2. CASE ResetExpired(p)
  <2>1. EndWork(p) /\ UNCHANGED <<verified, vlink, notices, resets, overlap>>
    BY <1>2 DEF ResetExpired
  <2>2. /\ rlink' \in [Links -> {"none", "unused", "used", "gone"}]
        /\ \A l \in Links : Moves(l)
    BY <1>2 DEF ResetExpired, Moves, LinkInv, LinkTypes
  <2>3. /\ work' \in [LinkHandlers -> LinkRequest]
        /\ \A q \in LinkHandlers : Working(q)' /\ Swept(q)'
        /\ \A l \in Links : Closing(l)'
    BY <2>1, <2>2, EndStep
  <2> QED  BY <2>1, <2>2, <2>3 DEF LinkInv, LinkTypes, LinkUnspent, VerifiedWithOneNotice
<1>3. CASE SetPassword(p)
  <2> DEFINE h == [work[p] EXCEPT !.pc = "markUsed"]
  <2>1. /\ h \in LinkRequest /\ h.pc = "markUsed" /\ h.held = work[p].held /\ h.link = work[p].link
        /\ work' = [work EXCEPT ![p] = h]
    BY <1>3 DEF SetPassword, Goto, LinkInv, LinkTypes, LinkRequest
  <2>2. /\ UNCHANGED <<verified, vlink, rlink, notices, resets, overlap>>
        /\ work[p].pc = "setPassword"
    BY <1>3 DEF SetPassword
  <2> HIDE DEF h
  <2>3. Working(p)' /\ Swept(p)'
    <3>1. work'[p] = h /\ Working(p)  BY <2>1 DEF LinkInv, LinkTypes
    <3> QED  BY <2>1, <2>2, <3>1 DEF Working, Swept
  <2>4. /\ work' \in [LinkHandlers -> LinkRequest]
        /\ \A q \in LinkHandlers : Working(q)' /\ Swept(q)'
        /\ \A l \in Links : Closing(l)'
    BY <2>1, <2>2, <2>3, RequestStep
  <2> QED  BY <2>2, <2>4 DEF LinkInv, LinkTypes, LinkUnspent, VerifiedWithOneNotice
<1>4. CASE MarkUsed(p)
  <2>1. PICK l \in Links : l = work[p].link
    BY <1>4 DEF MarkUsed, LinkInv, Working
  <2>2. EndWork(p) /\ UNCHANGED <<verified, vlink, notices>> /\ work[p].pc = "markUsed"
    BY <1>4 DEF MarkUsed
  <2>3. CASE UNCHANGED <<rlink, resets, overlap>>
    <3>1. rlink' \in [Links -> {"none", "unused", "used", "gone"}] /\ \A k \in Links : Moves(k)
      BY <2>3 DEF Moves, LinkInv, LinkTypes
    <3>2. /\ work' \in [LinkHandlers -> LinkRequest]
          /\ \A q \in LinkHandlers : Working(q)' /\ Swept(q)'
          /\ \A k \in Links : Closing(k)'
      BY <2>2, <2>3, <3>1, EndStep
    <3> QED  BY <2>2, <2>3, <3>2 DEF LinkInv, LinkTypes, LinkUnspent, VerifiedWithOneNotice
  <2>4. CASE Present(l) /\ rlink' = [rlink EXCEPT ![l] = "used"] /\ Committed(p, l)
    <3>1. /\ rlink' \in [Links -> {"none", "unused", "used", "gone"}]
          /\ rlink'[l] = "used" /\ \A k \in Links : Moves(k)
      BY <2>4 DEF Moves, Present, LinkInv, LinkTypes
    <3>2. /\ work' \in [LinkHandlers -> LinkRequest] /\ work'[p] = NoWork
          /\ \A q \in LinkHandlers \ {p} : work'[q] = work[q]
      BY <2>2, LinkIdle DEF EndWork, LinkInv, LinkTypes
    <3>3. resets' \in [Links -> Nat] /\ overlap' \in [Links -> Nat]
      <4>1. Cardinality({q \in Resetters \ {p} : work[q].link = l}) \in Nat
        BY KindsAssumption, FS_Subset, FS_CardinalityType
      <4> QED  BY <2>4, <4>1 DEF Committed, LinkInv, LinkTypes
    <3>4. \A q \in LinkHandlers : Working(q)' /\ Swept(q)'
      <4>1. Working(p)' /\ Swept(p)'  BY <3>2, LinkIdle DEF Working, Swept
      <4> QED  BY <3>1, <3>2, <4>1, HandlerKept
    <3>5. Closing(l)'  BY <2>1, <2>2, <2>4, <3>1, CommitCloses
    <3>6. ASSUME NEW k \in Links, k # l  PROVE Closing(k)'
      <4>1. resets'[k] = resets[k] /\ overlap'[k] = overlap[k]
        BY <2>4, <3>6 DEF Committed, LinkInv, LinkTypes
      <4>2. Using(k)' \subseteq Using(k)  BY <3>2, LinkIdle DEF Using
      <4> QED  BY <3>1, <4>1, <4>2, ClosingKept
    <3> QED
      BY <2>2, <3>1, <3>2, <3>3, <3>4, <3>5, <3>6
         DEF LinkInv, LinkTypes, LinkUnspent, VerifiedWithOneNotice
  <2> QED  BY <1>4, <2>1, <2>3, <2>4 DEF MarkUsed
<1> QED  BY <1>1, <1>2, <1>3, <1>4

LEMMA OtherInv ==
  ASSUME LinkInv,
         \/ Register \/ CleanupVerification \/ CleanupResets
         \/ \E l \in Links \cup {"v"} : ExpireLink(l)
         \/ \E p \in LinkHandlers : Abort(p)
  PROVE  LinkInv'
<1>1. ASSUME NEW p \in LinkHandlers, Abort(p)  PROVE LinkInv'
  <2>1. EndWork(p) /\ UNCHANGED <<verified, vlink, rlink, notices, resets, overlap>>
    BY <1>1 DEF Abort
  <2>2. rlink' \in [Links -> {"none", "unused", "used", "gone"}] /\ \A k \in Links : Moves(k)
    BY <2>1 DEF Moves, LinkInv, LinkTypes
  <2>3. /\ work' \in [LinkHandlers -> LinkRequest]
        /\ \A q \in LinkHandlers : Working(q)' /\ Swept(q)'
        /\ \A l \in Links : Closing(l)'
    BY <2>1, <2>2, EndStep
  <2> QED  BY <2>1, <2>2, <2>3 DEF LinkInv, LinkTypes, LinkUnspent, VerifiedWithOneNotice
<1>2. CASE \/ Register \/ CleanupVerification \/ CleanupResets
           \/ \E l \in Links \cup {"v"} : ExpireLink(l)
  <2>1. UNCHANGED <<work, resets, overlap>>
    BY <1>2 DEF Register, CleanupVerification, CleanupResets, ExpireLink
  <2>2. rlink' \in [Links -> {"none", "unused", "used", "gone"}] /\ \A k \in Links : Moves(k)
    BY <1>2 DEF Register, CleanupVerification, CleanupResets, ExpireLink, Moves, LinkInv, LinkTypes
  <2>3. \A q \in LinkHandlers : Working(q)' /\ Swept(q)'  BY <2>1, <2>2, HandlerKept
  <2>4. ASSUME NEW l \in Links  PROVE Closing(l)'
    <3>1. Using(l)' = Using(l)  BY <2>1 DEF Using
    <3> QED  BY <2>1, <2>2, <3>1, ClosingKept
  <2>5. /\ verified' \in BOOLEAN \cup {None} /\ notices' \in Nat
        /\ LinkUnspent' /\ VerifiedWithOneNotice'
    BY <1>2, KindsAssumption
       DEF Register, CleanupVerification, CleanupResets, ExpireLink, LinkInv, LinkTypes, LinkUnspent,
           VerifiedWithOneNotice
  <2> QED  BY <2>1, <2>2, <2>3, <2>4, <2>5 DEF LinkInv, LinkTypes
<1> QED  BY <1>1, <1>2

LEMMA LinkNextInv == LinkInv /\ [LinkNext]_linkVars => LinkInv'
<1> SUFFICES ASSUME LinkInv, [LinkNext]_linkVars  PROVE LinkInv'  OBVIOUS
<1>1. CASE UNCHANGED linkVars
  BY <1>1 DEF linkVars, LinkInv, LinkTypes, Working, Swept, LinkUnspent,
              VerifiedWithOneNotice, Closing, Using
<1>2. CASE LinkNext  BY <1>2, VerifyInv, RequestInv, ResetInv, OtherInv DEF LinkNext
<1> QED  BY <1>1, <1>2

-----------------------------------------------------------------------------
\* However many requests follow the verification link at once, and whatever deletes
\* it meanwhile, the account is verified exactly with one success mail
\* (verifyEmail).
THEOREM VerifiedOnce == LinkSpec => []VerifiedWithOneNotice
<1>1. LinkInv => VerifiedWithOneNotice  BY DEF LinkInv
<1> QED  BY <1>1, LinkInitInv, LinkNextInv, PTL DEF LinkSpec

\* For any number of resets in parallel: after a link was used, only those use it
\* again that had read it unused before (used_at in resetPassword).
THEOREM UsedLinksClose == LinkSpec => []UsedLinkIsClosed
<1>1. LinkInv => UsedLinkIsClosed
  <2> SUFFICES ASSUME LinkInv, NEW l \in Links  PROVE resets[l] <= 1 + overlap[l]
    BY DEF UsedLinkIsClosed
  <2> QED  BY UsingFinite DEF LinkInv, LinkTypes, Closing
<1> QED  BY <1>1, LinkInitInv, LinkNextInv, PTL DEF LinkSpec

\* No step sets a password through a link whose row is gone, however long ago the
\* reset read it: updatePasswordResetToken updates by the unique token.
THEOREM DeletedLinksSetNothing == LinkSpec => DeletedLinkSetsNothing
<1>1. ASSUME LinkInv, [LinkNext]_linkVars, NEW l \in Links, rlink[l] = "gone"
      PROVE  resets'[l] = resets[l]
  <2>1. ASSUME NEW p \in Resetters, MarkUsed(p)  PROVE resets'[l] = resets[l]
    BY <1>1, <2>1 DEF MarkUsed, Committed, Present, LinkInv, LinkTypes
  <2> QED
    BY <1>1, <2>1 DEF LinkNext, linkVars, Register, VerifyFind, VerifyExpired, VerifyUser, VerifyDelete,
         RequestReset, DeleteUnused, CreateLink, ResetFind, ResetExpired, SetPassword, ExpireLink,
         CleanupVerification, CleanupResets, Abort
<1>2. LinkInv /\ [LinkNext]_linkVars =>
        [\A l \in Links : rlink[l] = "gone" => resets'[l] = resets[l]]_linkVars
  BY <1>1
<1> QED  BY <1>2, LinkInitInv, LinkNextInv, PTL DEF LinkSpec, DeletedLinkSetsNothing

\* A request that issues a link ends every link it found, whatever other requests
\* issue, use or delete between its DELETE and its commit (requestPasswordReset).
THEOREM OlderLinksEnded == LinkSpec => OlderLinksEnd
<1>1. ASSUME LinkInv, [LinkNext]_linkVars, NEW p \in Requesters, NEW l \in work[p].todo,
             work[p].pc = "createLink", work'[p].pc = "idle", rlink' # rlink
      PROVE  rlink'[l] # "unused"
  <2> USE LinkProcs
  <2>1. l \in Links /\ rlink[l] # "none" /\ (l \in work[p].held \/ rlink[l] # "unused")
    BY <1>1 DEF LinkInv, LinkTypes, LinkRequest, Working, Swept
  <2>2. CASE CreateLink(p)
    BY <2>1, <2>2 DEF CreateLink
  <2>3. ASSUME NEW q \in LinkHandlers, q # p, EndWork(q)  PROVE FALSE
    BY <1>1, <2>3 DEF EndWork, LinkInv, LinkTypes
  <2>4. CASE work' = work  BY <1>1, <2>4
  <2> QED
    BY <1>1, <2>2, <2>3, <2>4
       DEF LinkNext, linkVars, Register, VerifyFind, VerifyExpired, VerifyUser, VerifyDelete,
         RequestReset, DeleteUnused, CreateLink, ResetFind, ResetExpired, SetPassword, MarkUsed,
         ExpireLink, CleanupVerification, CleanupResets, Abort
<1>2. LinkInv /\ [LinkNext]_linkVars =>
        [\A p \in Requesters : \A l \in work[p].todo :
           work[p].pc = "createLink" /\ work'[p].pc = "idle" /\ rlink' # rlink
             => rlink'[l] # "unused"]_linkVars
  BY <1>1
<1> QED  BY <1>2, LinkInitInv, LinkNextInv, PTL DEF LinkSpec, OlderLinksEnd
=============================================================================
