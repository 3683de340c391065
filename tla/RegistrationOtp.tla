---------------------------- MODULE RegistrationOtp ----------------------------
(***************************************************************************)
(* Registration with an emailed code (REGISTRATION_VERIFICATION=otp), for  *)
(* one email address: the address has one row in email_otps, and requests  *)
(* for different addresses share nothing.                                  *)
(*                                                                         *)
(* The codes issued for the address are 1, 2, ...; 0 is a guess that       *)
(* equals none of them.  A registration ticket is the pair of the row id   *)
(* and the verification it proves (both are in its HMAC); verification     *)
(* times differ, so verifications are numbered too.  Cooldown, expiry and  *)
(* the registration window end at any moment.  Every action is one SQL     *)
(* statement; `lock' is the transaction that holds the row.                *)
(***************************************************************************)
EXTENDS Integers, FiniteSets

CONSTANTS
  Senders, Verifiers, Registrars,  \* concurrent requests of each kind
  Null,
  MaxAttempts,                     \* OTP_MAX_ATTEMPTS
  MaxCodes                         \* bound on the codes issued

Codes == 1..MaxCodes

\* The columns of email_otps; the times by what they are compared for.
Row == [id : Nat, code : Codes, attempts : 0..MaxAttempts, cooled : BOOLEAN,
        live : BOOLEAN, verified : Nat \cup {Null}, window : BOOLEAN, consumed : BOOLEAN]

ASSUME RowAssumption == Null \notin Row

ASSUME OtpAssumption ==
  /\ Null \notin Nat /\ MaxAttempts \in Nat \ {0} /\ MaxCodes \in Nat
  /\ Senders \cap Verifiers = {} /\ Senders \cap Registrars = {}
  /\ Verifiers \cap Registrars = {}
  /\ Null \notin Senders \cup Verifiers \cup Registrars
  /\ IsFiniteSet(Verifiers)

VARIABLES
  row,       \* the row of the address, or Null
  issued,    \* codes issued so far
  stamps,    \* verifications so far
  tickets,   \* registration tickets handed out
  accounts,  \* accounts of the address
  req,       \* the handlers
  lock,      \* the registration whose transaction holds the row, or Null
  guesses    \* history: how often each code was compared with a guess

vars == <<row, issued, stamps, tickets, accounts, req, lock, guesses>>

Procs == Senders \cup Verifiers \cup Registrars

Idle == [pc |-> "idle", guess |-> 0, id |-> 0, code |-> 0, seen |-> Null,
         ticket |-> <<0, 0>>]

Init ==
  /\ row = Null
  /\ issued = 0
  /\ stamps = 0
  /\ tickets = {}
  /\ accounts = 0
  /\ req = [p \in Procs |-> Idle]
  /\ lock = Null
  /\ guesses = [c \in Codes |-> 0]

Finish(p) == req' = [req EXCEPT ![p] = Idle]

-----------------------------------------------------------------------------
(***************************************************************************)
(* sendCode: an address without account, then issue under the cooldown.    *)
(***************************************************************************)
CheckUnregistered(p) ==
  /\ req[p].pc = "idle"
  /\ accounts = 0                                        \* otherwise 409
  /\ req' = [req EXCEPT ![p].pc = "issue"]
  /\ UNCHANGED <<row, issued, stamps, tickets, accounts, lock, guesses>>

\* issue: the row with code n, inserted or replacing the code of the row there is,
\* which keeps its id and loses its verification.
WithCode(n) ==
  [id |-> IF row = Null THEN n ELSE row.id, code |-> n, attempts |-> 0,
   cooled |-> FALSE, live |-> TRUE, verified |-> Null, window |-> FALSE,
   consumed |-> FALSE]

\* The transaction of sendCode: a new code once the cooldown is over, with its
\* email intent.
Issue(p) ==
  /\ req[p].pc = "issue"
  /\ lock = Null
  /\ IF row = Null \/ row.cooled
       THEN /\ issued < MaxCodes
            /\ issued' = issued + 1
            /\ row' = WithCode(issued + 1)
       ELSE UNCHANGED <<row, issued>>                    \* 429
  /\ Finish(p)
  /\ UNCHANGED <<stamps, tickets, accounts, lock, guesses>>

-----------------------------------------------------------------------------
(***************************************************************************)
(* verifyCode.                                                             *)
(***************************************************************************)
\* Mutant: the limit is tested by nobody.
Unlimited(r) == ~r.consumed /\ r.live

\* The row can take another attempt.
Open(r) == ~r.consumed /\ r.live /\ r.attempts < MaxAttempts

\* reserveAttempt: count the attempt and read what to compare with.
ReserveAttempt(p, g) ==
  /\ req[p].pc = "idle"
  /\ lock = Null /\ row # Null /\ Open(row)              \* otherwise 429 or 400
  /\ row' = [row EXCEPT !.attempts = row.attempts + 1]
  /\ req' = [req EXCEPT ![p] = [Idle EXCEPT !.pc = "compare", !.guess = g,
               !.id = row.id, !.code = row.code, !.seen = row.verified]]
  /\ UNCHANGED <<issued, stamps, tickets, accounts, lock, guesses>>

\* otpCodeMatches: the keyed hashes of guess and code are equal when they are.
OtpCodeMatches(guess, code) == guess = code

\* The comparison; a code verified before returns the ticket it returned then.
CompareCode(p) ==
  LET q == req[p] IN
  /\ q.pc = "compare"
  /\ guesses' = [guesses EXCEPT ![q.code] = guesses[q.code] + 1]
  /\ \/ /\ ~OtpCodeMatches(q.guess, q.code)              \* 400
        /\ Finish(p) /\ UNCHANGED tickets
     \/ /\ OtpCodeMatches(q.guess, q.code) /\ q.seen = Null
        /\ req' = [req EXCEPT ![p].pc = "mark"] /\ UNCHANGED tickets
     \/ /\ OtpCodeMatches(q.guess, q.code) /\ q.seen # Null
        /\ tickets' = tickets \cup {<<q.id, q.seen>>} /\ Finish(p)
  /\ UNCHANGED <<row, issued, stamps, accounts, lock>>

\* markVerified: the first verification of the row wins.
MarkVerified(p) ==
  /\ req[p].pc = "mark"
  /\ lock = Null
  /\ IF row # Null /\ row.id = req[p].id /\ row.verified = Null
       THEN /\ stamps' = stamps + 1
            /\ row' = [row EXCEPT !.verified = stamps + 1, !.window = TRUE]
       ELSE UNCHANGED <<row, stamps>>
  /\ req' = [req EXCEPT ![p].pc = "readBack"]
  /\ UNCHANGED <<issued, tickets, accounts, lock, guesses>>

\* markVerified reads the stored verification; verifyCode returns its ticket.
ReadBack(p) ==
  /\ req[p].pc = "readBack"
  /\ IF row # Null /\ row.id = req[p].id /\ row.verified # Null
       THEN tickets' = tickets \cup {<<row.id, row.verified>>}
       ELSE UNCHANGED tickets                            \* 400
  /\ Finish(p)
  /\ UNCHANGED <<row, issued, stamps, accounts, lock, guesses>>

-----------------------------------------------------------------------------
(***************************************************************************)
(* register: one transaction.                                              *)
(***************************************************************************)
CheckNoAccount(p, t) ==
  /\ req[p].pc = "idle"
  /\ accounts = 0                                        \* otherwise 400
  /\ req' = [req EXCEPT ![p] = [Idle EXCEPT !.pc = "consume", !.ticket = t]]
  /\ UNCHANGED <<row, issued, stamps, tickets, accounts, lock, guesses>>

\* Mutant: any verified row will do, whatever ticket is presented.
AnyTicket(t, r) == TRUE

\* ticketMatches.
TicketMatches(t, r) == t = <<r.id, r.verified>>

\* consume: a verified code, used by nobody, whose registration window is open.
Consumable(r) == r # Null /\ ~r.consumed /\ r.verified # Null /\ r.window

\* consumeForRegistration: waits for the row, takes it and compares the ticket
\* with it; a mismatch rolls the transaction back.
Consume(p) ==
  /\ req[p].pc = "consume"
  /\ lock = Null
  /\ IF Consumable(row) /\ TicketMatches(req[p].ticket, row)
       THEN lock' = p /\ req' = [req EXCEPT ![p].pc = "create"]
       ELSE Finish(p) /\ UNCHANGED lock                  \* 400
  /\ UNCHANGED <<row, issued, stamps, tickets, accounts, guesses>>

\* createUser and the commit.
CreateUser(p) ==
  /\ req[p].pc = "create"
  /\ accounts' = accounts + 1
  /\ row' = [row EXCEPT !.consumed = TRUE]
  /\ lock' = Null
  /\ Finish(p)
  /\ UNCHANGED <<issued, stamps, tickets, guesses>>

-----------------------------------------------------------------------------
(***************************************************************************)
(* Time, cleanup and failures.                                             *)
(***************************************************************************)
CooldownOver ==
  /\ row # Null /\ ~row.cooled
  /\ row' = [row EXCEPT !.cooled = TRUE]
  /\ UNCHANGED <<issued, stamps, tickets, accounts, req, lock, guesses>>

Expire ==
  /\ row # Null /\ row.live
  /\ row' = [row EXCEPT !.live = FALSE]
  /\ UNCHANGED <<issued, stamps, tickets, accounts, req, lock, guesses>>

WindowOver ==
  /\ row # Null /\ row.window
  /\ row' = [row EXCEPT !.window = FALSE]
  /\ UNCHANGED <<issued, stamps, tickets, accounts, req, lock, guesses>>

\* deleteExpired: a row that has expired, some time ago.
DeleteExpired ==
  /\ lock = Null
  /\ row # Null /\ ~row.live
  /\ row' = Null
  /\ UNCHANGED <<issued, stamps, tickets, accounts, req, lock, guesses>>

\* A request dies or its transaction is rolled back.
Fail(p) ==
  /\ req[p].pc # "idle"
  /\ lock' = IF lock = p THEN Null ELSE lock
  /\ Finish(p)
  /\ UNCHANGED <<row, issued, stamps, tickets, accounts, guesses>>

VerifyStep(p) ==
  \/ \E g \in 0..issued : ReserveAttempt(p, g)
  \/ CompareCode(p) \/ MarkVerified(p) \/ ReadBack(p)

RegisterStep(p) ==
  (\E t \in tickets : CheckNoAccount(p, t)) \/ Consume(p) \/ CreateUser(p)

Next ==
  \/ \E p \in Senders : CheckUnregistered(p) \/ Issue(p)
  \/ \E p \in Verifiers : VerifyStep(p)
  \/ \E p \in Registrars : RegisterStep(p)
  \/ \E p \in Procs : Fail(p)
  \/ CooldownOver \/ Expire \/ WindowOver \/ DeleteExpired

Spec == Init /\ [][Next]_vars

-----------------------------------------------------------------------------
(***************************************************************************)
(* Properties.                                                             *)
(***************************************************************************)
\* Parallel guesses cannot exceed the attempt limit: over all requests, and also
\* across a resend in the middle of one, no code is compared more than
\* OTP_MAX_ATTEMPTS times (reserveAttempt counts before the comparison).
GuessesBounded == \A c \in Codes : guesses[c] <= MaxAttempts

\* An address gets one account at most: neither two registrations with one
\* ticket, nor a code issued, verified and consumed while another registration
\* is between its check and its consumption, create a second one.
OneAccount == accounts <= 1
=============================================================================
