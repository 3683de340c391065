------------------------------ MODULE OutboxRelay ------------------------------
(***************************************************************************)
(* The transactional outbox: rows written with the business change, the    *)
(* relays of the worker processes that publish them to BullMQ, and their   *)
(* retention.  What becomes of the jobs and of the dead letters is the     *)
(* subject of MailDelivery.                                                *)
(*                                                                         *)
(* available_at is modelled by `due': a row that is not due is leased or   *)
(* deferred, and becomes due at any later moment.  The code bounds neither *)
(* how long a pass takes nor what remains of a lease when a row of the     *)
(* batch is reached, so every order of "the lease runs out" and "the relay *)
(* gets there" can happen.  Each action is one statement on PostgreSQL or  *)
(* one command to Redis.                                                   *)
(***************************************************************************)
EXTENDS Integers, FiniteSets

CONSTANTS
  Rows,          \* outbox ids
  Relays,        \* worker processes, each running one relay
  Null,
  Batch,         \* OUTBOX_RELAY_BATCH
  MaxAttempts,   \* OUTBOX_MAX_PUBLISH_ATTEMPTS
  MaxFaults      \* bound on crashes and failed database calls

ASSUME OutboxAssumption ==
  /\ Null \notin Rows /\ IsFiniteSet(Relays)
  /\ Batch \in Nat \ {0} /\ MaxAttempts \in Nat \ {0} /\ MaxFaults \in Nat

VARIABLES
  status,    \* none, PENDING, PUBLISHED, FAILED; pruned after retention
  due,       \* available_at <= now()
  attempts,  \* the attempts column
  routable,  \* the row names a known queue
  jobs,      \* rows whose job outbox-<id> was added to BullMQ
  dead,      \* dead_letter_jobs records of each row: how many were written
  relay,     \* the pass each relay is running
  faults,    \* faults so far
  failures   \* history: failed publishes of each row, up to MaxAttempts

table == <<status, due, attempts, routable>>
vars == <<status, due, attempts, routable, jobs, dead, relay, faults, failures>>

\* A relay between passes; `late' are additions still queued in its Redis
\* client after their timeout.
NoPass(late) == [pc |-> "idle", batch |-> {}, row |-> Null, late |-> late,
                 seen |-> [r \in Rows |-> 0]]

Init ==
  /\ status = [r \in Rows |-> "none"]
  /\ due = [r \in Rows |-> FALSE]
  /\ attempts = [r \in Rows |-> 0]
  /\ routable \in [Rows -> BOOLEAN]
  /\ jobs = {}
  /\ dead = [r \in Rows |-> 0]
  /\ relay = [w \in Relays |-> NoPass({})]
  /\ faults = 0
  /\ failures = [r \in Rows |-> 0]

-----------------------------------------------------------------------------
(***************************************************************************)
(* enqueue: the row appears when the business transaction, or the redrive  *)
(* of a dead letter, commits.                                              *)
(***************************************************************************)
Enqueue(r) ==
  /\ status[r] = "none"
  /\ status' = [status EXCEPT ![r] = "PENDING"]
  /\ due' = [due EXCEPT ![r] = TRUE]
  /\ UNCHANGED <<attempts, routable, jobs, dead, relay, faults, failures>>

\* The lease or the backoff of a pending row runs out.
BecomeDue(r) ==
  /\ status[r] = "PENDING" /\ ~due[r]
  /\ due' = [due EXCEPT ![r] = TRUE]
  /\ UNCHANGED <<status, attempts, routable, jobs, dead, relay, faults, failures>>

-----------------------------------------------------------------------------
(***************************************************************************)
(* relayOnce.                                                              *)
(***************************************************************************)
\* Mutant: rows that failed once are never claimed again.
ClaimableFresh == {r \in Rows : status[r] = "PENDING" /\ due[r] /\ attempts[r] = 0}

\* Rows the next pass may lease.
Claimable == {r \in Rows : status[r] = "PENDING" /\ due[r]}

\* claimBatch leases as many due rows as the batch holds and reads them.
ClaimBatch(w) ==
  /\ relay[w].pc = "idle"
  /\ \E S \in SUBSET Claimable :
       /\ S # {}
       /\ Cardinality(S) <= Batch
       /\ S = Claimable \/ Cardinality(S) = Batch
       /\ due' = [r \in Rows |-> due[r] /\ r \notin S]
       /\ relay' = [relay EXCEPT ![w].pc = "next", ![w].batch = S,
                      ![w].seen = [r \in Rows |-> IF r \in S THEN attempts[r] ELSE 0]]
  /\ UNCHANGED <<status, attempts, routable, jobs, dead, faults, failures>>

\* Mutant: the loop runs one row past the end of the batch.
NextRowPastEnd(w) ==
  /\ relay[w].pc = "next"
  /\ \/ \E r \in relay[w].batch :
          relay' = [relay EXCEPT ![w].row = r, ![w].batch = relay[w].batch \ {r},
                      ![w].pc = IF routable[r] THEN "publish" ELSE "fail"]
     \/ /\ relay[w].batch = {}
        /\ relay' = [relay EXCEPT ![w].pc = "publish"]
  /\ UNCHANGED <<table, jobs, dead, faults, failures>>

\* The loop takes the next row of the batch, or the pass ends.
NextRow(w) ==
  /\ relay[w].pc = "next"
  /\ \/ \E r \in relay[w].batch :
          relay' = [relay EXCEPT ![w].row = r, ![w].batch = relay[w].batch \ {r},
                      ![w].pc = IF routable[r] THEN "publish" ELSE "fail"]
     \/ /\ relay[w].batch = {}
        /\ relay' = [relay EXCEPT ![w] = NoPass(relay[w].late)]
  /\ UNCHANGED <<table, jobs, dead, faults, failures>>

\* The history counter stops at MaxAttempts.
CountTo(n) == IF n < MaxAttempts THEN n + 1 ELSE n

\* Mutant: a publish that timed out counts as published.
PublishAssumed(w) ==
  /\ relay[w].pc = "publish"
  /\ \/ /\ jobs' = jobs \cup {relay[w].row}
        /\ UNCHANGED failures
     \/ /\ failures' = [failures EXCEPT ![relay[w].row] = CountTo(failures[relay[w].row])]
        /\ UNCHANGED jobs
  /\ relay' = [relay EXCEPT ![w].pc = "publishedMark"]
  /\ UNCHANGED <<table, dead, faults>>

\* queue.add under withTimeout.  It succeeds; or it is refused; or its answer is
\* lost after Redis has added the job; or it times out and stays queued in the
\* client, to be carried out later.
PublishRow(w) ==
  LET r == relay[w].row IN
  /\ relay[w].pc = "publish"
  /\ \/ /\ jobs' = jobs \cup {r}
        /\ relay' = [relay EXCEPT ![w].pc = "publishedMark"]
        /\ UNCHANGED failures
     \/ /\ \/ jobs' = jobs /\ relay' = [relay EXCEPT ![w].pc = "error"]
           \/ jobs' = jobs \cup {r} /\ relay' = [relay EXCEPT ![w].pc = "error"]
           \/ jobs' = jobs /\ relay' = [relay EXCEPT ![w].pc = "error",
                                          ![w].late = relay[w].late \cup {r}]
        /\ failures' = [failures EXCEPT ![r] = CountTo(failures[r])]
  /\ UNCHANGED <<table, dead, faults>>

\* An addition that outlived its timeout reaches Redis after all.
LateAdd(w, r) ==
  /\ r \in relay[w].late
  /\ jobs' = jobs \cup {r}
  /\ relay' = [relay EXCEPT ![w].late = relay[w].late \ {r}]
  /\ UNCHANGED <<table, dead, faults, failures>>

\* markPublished: only a row that is still PENDING.
MarkPublished(w) ==
  LET r == relay[w].row IN
  /\ relay[w].pc = "publishedMark"
  /\ status' = IF status[r] = "PENDING" THEN [status EXCEPT ![r] = "PUBLISHED"]
                                        ELSE status
  /\ relay' = [relay EXCEPT ![w].pc = "next", ![w].row = Null]
  /\ UNCHANGED <<due, attempts, routable, jobs, dead, faults, failures>>

\* Mutant: the bound is tested against the attempt before this one.
OneAttemptShort(n) == n + 2 >= MaxAttempts

\* The attempt that just failed was the last one, counted from the row as read.
Exhausted(n) == n + 1 >= MaxAttempts

\* The catch block: give up after the last attempt, otherwise markRetry and
\* leave the rest of the batch leased.  A row finalised by another relay is
\* skipped and the pass goes on.
HandleError(w) ==
  LET r == relay[w].row IN
  /\ relay[w].pc = "error"
  /\ \/ /\ Exhausted(relay[w].seen[r])
        /\ relay' = [relay EXCEPT ![w].pc = "fail"]
        /\ UNCHANGED <<attempts, due>>
     \/ /\ ~Exhausted(relay[w].seen[r])
        /\ status[r] = "PENDING"
        /\ attempts' = [attempts EXCEPT ![r] = attempts[r] + 1]
        /\ due' = [due EXCEPT ![r] = FALSE]
        /\ relay' = [relay EXCEPT ![w] = NoPass(relay[w].late)]
     \/ /\ ~Exhausted(relay[w].seen[r])
        /\ status[r] # "PENDING"
        /\ relay' = [relay EXCEPT ![w].pc = "next", ![w].row = Null]
        /\ UNCHANGED <<attempts, due>>
  /\ UNCHANGED <<status, routable, jobs, dead, faults, failures>>

\* Mutant: the status is updated by id alone.
MarkFailedAlways(w) ==
  LET r == relay[w].row IN
  /\ relay[w].pc = "fail"
  /\ status' = [status EXCEPT ![r] = "FAILED"]
  /\ attempts' = [attempts EXCEPT ![r] = relay[w].seen[r] + 1]
  /\ dead' = [dead EXCEPT ![r] = dead[r] + 1]
  /\ relay' = [relay EXCEPT ![w].pc = "next", ![w].row = Null]
  /\ UNCHANGED <<due, routable, jobs, faults, failures>>

\* markFailed: FAILED and the dead letter in one transaction, if still PENDING.
MarkFailed(w) ==
  LET r == relay[w].row IN
  /\ relay[w].pc = "fail"
  /\ IF status[r] = "PENDING"
       THEN /\ status' = [status EXCEPT ![r] = "FAILED"]
            /\ attempts' = [attempts EXCEPT ![r] = relay[w].seen[r] + 1]
            /\ dead' = [dead EXCEPT ![r] = dead[r] + 1]
       ELSE UNCHANGED <<status, attempts, dead>>
  /\ relay' = [relay EXCEPT ![w].pc = "next", ![w].row = Null]
  /\ UNCHANGED <<due, routable, jobs, faults, failures>>

\* A database call of the pass fails: the pass ends, its rows stay leased.
PassFails(w) ==
  /\ relay[w].pc # "idle"
  /\ faults < MaxFaults
  /\ faults' = faults + 1
  /\ relay' = [relay EXCEPT ![w] = NoPass(relay[w].late)]
  /\ UNCHANGED <<table, jobs, dead, failures>>

\* The worker process dies and restarts: its unsent additions are lost too.
Crash(w) ==
  /\ relay[w] # NoPass({})
  /\ faults < MaxFaults
  /\ faults' = faults + 1
  /\ relay' = [relay EXCEPT ![w] = NoPass({})]
  /\ UNCHANGED <<table, jobs, dead, failures>>

-----------------------------------------------------------------------------
(***************************************************************************)
(* Retention: terminal rows are deleted.                                   *)
(***************************************************************************)
Prune(r) ==
  /\ status[r] \in {"PUBLISHED", "FAILED"}
  /\ status' = [status EXCEPT ![r] = "pruned"]
  /\ UNCHANGED <<due, attempts, routable, jobs, dead, relay, faults, failures>>

-----------------------------------------------------------------------------
RelayStep(w) ==
  ClaimBatch(w) \/ NextRow(w) \/ PublishRow(w) \/ MarkPublished(w)
    \/ HandleError(w) \/ MarkFailed(w)

Next ==
  \/ \E r \in Rows : Enqueue(r) \/ BecomeDue(r) \/ Prune(r)
  \/ \E w \in Relays : \/ RelayStep(w) \/ PassFails(w) \/ Crash(w)
                       \/ \E r \in Rows : LateAdd(w, r)

Spec == Init /\ [][Next]_vars

\* Relays run their passes (the interval timer) and time passes.
Fairness ==
  /\ \A w \in Relays : WF_vars(RelayStep(w))
  /\ \A r \in Rows : WF_vars(BecomeDue(r))

FairSpec == Spec /\ Fairness

-----------------------------------------------------------------------------
(***************************************************************************)
(* Properties.                                                             *)
(***************************************************************************)
Statuses == {"none", "PENDING", "PUBLISHED", "FAILED", "pruned"}

Pass == [pc : {"idle", "next", "publish", "publishedMark", "error", "fail"},
         batch : SUBSET Rows, row : Rows \cup {Null}, late : SUBSET Rows,
         seen : [Rows -> Nat]]

\* Type invariant: the table, the queue, the dead letters and the passes keep
\* their shape.
TypeOK ==
  /\ status \in [Rows -> Statuses] /\ due \in [Rows -> BOOLEAN]
  /\ attempts \in [Rows -> Nat] /\ routable \in [Rows -> BOOLEAN]
  /\ jobs \in SUBSET Rows
  /\ dead \in [Rows -> Nat]
  /\ relay \in [Relays -> Pass]
  /\ faults \in Nat /\ failures \in [Rows -> Nat]

\* A row is FAILED exactly when its dead letter was written, and it has one:
\* neither a second relay working on an expired lease nor a crash leaves a
\* FAILED row without record, or two records (markFailed).
OneDeadLetter ==
  \A r \in Rows :
    /\ dead[r] <= 1
    /\ status[r] = "FAILED" => dead[r] = 1
    /\ status[r] \in {"none", "PENDING", "PUBLISHED"} => dead[r] = 0

\* A publishable row is only given up after MaxAttempts failed publishes, even
\* though relays decide from the attempts they read when they claimed it.
NotGivenUpEarly ==
  \A r \in Rows : dead[r] > 0 /\ routable[r] => failures[r] >= MaxAttempts

\* The fate of an intent, read off its row; a pruned row keeps the fate it had.
FateOf(r) ==
  IF status[r] = "none" THEN "none"
  ELSE IF status[r] = "PENDING" THEN "open"
  ELSE IF dead[r] > 0 THEN "failed" ELSE "published"

Fates == [r \in Rows |-> FateOf(r)]

Intent == INSTANCE OutboxIntent WITH fate <- Fates, queued <- jobs

\* However leases expire, additions arrive late and processes die, the relays
\* implement OutboxIntent: publishing and giving up exclude each other, neither
\* is undone, and PUBLISHED is only claimed of a job that is in the queue.
ImplementsIntent == Intent!IntentSpec

\* No intent is lost: a recorded row is eventually published or dead-lettered,
\* if passes run and faults are finitely many (relayOnce, claimBatch's lease).
IntentsResolved ==
  \A r \in Rows : status[r] = "PENDING" ~> status[r] # "PENDING"
=============================================================================
