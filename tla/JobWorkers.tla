------------------------------- MODULE JobWorkers -------------------------------
(***************************************************************************)
(* The worker processes: email jobs, their attempts, the sent marker, the  *)
(* dead letters of final failures, and the ordered shutdown of a process.  *)
(*                                                                         *)
(* A process is modelled with one of its job slots: slots share nothing    *)
(* but the shutdown, which waits for each of them.  A job is named by its  *)
(* id, `outbox-<id>'.  What BullMQ does with a job (locks, attempts,       *)
(* stalled jobs) is external and modelled from how the code uses it.       *)
(***************************************************************************)
EXTENDS Integers, Sequences, FiniteSets

CONSTANTS
  Workers,      \* worker processes
  Jobs,         \* job ids of the email queue
  Null,
  Attempts,     \* DEFAULT_JOB_OPTIONS.attempts
  MaxStalled,   \* maxStalledCount
  MaxAdds,      \* bound on how often a job id enters its queue
  MaxFaults     \* bound on crashes, uncaught errors, lost locks, failed writes

ASSUME NullAssumption == Null \notin Jobs \cup Workers /\ IsFiniteSet(Workers)
ASSUME LimitsAssumption ==
  /\ Attempts \in Nat \ {0} /\ MaxStalled \in Nat
  /\ MaxAdds \in Nat /\ MaxFaults \in Nat

VARIABLES
  job,      \* Redis: state, failed attempts, stalls and lock of each job
  marker,   \* Redis: the jobs with a key email:sent:<jobId>
  proc,     \* what the slot of each process is doing
  host,     \* each process: shutdown step, exit code, dead letters being written
  dlq,      \* rows of dead_letter_jobs, per process that wrote them and job
  sent,     \* history: how often the job's mail was accepted
  slips,    \* history: events after which a mail may legitimately repeat
  ends,     \* history: how often the job failed for good in each process
  lost,     \* history: dead letters given up with the process or a failed INSERT
  adds, faults

vars == <<job, marker, proc, host, dlq, sent, slips, ends, lost, adds, faults>>

NoJob == [state |-> "none", made |-> 0, stalls |-> 0, doomed |-> FALSE, lock |-> Null]

\* A slot that waits for a job.  `final' is what BullMQ did with the failed job.
Waiting == [pc |-> "wait", job |-> Null, unrecoverable |-> FALSE, made |-> 0,
            final |-> FALSE]

\* Mutant: the dead-letter writes are awaited before the workers are closed.
StepsSwapped == <<"writes", "workers", "resources">>

\* The steps of the shutdown that concern jobs.  Scheduler, relay and health file
\* stop before them, while jobs are still fetched; queues, database and Redis
\* close last.
Steps == <<"workers", "writes", "resources">>

\* A running process: no shutdown step, no pending write.
Started == [step |-> 0, code |-> 0, writes |-> [j \in Jobs |-> 0]]

\* Nothing counted yet, for any process and job.
NoCounts == [w \in Workers |-> [j \in Jobs |-> 0]]

Init ==
  /\ job = [j \in Jobs |-> NoJob]
  /\ marker = {}
  /\ proc = [w \in Workers |-> Waiting]
  /\ host = [w \in Workers |-> Started]
  /\ dlq = NoCounts
  /\ sent = [j \in Jobs |-> 0]
  /\ slips = [j \in Jobs |-> 0]
  /\ ends = NoCounts /\ lost = NoCounts
  /\ adds = [j \in Jobs |-> 0]
  /\ faults = 0

-----------------------------------------------------------------------------
(***************************************************************************)
(* Helpers.                                                                *)
(***************************************************************************)
Running(w) == host[w].step <= Len(Steps)

\* worker.close() stops fetching; the steps before it do not.
Fetching(w) ==
  \A i \in 1..Len(Steps) : Steps[i] = "workers" => host[w].step < i

Goto(w, label) == proc' = [proc EXCEPT ![w].pc = label]

\* The processor throws: UnrecoverableError, or an error worth another attempt.
Throw(w, unrecoverable) ==
  proc' = [proc EXCEPT ![w].pc = "failed", ![w].unrecoverable = unrecoverable]

Fault == faults < MaxFaults /\ faults' = faults + 1

\* What happened to job j may have happened without a trace in Redis.
Slip(j) == slips' = [slips EXCEPT ![j] = slips[j] + 1]

-----------------------------------------------------------------------------
(***************************************************************************)
(* BullMQ: adding a job, fetching it, stalled jobs, retention.             *)
(***************************************************************************)
\* Queue.add by the relay.  An id that exists is left alone: a row published twice
\* is no step.
Add(j) ==
  /\ job[j].state = "none"
  /\ adds[j] < MaxAdds
  /\ adds' = [adds EXCEPT ![j] = adds[j] + 1]
  /\ job' = [job EXCEPT ![j] = [NoJob EXCEPT !.state = "wait"]]
  /\ UNCHANGED <<marker, proc, host, dlq, sent, slips, ends, lost, faults>>

\* removeOnComplete, removeOnFail: other jobs push a finished one out.
Forget(j) ==
  /\ job[j].state \in {"completed", "failed"}
  /\ job' = [job EXCEPT ![j] = NoJob]
  /\ UNCHANGED <<marker, proc, host, dlq, sent, slips, ends, lost, adds, faults>>

\* A process takes a job and its lock.  A job that stalled too often is failed
\* unrecoverably instead of being processed.
Fetch(w, j) ==
  /\ Fetching(w)
  /\ proc[w].pc = "wait"
  /\ job[j].state = "wait"
  /\ job' = [job EXCEPT ![j].state = "active", ![j].lock = w]
  /\ proc' = [proc EXCEPT ![w] = [Waiting EXCEPT
       !.job = j, !.unrecoverable = job[j].doomed,
       !.pc = IF job[j].doomed THEN "failed" ELSE "check"]]
  /\ UNCHANGED <<marker, host, dlq, sent, slips, ends, lost, adds, faults>>

\* The lock of an active job runs out: Redis was out of reach, or the process
\* did not get to renew it.  The process goes on and does not know.
LoseLock(j) ==
  /\ Fault
  /\ job[j].state = "active" /\ job[j].lock # Null
  /\ job' = [job EXCEPT ![j].lock = Null]
  /\ Slip(j)
  /\ UNCHANGED <<marker, proc, host, dlq, sent, ends, lost, adds>>

\* The stalled check of any worker puts an unlocked active job back.
Stalled(j) ==
  /\ job[j].state = "active" /\ job[j].lock = Null
  /\ job' = [job EXCEPT ![j].state = "wait", ![j].stalls = job[j].stalls + 1,
                        ![j].doomed = job[j].stalls + 1 > MaxStalled]
  /\ UNCHANGED <<marker, proc, host, dlq, sent, slips, ends, lost, adds, faults>>

-----------------------------------------------------------------------------
(***************************************************************************)
(* processEmailJob.                                                        *)
(***************************************************************************)
\* Mutant: the marker is never read.
CheckNothing(w) ==
  /\ proc[w].pc = "check"
  /\ Goto(w, "send")
  /\ UNCHANGED <<job, marker, host, dlq, sent, slips, ends, lost, adds, faults>>

\* The marker is read: set, the job is done; Redis may fail.
CheckMarker(w) ==
  /\ proc[w].pc = "check"
  /\ \/ proc[w].job \in marker /\ Goto(w, "done")
     \/ proc[w].job \notin marker /\ Goto(w, "send")
     \/ Throw(w, FALSE)
  /\ UNCHANGED <<job, marker, host, dlq, sent, slips, ends, lost, adds, faults>>

\* What becomes of a message handed to the SMTP or ZeptoMail driver: accepted,
\* rejected (or mail is not configured), not accepted for now, or accepted without
\* an answer in time.
MailOutcomes == {"accepted", "rejected", "unavailable", "unanswered"}

\* PermanentMailError: 5xx replies and envelope errors, 4xx of the HTTP API.
Permanent(o) == o = "rejected"

\* dispatch also refuses a job without its token or code, or of unknown name.
DispatchOutcomes == MailOutcomes \cup {"unusable"}

Unrecoverable(o) == o = "unusable" \/ Permanent(o)

\* Mutant: a request to the mail server has no timeout.
DispatchUntimed(w) ==
  LET j == proc[w].job IN
  /\ proc[w].pc = "send" /\ faults < MaxFaults
  /\ \/ sent' = [sent EXCEPT ![j] = sent[j] + 1] /\ Goto(w, "mark")
     \/ Throw(w, TRUE) /\ UNCHANGED sent
  /\ UNCHANGED <<job, marker, host, dlq, slips, ends, lost, adds, faults>>

\* The message is sent, or dispatch throws.
Dispatch(w) ==
  LET j == proc[w].job IN
  /\ proc[w].pc = "send"
  /\ \E o \in DispatchOutcomes :
       /\ IF o \in {"accepted", "unanswered"}
            THEN sent' = [sent EXCEPT ![j] = sent[j] + 1] ELSE UNCHANGED sent
       /\ IF o = "accepted" THEN Goto(w, "mark") ELSE Throw(w, Unrecoverable(o))
       /\ IF o = "unanswered" THEN Slip(j) /\ Fault ELSE UNCHANGED <<slips, faults>>
  /\ UNCHANGED <<job, marker, host, dlq, ends, lost, adds>>

\* The marker is written after the send; when that fails the job is retried.
SetMarker(w) ==
  LET j == proc[w].job IN
  /\ proc[w].pc = "mark"
  /\ \/ marker' = marker \cup {j} /\ Goto(w, "done") /\ UNCHANGED <<slips, faults>>
     \/ Throw(w, FALSE) /\ Slip(j) /\ Fault /\ UNCHANGED marker
  /\ UNCHANGED <<job, host, dlq, sent, ends, lost, adds>>

-----------------------------------------------------------------------------
(***************************************************************************)
(* The end of an attempt, and the dead letter of the last one.             *)
(***************************************************************************)
\* moveToCompleted, or moveToFailed with its decision to retry.  Without the
\* lock BullMQ refuses both, and the worker only reports an error.
MoveToCompleted(w) ==
  LET j == proc[w].job IN
  /\ proc[w].pc = "done"
  /\ job' = IF job[j].lock = w
              THEN [job EXCEPT ![j].state = "completed", ![j].lock = Null]
              ELSE job
  /\ proc' = [proc EXCEPT ![w] = Waiting]
  /\ UNCHANGED <<marker, host, dlq, sent, slips, ends, lost, adds, faults>>

MoveToFailed(w) ==
  LET j == proc[w].job
      made == job[j].made + 1
      final == proc[w].unrecoverable \/ made >= Attempts IN
  /\ proc[w].pc = "failed"
  /\ IF job[j].lock = w
       THEN /\ job' = [job EXCEPT ![j].made = made, ![j].lock = Null,
                         ![j].state = IF final THEN "failed" ELSE "wait"]
            /\ ends' = IF final THEN [ends EXCEPT ![w][j] = ends[w][j] + 1] ELSE ends
            /\ proc' = [proc EXCEPT ![w].pc = "event", ![w].made = made,
                                    ![w].final = final]
       ELSE proc' = [proc EXCEPT ![w] = Waiting] /\ UNCHANGED <<job, ends>>
  /\ UNCHANGED <<marker, host, dlq, sent, slips, lost, adds, faults>>

\* Mutant: only exhausted attempts count as final.
OutOfAttempts(w) == proc[w].made >= Attempts

IsFinalFailure(w) == proc[w].unrecoverable \/ proc[w].made >= Attempts

\* The `failed' event: a final failure starts a dead-letter write, not awaited.
OnFailed(w) ==
  /\ proc[w].pc = "event"
  /\ host' = IF IsFinalFailure(w)
               THEN [host EXCEPT ![w].writes[proc[w].job] =
                       host[w].writes[proc[w].job] + 1]
               ELSE host
  /\ proc' = [proc EXCEPT ![w] = Waiting]
  /\ UNCHANGED <<job, marker, dlq, sent, slips, ends, lost, adds, faults>>

\* The INSERT of recordDeadLetter succeeds, or fails and is only logged.
DeadLetterWritten(w, j) ==
  /\ host[w].writes[j] > 0
  /\ host' = [host EXCEPT ![w].writes[j] = host[w].writes[j] - 1]
  /\ \/ dlq' = [dlq EXCEPT ![w][j] = dlq[w][j] + 1] /\ UNCHANGED <<lost, faults>>
     \/ lost' = [lost EXCEPT ![w][j] = lost[w][j] + 1] /\ Fault /\ UNCHANGED dlq
  /\ UNCHANGED <<job, marker, proc, sent, slips, ends, adds>>

-----------------------------------------------------------------------------
(***************************************************************************)
(* The process: signals, the shutdown steps, crashes.                      *)
(***************************************************************************)
\* SIGTERM or SIGINT, or an uncaught error (exit code 1).  Later ones join the
\* shutdown that runs and change nothing, its exit code included.
Signal(w, fatal) ==
  /\ host[w].step = 0
  /\ IF fatal THEN Fault ELSE UNCHANGED faults
  /\ host' = [host EXCEPT ![w].step = 1, ![w].code = IF fatal THEN 1 ELSE 0]
  /\ UNCHANGED <<job, marker, proc, dlq, sent, slips, ends, lost, adds>>

\* What the process still does for step s.
StepOver(w, s) ==
  CASE s = "workers"   -> proc[w].pc = "wait"
    [] s = "writes"    -> \A j \in Jobs : host[w].writes[j] = 0
    [] s = "resources" -> TRUE

\* Dead letters of j that process w still owes: an event not yet handled, and
\* writes under way.
Owes(w, j) ==
  host[w].writes[j] +
    IF proc[w].pc = "event" /\ proc[w].job = j /\ proc[w].final THEN 1 ELSE 0

\* Process w is gone: its dead letters are lost and its lock runs out.  A mail
\* sent and not yet marked may be sent again.
Vanish(w, h) ==
  /\ proc' = [proc EXCEPT ![w] = Waiting]
  /\ host' = [host EXCEPT ![w] = h]
  /\ lost' = [lost EXCEPT ![w] = [k \in Jobs |-> lost[w][k] + Owes(w, k)]]
  /\ job' = [k \in Jobs |-> IF job[k].lock = w THEN [job[k] EXCEPT !.lock = Null]
                                               ELSE job[k]]
  /\ IF proc[w].pc = "mark" THEN Slip(proc[w].job) ELSE UNCHANGED slips

\* The next step begins; after the last one the process ends.
NextStep(w, code) ==
  LET h == [host[w] EXCEPT !.step = host[w].step + 1, !.code = code] IN
  /\ IF host[w].step = Len(Steps)
       THEN Vanish(w, [Started EXCEPT !.step = h.step, !.code = code])
       ELSE host' = [host EXCEPT ![w] = h] /\ UNCHANGED <<proc, lost, job, slips>>
  /\ UNCHANGED <<marker, dlq, sent, ends, adds>>

StepDone(w) ==
  /\ host[w].step \in 1..Len(Steps)
  /\ StepOver(w, Steps[host[w].step])
  /\ NextStep(w, host[w].code)
  /\ UNCHANGED faults

\* A step that throws is logged and remembered in the exit code.
StepFails(w) ==
  /\ host[w].step \in 1..Len(Steps)
  /\ Fault
  /\ NextStep(w, 1)

\* The process ends at once, with exit code 1.
Die(w) ==
  /\ Vanish(w, [Started EXCEPT !.step = Len(Steps) + 1, !.code = 1])
  /\ UNCHANGED <<marker, dlq, sent, ends, adds>>

\* A crash, also while the process shuts down; a shutdown of more than 30 seconds
\* is ended the same way.
Crash(w) == Running(w) /\ Fault /\ Die(w)

\* The supervisor (PM2, Docker) starts the process again.
Restart(w) ==
  /\ ~Running(w)
  /\ host' = [host EXCEPT ![w] = Started]
  /\ UNCHANGED <<job, marker, proc, dlq, sent, slips, ends, lost, adds, faults>>

-----------------------------------------------------------------------------
JobStep(w) ==
  \/ CheckMarker(w) \/ Dispatch(w) \/ SetMarker(w)
  \/ MoveToCompleted(w) \/ MoveToFailed(w) \/ OnFailed(w)

WriteStep(w) == \E j \in Jobs : DeadLetterWritten(w, j)

Next ==
  \/ \E j \in Jobs : Add(j) \/ Forget(j) \/ LoseLock(j) \/ Stalled(j)
  \/ \E w \in Workers, j \in Jobs : Fetch(w, j)
  \/ \E w \in Workers : JobStep(w) \/ WriteStep(w)
  \/ \E w \in Workers, fatal \in BOOLEAN : Signal(w, fatal)
  \/ \E w \in Workers : StepDone(w) \/ StepFails(w) \/ Crash(w) \/ Restart(w)

Spec == Init /\ [][Next]_vars

\* A process keeps executing, BullMQ's stalled check keeps running, a waiting job
\* is fetched by a process that keeps fetching, and processes are restarted.
Fairness ==
  /\ \A w \in Workers : /\ WF_vars(JobStep(w)) /\ WF_vars(WriteStep(w))
                        /\ WF_vars(StepDone(w)) /\ WF_vars(Restart(w))
  /\ \A j \in Jobs : WF_vars(Stalled(j)) /\ SF_vars(\E w \in Workers : Fetch(w, j))

FairSpec == Spec /\ Fairness

-----------------------------------------------------------------------------
(***************************************************************************)
(* Properties.                                                             *)
(***************************************************************************)
\* A mail is sent once for its job id however often the id is added, retried or
\* re-run after stalling, except for one time more per lost lock, ambiguous
\* timeout, and crash or failed write between the send and the marker
\* (email.processor: "The marker stops retries, stalled re-runs and outbox
\* re-publishes of the same job id from sending twice").
SentOnce == \A j \in Jobs : sent[j] <= 1 + slips[j]

\* The final failures of a job in a process are the dead letters the process
\* wrote, those it is writing and those lost with it or with a failed INSERT:
\* none is recorded for an attempt that is retried, none is dropped
\* (isFinalFailure agrees with BullMQ), whoever runs the job next.
DeadLetterLedger ==
  \A w \in Workers, j \in Jobs :
    ends[w][j] = dlq[w][j] + lost[w][j] + Owes(w, j)

\* A shutdown that exits with code 0 cut nothing off: no job and no dead-letter
\* write of the process was under way (the order of the steps in run-workers).
CleanExitIsQuiet ==
  [][\A w \in Workers :
       Running(w) /\ host'[w].step = Len(Steps) + 1 /\ host'[w].code = 0
         => /\ proc[w].pc = "wait"
            /\ \A j \in Jobs : host[w].writes[j] = 0]_vars

\* Every job that is added ends, completed or failed, and its dead letters are
\* settled: crashes, lost locks and shutdowns only delay it.
JobsEnd ==
  \A j \in Jobs :
    job[j].state \in {"wait", "active"} ~>
      /\ job[j].state \notin {"wait", "active"}
      /\ \A w \in Workers : Owes(w, j) = 0
=============================================================================
