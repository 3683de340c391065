------------------------------- MODULE Schedules -------------------------------
(***************************************************************************)
(* Scheduled maintenance: cron timers of the worker processes enqueue the  *)
(* jobs of a time slot under one job id, system workers run them, and each *)
(* job is a sequence of batched DELETEs.                                   *)
(*                                                                         *)
(* Time is counted in hours (UTC); the server's local time is offset hours *)
(* ahead and may be set forward once.  A table holds, for some hours, one  *)
(* batch of rows that expire in that hour.  Stalled jobs are the subject   *)
(* of JobWorkers.                                                          *)
(***************************************************************************)
EXTENDS Integers, Sequences, FiniteSetsExt

CONSTANTS
  Schedulers,   \* worker processes that run the cron timers
  Workers,      \* job slots of the system worker
  Day,          \* hours of a day
  Units,        \* the schedules that are active: "hour", "day"
  Loads,        \* the hours in which a batch of rows of each table expires
  Retention,    \* OUTBOX_RETENTION_*_DAYS, DLQ_RETENTION_DAYS
  Attempts,     \* DEFAULT_JOB_OPTIONS.attempts
  MaxBatches,   \* maxBatches of the batched DELETEs
  MaxHour,      \* bound on the time
  MaxTicks,     \* bound on the timers that fire
  MaxFaults,    \* bound on failed commands, crashes and deletions by others
  Null

ASSUME ScheduleAssumption ==
  /\ Day \in Nat \ {0} /\ Attempts \in Nat \ {0} /\ MaxBatches \in Nat \ {0}
  /\ Retention \in Nat /\ MaxHour \in Nat /\ MaxTicks \in Nat /\ MaxFaults \in Nat
  /\ Units \subseteq {"hour", "day"} /\ Null \notin Nat

VARIABLES
  now,        \* hours since the start, UTC
  offset,     \* local time minus UTC
  cron,       \* each scheduler: the timers that fired this hour, and the ticks at work
  job,        \* the system queue: the job of each id
  worker,     \* what each job slot is doing
  left,       \* batches of expired or expiring rows still in each table
  ticks,      \* timers that have fired
  faults,
  runs,       \* history: completed runs of each id
  late,       \* history: ids added more than a slot length after their tick
  collapsed   \* history: ids whose add met the job of another hour's tick

vars == <<now, offset, cron, job, worker, left, ticks, faults, runs, late, collapsed>>

\* SCHEDULES.
JobsOf(unit) == IF unit = "hour" THEN <<"tokens">> ELSE <<"outbox", "letters">>
Names == {"tokens", "outbox", "letters"}
UnitOf(name) == IF name = "tokens" THEN "hour" ELSE "day"

SlotLength(unit) == IF unit = "hour" THEN 1 ELSE Day

\* Mutant: the slot is the date for both schedules.
SlotByDate(unit, at) == at \div Day

\* slotKey: the UTC hour or date, whatever the local time.
SlotKey(unit, at) == at \div SlotLength(unit)

\* The statements of processSystemJob, each by the table it works on.
Statements(name) ==
  CASE name = "tokens" -> <<"refresh", "verification", "reset", "codes">>
    [] name = "outbox" -> <<"published", "failed">>
    [] name = "letters" -> <<"letters">>

TablesOf(name) == {Statements(name)[i] : i \in DOMAIN Statements(name)}
Batched == {"refresh", "codes", "published", "failed", "letters"}
Tables == UNION {TablesOf(name) : name \in Names}

\* Rows that expired before this are deleted by a run that started at `at': codes
\* outlive their expiry by the registration window, terminal rows by their days.
Cutoff(table, at) ==
  CASE table \in {"refresh", "verification", "reset"} -> at
    [] table = "codes" -> at - 1
    [] OTHER -> at - Retention * Day

Ids == {<<name, slot>> : name \in Names, slot \in 0 .. MaxHour}

ASSUME DataAssumption == Loads \in [Tables -> SUBSET Nat] /\ Null \notin Ids

NoJob == [state |-> "none", made |-> 0, tick |-> Null, ended |-> Null]
Waiting == [pc |-> "wait", id |-> Null, at |-> Null, todo |-> <<>>, batch |-> 0,
            pick |-> Null, limit |-> FALSE, shared |-> FALSE, short |-> {}]

Init ==
  /\ now = 0 /\ offset = 0
  /\ cron = [s \in Schedulers |-> [fired |-> {}, ticks |-> {}]]
  /\ job = [id \in Ids |-> NoJob]
  /\ worker = [w \in Workers |-> Waiting]
  /\ left = [t \in Tables |-> Loads[t]]
  /\ ticks = 0 /\ faults = 0
  /\ runs = [id \in Ids |-> 0] /\ late = {} /\ collapsed = {}

Fault == faults < MaxFaults /\ faults' = faults + 1

-----------------------------------------------------------------------------
(***************************************************************************)
(* Time and the cron timers.                                               *)
(***************************************************************************)
Pass ==
  /\ now < MaxHour
  /\ now' = now + 1
  /\ cron' = [s \in Schedulers |-> [cron[s] EXCEPT !.fired = {}]]
  /\ UNCHANGED <<offset, job, worker, left, ticks, faults, runs, late, collapsed>>

\* Daylight saving time begins.
SetForward ==
  /\ offset = 0
  /\ offset' = 1
  /\ UNCHANGED <<now, cron, job, worker, left, ticks, faults, runs, late, collapsed>>

\* '0 * * * *' and '0 0 * * *', in local time.
Matches(unit) == unit = "hour" \/ (now + offset) % Day = 0

\* A timer fires: the jobs of the schedule are to be added one after another.
Tick(s, unit) ==
  /\ Matches(unit) /\ unit \notin cron[s].fired
  /\ ticks < MaxTicks /\ ticks' = ticks + 1
  /\ cron' = [cron EXCEPT ![s].fired = @ \cup {unit},
                ![s].ticks = @ \cup {[unit |-> unit, at |-> now, names |-> JobsOf(unit)]}]
  /\ UNCHANGED <<now, offset, job, worker, left, faults, runs, late, collapsed>>

\* Queue.add: an id that the queue knows, ended or not, is left alone.
Add(s, t) ==
  LET id == <<Head(t.names), SlotKey(t.unit, t.at)>> IN
  /\ t \in cron[s].ticks
  /\ job' = IF job[id].state = "none"
              THEN [job EXCEPT ![id] = [NoJob EXCEPT !.state = "wait", !.tick = t.at]] ELSE job
  /\ late' = IF now - t.at > SlotLength(t.unit) THEN late \cup {id} ELSE late
  /\ collapsed' = IF job[id].state # "none" /\ job[id].tick # t.at
                    THEN collapsed \cup {id} ELSE collapsed
  /\ cron' = [cron EXCEPT ![s].ticks = (@ \ {t}) \cup
                IF Tail(t.names) = <<>> THEN {} ELSE {[t EXCEPT !.names = Tail(t.names)]}]
  /\ UNCHANGED <<now, offset, worker, left, ticks, faults, runs>>

\* A failed add ends the tick: the jobs after it are not added either.
AddFails(s, t) ==
  /\ t \in cron[s].ticks
  /\ Fault
  /\ cron' = [cron EXCEPT ![s].ticks = @ \ {t}]
  /\ UNCHANGED <<now, offset, job, worker, left, ticks, runs, late, collapsed>>

\* The process is restarted; its timers may fire again in the same hour.
Restart(s) ==
  /\ Fault
  /\ cron' = [cron EXCEPT ![s] = [fired |-> {}, ticks |-> {}]]
  /\ UNCHANGED <<now, offset, job, worker, left, ticks, runs, late, collapsed>>

-----------------------------------------------------------------------------
(***************************************************************************)
(* The system worker.                                                      *)
(***************************************************************************)
Active(name) == {w \in Workers : worker[w].id # Null /\ worker[w].id[1] = name}

Fetch(w, id) ==
  LET others == Active(id[1]) IN
  /\ worker[w].pc = "wait" /\ job[id].state = "wait"
  /\ job' = [job EXCEPT ![id].state = "active"]
  /\ worker' = [v \in Workers |->
       IF v = w THEN [Waiting EXCEPT !.pc = "select", !.id = id, !.at = now,
                        !.todo = Statements(id[1]), !.shared = others # {}]
       ELSE IF v \in others THEN [worker[v] EXCEPT !.shared = TRUE]
       ELSE worker[v]]
  /\ UNCHANGED <<now, offset, cron, left, ticks, faults, runs, late, collapsed>>

Expired(table, at) == {h \in left[table] : h < Cutoff(table, at)}

\* A batched DELETE begins: the oldest batch of expired rows that it sees.
SelectBatch(w) ==
  LET rows == Expired(Head(worker[w].todo), worker[w].at) IN
  /\ worker[w].pc = "select" /\ Head(worker[w].todo) \in Batched
  /\ worker' = [worker EXCEPT ![w].pc = "delete",
                              ![w].pick = IF rows = {} THEN Null ELSE Min(rows)]
  /\ UNCHANGED <<now, offset, cron, job, left, ticks, faults, runs, late, collapsed>>

\* Worker w is through with its statement, or with its job.
Advance(w, limit) ==
  LET r == worker[w] IN
  IF Len(r.todo) > 1
    THEN /\ worker' = [worker EXCEPT ![w].pc = "select", ![w].todo = Tail(r.todo),
                         ![w].batch = 0, ![w].pick = Null, ![w].limit = r.limit \/ limit]
         /\ UNCHANGED <<job, runs>>
    ELSE /\ worker' = [worker EXCEPT ![w] = Waiting]
         /\ job' = [job EXCEPT ![r.id].state = "completed", ![r.id].ended = now]
         /\ runs' = [runs EXCEPT ![r.id] = @ + 1]

\* Mutant: one batch is deleted per run.
DeleteOnce(w) ==
  LET r == worker[w]
      table == Head(r.todo) IN
  /\ r.pc = "delete"
  /\ left' = [left EXCEPT ![table] = @ \ {r.pick}]
  /\ Advance(w, FALSE)
  /\ UNCHANGED <<now, offset, cron, ticks, faults, late, collapsed>>

\* The rows are deleted, once a concurrent DELETE has released them; what that
\* one deleted, or another request since they were selected, does not count.  A
\* batch that is not full ends the loop, so does the limit.
DeleteBatch(w) ==
  LET r == worker[w]
      table == Head(r.todo)
      full == r.pick \in left[table] /\ table \notin r.short
      limit == r.batch + 1 = MaxBatches IN
  /\ r.pc = "delete"
  /\ left' = [left EXCEPT ![table] = @ \ {r.pick}]
  /\ IF full /\ ~limit
       THEN /\ worker' = [worker EXCEPT ![w].pc = "select", ![w].batch = r.batch + 1]
            /\ UNCHANGED <<job, runs>>
       ELSE Advance(w, full)
  /\ UNCHANGED <<now, offset, cron, ticks, faults, late, collapsed>>

\* A logout, the revocation of an account's sessions or the deletion of an expired
\* token takes some or all of a batch of refresh tokens.  A cleanup that has just
\* selected the batch will delete fewer rows than it asked for.
EndSessions(h) ==
  /\ h \in left["refresh"]
  /\ Fault
  /\ \E gone \in {{}, {h}} : left' = [left EXCEPT !["refresh"] = @ \ gone]
  /\ worker' = [w \in Workers |->
       IF worker[w].pc = "delete" /\ Head(worker[w].todo) = "refresh" /\ worker[w].pick = h
         THEN [worker[w] EXCEPT !.short = @ \cup {"refresh"}] ELSE worker[w]]
  /\ UNCHANGED <<now, offset, cron, job, ticks, runs, late, collapsed>>

\* The link tables are cleaned by one deleteMany each.
DeleteMany(w) ==
  LET r == worker[w]
      table == Head(r.todo) IN
  /\ r.pc = "select" /\ table \notin Batched
  /\ left' = [left EXCEPT ![table] = @ \ Expired(table, r.at)]
  /\ Advance(w, FALSE)
  /\ UNCHANGED <<now, offset, cron, ticks, faults, late, collapsed>>

\* A statement fails: another attempt starts from the first statement, unless
\* it was the last.
StatementFails(w) ==
  LET id == worker[w].id
      made == job[id].made + 1 IN
  /\ worker[w].pc \in {"select", "delete"}
  /\ Fault
  /\ job' = IF made < Attempts THEN [job EXCEPT ![id].state = "wait", ![id].made = made]
            ELSE [job EXCEPT ![id].state = "failed", ![id].made = made, ![id].ended = now]
  /\ worker' = [worker EXCEPT ![w] = Waiting]
  /\ UNCHANGED <<now, offset, cron, left, ticks, runs, late, collapsed>>

\* Mutant: ended jobs are removed at once.
ForgetSoon(id) ==
  /\ job[id].state \in {"completed", "failed"}
  /\ job' = [job EXCEPT ![id] = NoJob]
  /\ UNCHANGED <<now, offset, cron, worker, left, ticks, faults, runs, late, collapsed>>

\* removeOnComplete and removeOnFail: two slot lengths after the job ended.
Forget(id) ==
  /\ job[id].state \in {"completed", "failed"}
  /\ now - job[id].ended > 2 * SlotLength(UnitOf(id[1]))
  /\ job' = [job EXCEPT ![id] = NoJob]
  /\ UNCHANGED <<now, offset, cron, worker, left, ticks, faults, runs, late, collapsed>>

-----------------------------------------------------------------------------
Next ==
  \/ Pass \/ SetForward
  \/ \E s \in Schedulers : Restart(s) \/ \E unit \in Units : Tick(s, unit)
  \/ \E s \in Schedulers : \E t \in cron[s].ticks : Add(s, t) \/ AddFails(s, t)
  \/ \E w \in Workers : SelectBatch(w) \/ DeleteBatch(w) \/ DeleteMany(w) \/ StatementFails(w)
                        \/ \E id \in Ids : Fetch(w, id)
  \/ \E h \in left["refresh"] : EndSessions(h)
  \/ \E id \in Ids : Forget(id)

Spec == Init /\ [][Next]_vars

-----------------------------------------------------------------------------
(***************************************************************************)
(* Properties.                                                             *)
(***************************************************************************)
\* The jobs of a slot complete once, however many schedulers fire, are restarted
\* or add late, unless an add arrives more than a slot length after its tick
\* (cron: "a duplicate enqueue in the same slot ... collapses onto the existing
\* job instead of running again").  Jobs are kept for two slot lengths, but a slot
\* may have a tick at its start and, once local time was set forward, one at its
\* end.
OncePerSlot == \A id \in Ids : runs[id] <= 1 \/ id \in late

\* No tick is taken for the one of another hour, so that its jobs would not run,
\* unless local time was set forward: the slot of local midnight is a UTC date.
TicksDistinct == collapsed # {} => offset = 1 /\ \A id \in collapsed : UnitOf(id[1]) = "day"

\* A run that completes leaves no row behind that had expired when it started,
\* also after failed attempts, unless it reached the limit of its batches, another
\* run of the same job was at work meanwhile, whose rows it skipped, or, in the one
\* table that others delete from, one of its batches came up short: a single row
\* that a logout takes from a selected batch ends the cleanup of refresh tokens.
CompletedIsClean ==
  [][\A w \in Workers :
       worker[w].id # Null /\ runs'[worker[w].id] > runs[worker[w].id]
         /\ worker'[w].id = Null /\ ~worker[w].limit /\ ~worker[w].shared
         /\ (worker[w].batch + 1 < MaxBatches \/ worker[w].pick = Null)
         => \A t \in TablesOf(worker[w].id[1]) \ worker[w].short :
              \A h \in left'[t] : h >= Cutoff(t, worker[w].at)]_vars
=============================================================================
