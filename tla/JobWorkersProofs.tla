---------------------------- MODULE JobWorkersProofs ----------------------------
(***************************************************************************)
(* Proofs about JobWorkers, for any number of processes, jobs, attempts,   *)
(* stalls and faults.                                                      *)
(***************************************************************************)
EXTENDS JobWorkers, FiniteSetTheorems, TLAPS

(***************************************************************************)
(* The inductive invariant.                                                *)
(***************************************************************************)
Job == [state : {"none", "wait", "active", "completed", "failed"}, made : Nat,
        stalls : Nat, doomed : BOOLEAN, lock : Workers \cup {Null}]

Slot == [pc : {"wait", "check", "send", "mark", "done", "failed", "event"},
         job : Jobs \cup {Null}, unrecoverable : BOOLEAN, made : Nat, final : BOOLEAN]

Host == [step : 0..4, code : {0, 1}, writes : [Jobs -> Nat]]

Types ==
  /\ job \in [Jobs -> Job] /\ marker \in SUBSET Jobs
  /\ proc \in [Workers -> Slot] /\ host \in [Workers -> Host]
  /\ dlq \in [Workers -> [Jobs -> Nat]] /\ ends \in [Workers -> [Jobs -> Nat]]
  /\ lost \in [Workers -> [Jobs -> Nat]]
  /\ sent \in [Jobs -> Nat] /\ slips \in [Jobs -> Nat]

\* A slot works on a job; it is done with it only when the marker is set, and
\* it takes a failure for final exactly when BullMQ did.
Working(w) ==
  /\ proc[w].pc # "wait" => proc[w].job \in Jobs
  /\ proc[w].pc = "done" => proc[w].job \in marker
  /\ proc[w].pc = "event" => (proc[w].final <=> IsFinalFailure(w))

\* The holder of a job's lock works on that job, which is active.
LockHeld(j) ==
  job[j].lock # Null =>
    /\ job[j].state = "active" /\ proc[job[j].lock].job = j
    /\ proc[job[j].lock].pc \notin {"wait", "event"}

\* A shutdown without an error has passed only steps that were over, and a
\* process that is gone does nothing.
Quiet(w) ==
  /\ host[w].code = 0 =>
       /\ host[w].step >= 2 => proc[w].pc = "wait"
       /\ host[w].step >= 3 => \A j \in Jobs : host[w].writes[j] = 0
  /\ host[w].step = 4 => proc[w].pc = "wait" /\ \A j \in Jobs : host[w].writes[j] = 0

Settled(w, j) == ends[w][j] = dlq[w][j] + lost[w][j] + Owes(w, j)

SInv ==
  /\ Types
  /\ \A w \in Workers : Working(w)
  /\ \A j \in Jobs : LockHeld(j)
  /\ \A w \in Workers : Quiet(w)
  /\ \A w \in Workers, j \in Jobs : Settled(w, j)

-----------------------------------------------------------------------------
\* The shutdown has three steps.
LEMMA ThreeSteps ==
  /\ Len(Steps) = 3
  /\ Steps[1] = "workers" /\ Steps[2] = "writes" /\ Steps[3] = "resources"
BY DEF Steps

\* The values the model starts from have their types.
LEMMA FreshTypes ==
  /\ NoJob \in Job /\ NoJob.lock = Null
  /\ Waiting \in Slot /\ Waiting.pc = "wait"
  /\ Started \in Host /\ Started.step = 0 /\ Started.code = 0
  /\ \A j \in Jobs : Started.writes[j] = 0
BY DEF NoJob, Job, Waiting, Slot, Started, Host

\* The initial states.
LEMMA InitSInv == Init => SInv
<1> SUFFICES ASSUME Init PROVE SInv
  OBVIOUS
<1>1. Types
  BY FreshTypes DEF Init, Types, NoCounts
<1>2. ASSUME NEW w \in Workers
      PROVE  /\ Working(w) /\ Quiet(w)
             /\ \A j \in Jobs : Settled(w, j)
  <2>1. proc[w] = Waiting /\ host[w] = Started
    BY DEF Init
  <2>2. Working(w) /\ Quiet(w)
    BY <2>1, FreshTypes DEF Working, Quiet
  <2>3. ASSUME NEW j \in Jobs PROVE Settled(w, j)
    <3>1. ends[w][j] = 0 /\ dlq[w][j] = 0 /\ lost[w][j] = 0
      BY DEF Init, NoCounts
    <3>2. Owes(w, j) = 0
      BY <2>1, FreshTypes DEF Owes
    <3> QED
      BY <3>1, <3>2 DEF Settled
  <2> QED
    BY <2>2, <2>3
<1>3. \A j \in Jobs : LockHeld(j)
  BY FreshTypes DEF Init, LockHeld
<1> QED
  BY <1>1, <1>2, <1>3 DEF SInv

-----------------------------------------------------------------------------
(***************************************************************************)
(* Every step keeps the types.                                             *)
(***************************************************************************)
\* Records and functions with a field replaced.
LEMMA JobTypes ==
  ASSUME NEW r \in Job, NEW l \in Workers \cup {Null}, NEW n \in Nat, NEW d \in BOOLEAN,
         NEW s \in {"none", "wait", "active", "completed", "failed"}
  PROVE  /\ [r EXCEPT !.state = s] \in Job
         /\ [r EXCEPT !.lock = l] \in Job
         /\ [r EXCEPT !.state = s, !.lock = l] \in Job
         /\ [r EXCEPT !.state = s, !.stalls = n, !.doomed = d] \in Job
         /\ [r EXCEPT !.made = n, !.lock = l, !.state = s] \in Job
BY DEF Job

LEMMA HostTypes ==
  ASSUME NEW h \in Host, NEW n \in 0..4, NEW c \in {0, 1}
  PROVE  [h EXCEPT !.step = n, !.code = c] \in Host
BY DEF Host

LEMMA WriteTypes ==
  ASSUME NEW h \in Host, NEW f \in [Jobs -> Nat]
  PROVE  [h EXCEPT !.writes = f] \in Host
BY DEF Host

LEMMA CountTypes ==
  ASSUME NEW f \in [Jobs -> Nat], NEW j \in Jobs
  PROVE  /\ [f EXCEPT ![j] = f[j] + 1] \in [Jobs -> Nat]
         /\ f[j] > 0 => [f EXCEPT ![j] = f[j] - 1] \in [Jobs -> Nat]
OBVIOUS

LEMMA LedgerTypes ==
  ASSUME NEW f \in [Workers -> [Jobs -> Nat]], NEW w \in Workers, NEW j \in Jobs
  PROVE  [f EXCEPT ![w][j] = f[w][j] + 1] \in [Workers -> [Jobs -> Nat]]
OBVIOUS

\* A slot that goes on, or whose processor threw, is a slot.
LEMMA SlotTypes ==
  ASSUME Types, NEW w \in Workers
  PROVE  /\ \A l \in {"send", "mark", "done"} : Goto(w, l) => proc' \in [Workers -> Slot]
         /\ \A u \in BOOLEAN : Throw(w, u) => proc' \in [Workers -> Slot]
<1>1. proc[w] \in Slot /\ proc \in [Workers -> Slot]
  BY DEF Types
<1>2. ASSUME NEW l \in {"send", "mark", "done"}, Goto(w, l)
      PROVE  proc' \in [Workers -> Slot]
  <2>1. [proc[w] EXCEPT !.pc = l] \in Slot
    BY <1>1 DEF Slot
  <2> QED
    BY <1>1, <1>2, <2>1 DEF Goto
<1>3. ASSUME NEW u \in BOOLEAN, Throw(w, u)
      PROVE  proc' \in [Workers -> Slot]
  <2>1. [proc[w] EXCEPT !.pc = "failed", !.unrecoverable = u] \in Slot
    BY <1>1 DEF Slot
  <2> QED
    BY <1>1, <1>3, <2>1 DEF Throw
<1> QED
  BY <1>2, <1>3

\* BullMQ's steps on a job.
LEMMA QueueTypes ==
  ASSUME Types, NEW j \in Jobs,
         \/ Add(j) \/ Forget(j) \/ LoseLock(j) \/ Stalled(j)
         \/ \E w \in Workers : Fetch(w, j)
  PROVE  Types'
<1>0. job[j] \in Job /\ job \in [Jobs -> Job]
  BY DEF Types
<1>1. CASE Add(j)
  <2>1. [NoJob EXCEPT !.state = "wait"] \in Job
    BY FreshTypes, JobTypes
  <2> QED
    BY <1>1, <2>1 DEF Types, Add
<1>2. CASE Forget(j)
  BY <1>2, FreshTypes DEF Types, Forget
<1>3. CASE LoseLock(j)
  <2>1. [job[j] EXCEPT !.lock = Null] \in Job
    BY <1>0, JobTypes
  <2>2. job' \in [Jobs -> Job]
    BY <1>0, <1>3, <2>1 DEF LoseLock
  <2>3. slips' \in [Jobs -> Nat]
    BY <1>3, CountTypes DEF LoseLock, Slip, Types
  <2> QED
    BY <1>3, <2>2, <2>3 DEF Types, LoseLock
<1>4. CASE Stalled(j)
  <2> DEFINE n == job[j].stalls + 1
             d == job[j].stalls + 1 > MaxStalled
  <2>1. n \in Nat /\ d \in BOOLEAN
    BY <1>0, LimitsAssumption DEF Job
  <2>2. [job[j] EXCEPT !.state = "wait", !.stalls = n, !.doomed = d] \in Job
    BY <1>0, <2>1, JobTypes
  <2>3. job' = [job EXCEPT ![j] =
                  [job[j] EXCEPT !.state = "wait", !.stalls = n, !.doomed = d]]
    BY <1>0, <1>4 DEF Stalled
  <2> QED
    BY <1>4, <2>2, <2>3 DEF Types, Stalled
<1>5. ASSUME NEW w \in Workers, Fetch(w, j) PROVE Types'
  <2>1. [job[j] EXCEPT !.state = "active", !.lock = w] \in Job
    BY <1>0, JobTypes
  <2>2. job' \in [Jobs -> Job]
    BY <1>0, <1>5, <2>1 DEF Fetch
  <2> DEFINE s == [Waiting EXCEPT !.job = j, !.unrecoverable = job[j].doomed,
                     !.pc = IF job[j].doomed THEN "failed" ELSE "check"]
  <2>3. s \in Slot
    BY <1>0 DEF Slot, Job, Waiting
  <2>4. proc' = [proc EXCEPT ![w] = s]
    BY <1>5 DEF Fetch
  <2> HIDE DEF s
  <2>5. proc' \in [Workers -> Slot]
    BY <2>3, <2>4 DEF Types
  <2> QED
    BY <1>5, <2>2, <2>5 DEF Types, Fetch
<1> QED
  BY <1>1, <1>2, <1>3, <1>4, <1>5

\* The steps of a job's processor.
LEMMA ProcessorTypes ==
  ASSUME Types, NEW w \in Workers, Working(w),
         CheckMarker(w) \/ Dispatch(w) \/ SetMarker(w)
  PROVE  Types'
<1>0. sent \in [Jobs -> Nat] /\ slips \in [Jobs -> Nat]
  BY DEF Types
<1>1. CASE CheckMarker(w)
  BY <1>1, SlotTypes DEF Types, CheckMarker
<1>2. CASE Dispatch(w)
  <2>1. proc[w].job \in Jobs
    BY <1>2 DEF Dispatch, Working
  <2>2. proc' \in [Workers -> Slot]
    BY <1>2, SlotTypes DEF Dispatch, Unrecoverable, Permanent
  <2>3. sent' \in [Jobs -> Nat] /\ slips' \in [Jobs -> Nat]
    BY <1>0, <1>2, <2>1, CountTypes DEF Dispatch, Slip
  <2> QED
    BY <1>2, <2>2, <2>3 DEF Types, Dispatch
<1>3. CASE SetMarker(w)
  <2>1. proc[w].job \in Jobs
    BY <1>3 DEF SetMarker, Working
  <2>2. proc' \in [Workers -> Slot]
    BY <1>3, SlotTypes DEF SetMarker
  <2>3. slips' \in [Jobs -> Nat]
    <3>1. slips' = slips \/ slips' = [slips EXCEPT ![proc[w].job] = slips[proc[w].job] + 1]
      BY <1>3 DEF SetMarker, Slip
    <3> QED
      BY <1>0, <2>1, <3>1, CountTypes
  <2>4. marker' \in SUBSET Jobs
    BY <1>3, <2>1 DEF SetMarker, Types
  <2> QED
    BY <1>3, <2>2, <2>3, <2>4 DEF Types, SetMarker
<1> QED
  BY <1>1, <1>2, <1>3

\* The end of an attempt.
LEMMA AttemptTypes ==
  ASSUME Types, NEW w \in Workers, Working(w),
         MoveToCompleted(w) \/ MoveToFailed(w) \/ OnFailed(w) \/ WriteStep(w)
  PROVE  Types'
<1> DEFINE j == proc[w].job
<1>0. /\ proc[w] \in Slot /\ proc \in [Workers -> Slot] /\ job \in [Jobs -> Job]
      /\ host[w] \in Host /\ host \in [Workers -> Host]
  BY DEF Types
<1>1. CASE MoveToCompleted(w)
  <2>1. j \in Jobs
    BY <1>1 DEF MoveToCompleted, Working
  <2>2. [job[j] EXCEPT !.state = "completed", !.lock = Null] \in Job
    BY <1>0, <2>1, JobTypes
  <2>3. job' \in [Jobs -> Job]
    BY <1>0, <1>1, <2>1, <2>2 DEF MoveToCompleted
  <2> QED
    BY <1>1, <2>3, FreshTypes DEF Types, MoveToCompleted
<1>2. CASE MoveToFailed(w)
  <2>1. j \in Jobs
    BY <1>2 DEF MoveToFailed, Working
  <2> DEFINE made == job[j].made + 1
             final == proc[w].unrecoverable \/ made >= Attempts
             s == IF final THEN "failed" ELSE "wait"
  <2>2. made \in Nat /\ final \in BOOLEAN /\ s \in {"failed", "wait"}
    BY <1>0, <2>1 DEF Job, Slot
  <2>3. CASE job[j].lock = w
    <3>1. /\ job' = [job EXCEPT ![j] =
                       [job[j] EXCEPT !.made = made, !.lock = Null, !.state = s]]
          /\ ends' = IF final THEN [ends EXCEPT ![w][j] = ends[w][j] + 1] ELSE ends
          /\ proc' = [proc EXCEPT ![w] =
                        [proc[w] EXCEPT !.pc = "event", !.made = made, !.final = final]]
          /\ UNCHANGED <<marker, host, dlq, sent, slips, lost>>
      BY <1>0, <1>2, <2>1, <2>3 DEF MoveToFailed
    <3> HIDE DEF made, final, s, j
    <3>2. job' \in [Jobs -> Job]
      BY <1>0, <2>1, <2>2, <3>1, JobTypes
    <3>3. proc' \in [Workers -> Slot]
      <4>1. [proc[w] EXCEPT !.pc = "event", !.made = made, !.final = final] \in Slot
        BY <1>0, <2>2 DEF Slot
      <4> QED
        BY <1>0, <3>1, <4>1
    <3>4. ends' \in [Workers -> [Jobs -> Nat]]
      BY <2>1, <3>1, LedgerTypes DEF Types
    <3> QED
      BY <3>1, <3>2, <3>3, <3>4 DEF Types
  <2>4. CASE job[j].lock # w
    BY <1>2, <2>4, FreshTypes DEF MoveToFailed, Types
  <2> QED
    BY <2>3, <2>4
<1>3. CASE OnFailed(w)
  <2>1. j \in Jobs
    BY <1>3 DEF OnFailed, Working
  <2> DEFINE f == [host[w].writes EXCEPT ![j] = host[w].writes[j] + 1]
  <2>2. [host[w] EXCEPT !.writes = f] \in Host
    BY <1>0, <2>1, CountTypes, WriteTypes DEF Host
  <2>3. host' = host \/ host' = [host EXCEPT ![w] = [host[w] EXCEPT !.writes = f]]
    BY <1>0, <1>3 DEF OnFailed
  <2> HIDE DEF f
  <2> QED
    BY <1>0, <1>3, <2>2, <2>3, FreshTypes DEF Types, OnFailed
<1>4. ASSUME NEW k \in Jobs, DeadLetterWritten(w, k) PROVE Types'
  <2> DEFINE f == [host[w].writes EXCEPT ![k] = host[w].writes[k] - 1]
  <2>1. [host[w] EXCEPT !.writes = f] \in Host
    BY <1>0, <1>4, CountTypes, WriteTypes DEF Host, DeadLetterWritten
  <2>2. host' = [host EXCEPT ![w] = [host[w] EXCEPT !.writes = f]]
    BY <1>0, <1>4 DEF DeadLetterWritten
  <2>3. dlq' \in [Workers -> [Jobs -> Nat]] /\ lost' \in [Workers -> [Jobs -> Nat]]
    <3>1. /\ dlq' = dlq \/ dlq' = [dlq EXCEPT ![w][k] = dlq[w][k] + 1]
          /\ lost' = lost \/ lost' = [lost EXCEPT ![w][k] = lost[w][k] + 1]
      BY <1>4 DEF DeadLetterWritten
    <3>2. dlq \in [Workers -> [Jobs -> Nat]] /\ lost \in [Workers -> [Jobs -> Nat]]
      BY DEF Types
    <3>3. /\ [dlq EXCEPT ![w][k] = dlq[w][k] + 1] \in [Workers -> [Jobs -> Nat]]
          /\ [lost EXCEPT ![w][k] = lost[w][k] + 1] \in [Workers -> [Jobs -> Nat]]
      BY <3>2, LedgerTypes
    <3> QED
      BY <3>1, <3>2, <3>3
  <2> HIDE DEF f
  <2>4. host' \in [Workers -> Host]
    BY <1>0, <2>1, <2>2
  <2> QED
    BY <1>4, <2>3, <2>4 DEF Types, DeadLetterWritten
<1> QED
  BY <1>1, <1>2, <1>3, <1>4 DEF WriteStep

\* What a process owes is a number.
LEMMA OwesNat ==
  ASSUME Types, NEW w \in Workers, NEW j \in Jobs
  PROVE  Owes(w, j) \in Nat
BY DEF Types, Host, Owes

\* A process that ends.
LEMMA VanishTypes ==
  ASSUME Types, NEW w \in Workers, Working(w), NEW h \in Host, Vanish(w, h),
         UNCHANGED <<marker, dlq, sent, ends>>
  PROVE  Types'
<1>1. lost' \in [Workers -> [Jobs -> Nat]]
  BY OwesNat DEF Types, Vanish
<1>2. job' \in [Jobs -> Job]
  <2>1. ASSUME NEW k \in Jobs  PROVE [job[k] EXCEPT !.lock = Null] \in Job /\ job[k] \in Job
    <3>1. job[k] \in Job  BY DEF Types
    <3> QED  BY <3>1 DEF Job
  <2> QED  BY <2>1 DEF Vanish
<1>3. slips' \in [Jobs -> Nat]
  BY DEF Types, Vanish, Slip, Working
<1> QED
  BY <1>1, <1>2, <1>3, FreshTypes DEF Types, Vanish

\* The steps of a process.
LEMMA ProcessTypes ==
  ASSUME Types, NEW w \in Workers, Working(w),
         \/ \E fatal \in BOOLEAN : Signal(w, fatal)
         \/ StepDone(w) \/ StepFails(w) \/ Crash(w) \/ Restart(w)
  PROVE  Types'
<1>0. host[w] \in Host /\ host \in [Workers -> Host]
  BY DEF Types
<1>1. ASSUME NEW fatal \in BOOLEAN, Signal(w, fatal) PROVE Types'
  <2> DEFINE c == IF fatal THEN 1 ELSE 0
  <2>1. host' = [host EXCEPT ![w] = [host[w] EXCEPT !.step = 1, !.code = c]]
    BY <1>0, <1>1 DEF Signal
  <2>2. 1 \in 0..4 /\ c \in {0, 1}
    OBVIOUS
  <2> HIDE DEF c
  <2>3. [host[w] EXCEPT !.step = 1, !.code = c] \in Host
    BY <1>0, <2>2, HostTypes
  <2>4. host' \in [Workers -> Host]
    BY <1>0, <2>1, <2>3
  <2> QED
    BY <1>1, <2>4 DEF Types, Signal
<1>2. ASSUME NEW code \in {0, 1}, host[w].step \in 1..Len(Steps), NextStep(w, code)
      PROVE  Types'
  <2>0. host[w].step + 1 \in 0..4
    BY <1>2, ThreeSteps
  <2>1. CASE host[w].step = Len(Steps)
    <3> DEFINE h == [Started EXCEPT !.step = host[w].step + 1, !.code = code]
    <3>1. h \in Host
      BY <1>2, <2>0, HostTypes, FreshTypes
    <3>2. Vanish(w, h) /\ UNCHANGED <<marker, dlq, sent, ends>>
      BY <1>0, <1>2, <2>1 DEF NextStep, Host
    <3> QED
      BY <3>1, <3>2, VanishTypes
  <2>2. CASE host[w].step # Len(Steps)
    <3>1. [host[w] EXCEPT !.step = host[w].step + 1, !.code = code] \in Host
      BY <1>0, <1>2, <2>0, HostTypes
    <3> QED
      BY <1>0, <1>2, <2>2, <3>1 DEF NextStep, Types
  <2> QED
    BY <2>1, <2>2
<1>3. CASE StepDone(w) \/ StepFails(w)
  <2>1. host[w].code \in {0, 1}
    BY <1>0 DEF Host
  <2> QED
    BY <1>2, <1>3, <2>1 DEF StepDone, StepFails
<1>4. CASE Crash(w)
  <2>0. Len(Steps) + 1 \in 0..4 /\ 1 \in {0, 1}
    BY ThreeSteps
  <2>1. [Started EXCEPT !.step = Len(Steps) + 1, !.code = 1] \in Host
    BY <2>0, FreshTypes, HostTypes
  <2> QED
    BY <1>4, <2>1, VanishTypes DEF Crash, Die
<1>5. CASE Restart(w)
  BY <1>5, FreshTypes DEF Types, Restart
<1> QED
  BY <1>1, <1>3, <1>4, <1>5

-----------------------------------------------------------------------------
(***************************************************************************)
(* Every step keeps the rest of the invariant.                             *)
(***************************************************************************)
\* A step of process w: what has to be shown is about w and the locks it holds.
LEMMA OneProcess ==
  ASSUME SInv, Types', NEW w \in Workers, marker \subseteq marker',
         \A v \in Workers \ {w} :
           /\ proc'[v] = proc[v] /\ host'[v] = host[v]
           /\ ends'[v] = ends[v] /\ dlq'[v] = dlq[v] /\ lost'[v] = lost[v],
         Working(w)', Quiet(w)', (\A j \in Jobs : Settled(w, j))',
         \A j \in Jobs : job'[j].lock # Null =>
           IF job'[j].lock = w
             THEN /\ job'[j].state = "active" /\ proc'[w].job = j
                  /\ proc'[w].pc \notin {"wait", "event"}
             ELSE job'[j].lock = job[j].lock /\ job'[j].state = job[j].state
  PROVE  SInv'
<1>1. ASSUME NEW v \in Workers, v # w
      PROVE  Working(v)' /\ Quiet(v)' /\ (\A j \in Jobs : Settled(v, j))'
  <2>1. Working(v)'
    BY <1>1 DEF SInv, Working, IsFinalFailure
  <2>2. Quiet(v)'
    BY <1>1 DEF SInv, Quiet
  <2>3. (\A j \in Jobs : Settled(v, j))'
    BY <1>1 DEF SInv, Settled, Owes
  <2> QED
    BY <2>1, <2>2, <2>3
<1>2. ASSUME NEW j \in Jobs PROVE LockHeld(j)'
  <2>1. CASE job'[j].lock = w
    BY <2>1 DEF LockHeld
  <2>2. CASE job'[j].lock # w /\ job'[j].lock # Null
    <3>1. job'[j].lock = job[j].lock /\ job'[j].state = job[j].state
      BY <2>2
    <3>2. job[j].lock \in Workers \ {w}
      BY <2>2, <3>1 DEF SInv, Types, Job
    <3> QED
      BY <2>2, <3>1, <3>2 DEF SInv, LockHeld
  <2>3. CASE job'[j].lock = Null
    BY <2>3 DEF LockHeld
  <2> QED
    BY <2>1, <2>2, <2>3
<1>3. (\A v \in Workers : Working(v))'
  BY <1>1
<1>4. (\A v \in Workers : Quiet(v))'
  BY <1>1
<1>5. (\A v \in Workers, j \in Jobs : Settled(v, j))'
  BY <1>1
<1>6. (\A j \in Jobs : LockHeld(j))'
  BY <1>2
<1> QED
  BY <1>3, <1>4, <1>5, <1>6 DEF SInv

\* BullMQ's steps on a job touch no process, and no lock but to end it.
LEMMA QueueSInv ==
  ASSUME SInv, NEW j \in Jobs, Add(j) \/ Forget(j) \/ LoseLock(j) \/ Stalled(j)
  PROVE  SInv'
<1>1. Types'
  BY QueueTypes DEF SInv
<1>2. UNCHANGED <<proc, host, ends, dlq, lost, marker>>
  BY DEF Add, Forget, LoseLock, Stalled
<1>3. /\ \A k \in Jobs \ {j} : job'[k] = job[k]
      /\ job'[j].lock = Null
  <2>0. job \in [Jobs -> Job] /\ job[j] \in Job
    BY DEF SInv, Types
  <2>1. CASE Add(j) \/ Forget(j)
    BY <2>0, <2>1, FreshTypes DEF Add, Forget, NoJob
  <2>2. CASE LoseLock(j) \/ Stalled(j)
    BY <2>0, <2>2 DEF LoseLock, Stalled, Job
  <2> QED
    BY <2>1, <2>2
<1>4. ASSUME NEW k \in Jobs PROVE LockHeld(k)'
  BY <1>2, <1>3 DEF SInv, LockHeld
<1>5. (\A w \in Workers : Working(w))'
  BY <1>2 DEF SInv, Working, IsFinalFailure
<1>6. (\A w \in Workers : Quiet(w))'
  BY <1>2 DEF SInv, Quiet
<1>7. (\A w \in Workers, k \in Jobs : Settled(w, k))'
  BY <1>2 DEF SInv, Settled, Owes
<1> QED
  BY <1>1, <1>4, <1>5, <1>6, <1>7 DEF SInv

\* A process fetches a job: it is not shutting down, and the job had no lock.
LEMMA FetchSInv ==
  ASSUME SInv, NEW w \in Workers, NEW j \in Jobs, Fetch(w, j)
  PROVE  SInv'
<1>1. Types'
  BY QueueTypes DEF SInv
<1>2. UNCHANGED <<host, ends, dlq, lost, marker>>
  BY DEF Fetch
<1>3. host[w].step < 1
  BY ThreeSteps DEF Fetch, Fetching
<1>4. /\ proc'[w].pc \in {"check", "failed"} /\ proc'[w].job = j
      /\ \A v \in Workers \ {w} : proc'[v] = proc[v]
  BY DEF SInv, Types, Fetch, Waiting
<1>5. /\ job'[j].lock = w /\ job'[j].state = "active"
      /\ \A k \in Jobs \ {j} : job'[k] = job[k]
  <2>0. job \in [Jobs -> Job] /\ job[j] \in Job
    BY DEF SInv, Types
  <2> QED
    BY <2>0 DEF Fetch, Job
<1>6. proc[w].pc = "wait"
  BY DEF Fetch
<1>7. Working(w)'
  BY <1>4 DEF Working
<1>8. Quiet(w)'
  <2>1. host'[w].step = host[w].step /\ host[w].step \in 0..4
    BY <1>2 DEF SInv, Types, Host
  <2> QED
    BY <1>3, <2>1 DEF Quiet
<1>9. (\A k \in Jobs : Settled(w, k))'
  BY <1>2, <1>4, <1>6 DEF Settled, Owes, SInv
<1>10. ASSUME NEW k \in Jobs, k # j, job[k].lock # Null PROVE job[k].lock # w
  BY <1>6, <1>10 DEF SInv, LockHeld
<1> QED
  BY <1>1, <1>2, <1>4, <1>5, <1>7, <1>8, <1>9, <1>10, OneProcess

\* The steps of a job's processor leave the job its lock.
LEMMA ProcessorSInv ==
  ASSUME SInv, NEW w \in Workers, CheckMarker(w) \/ Dispatch(w) \/ SetMarker(w)
  PROVE  SInv'
<1>1. Types'
  BY ProcessorTypes DEF SInv
<1>2. UNCHANGED <<host, ends, dlq, lost, job>> /\ marker \subseteq marker'
  BY DEF CheckMarker, Dispatch, SetMarker
<1>3. /\ proc'[w].pc \in {"send", "mark", "done", "failed"} /\ proc'[w].job = proc[w].job
      /\ proc'[w].pc = "done" => proc[w].job \in marker'
      /\ \A v \in Workers \ {w} : proc'[v] = proc[v]
  <2>0. proc \in [Workers -> Slot] /\ proc[w] \in Slot
    BY DEF SInv, Types
  <2>1. ASSUME NEW l \in {"send", "mark", "done"}, Goto(w, l)
        PROVE  /\ proc'[w].pc = l /\ proc'[w].job = proc[w].job
               /\ \A v \in Workers \ {w} : proc'[v] = proc[v]
    BY <2>0, <2>1 DEF Goto, Slot
  <2>2. ASSUME NEW u, Throw(w, u)
        PROVE  /\ proc'[w].pc = "failed" /\ proc'[w].job = proc[w].job
               /\ \A v \in Workers \ {w} : proc'[v] = proc[v]
    BY <2>0, <2>2 DEF Throw, Slot
  <2>3. CASE CheckMarker(w)
    BY <2>1, <2>2, <2>3 DEF CheckMarker
  <2>4. CASE Dispatch(w)
    BY <2>1, <2>2, <2>4 DEF Dispatch
  <2>5. CASE SetMarker(w)
    BY <2>1, <2>2, <2>5 DEF SetMarker
  <2> QED
    BY <2>3, <2>4, <2>5
<1>4. proc[w].pc \in {"check", "send", "mark"} /\ proc[w].job \in Jobs
  BY DEF CheckMarker, Dispatch, SetMarker, SInv, Working
<1>5. Working(w)'
  BY <1>3, <1>4 DEF Working
<1>6. Quiet(w)'
  BY <1>2, <1>4 DEF Quiet, SInv, Types, Host
<1>7. (\A k \in Jobs : Settled(w, k))'
  BY <1>2, <1>3, <1>4 DEF Settled, Owes, SInv
<1>8. ASSUME NEW k \in Jobs, job[k].lock = w
      PROVE  job[k].state = "active" /\ proc[w].job = k
  BY <1>8, NullAssumption DEF SInv, LockHeld
<1> QED
  BY <1>1, <1>2, <1>3, <1>5, <1>6, <1>7, <1>8, OneProcess

\* The numbers of the ledger.
LEMMA LedgerNumbers ==
  ASSUME SInv, NEW w \in Workers, NEW j \in Jobs
  PROVE  /\ ends[w][j] \in Nat /\ dlq[w][j] \in Nat /\ lost[w][j] \in Nat
         /\ host[w].writes[j] \in Nat /\ Owes(w, j) \in Nat
         /\ host[w].step \in 0..4 /\ host[w].code \in {0, 1}
         /\ ends[w][j] = dlq[w][j] + lost[w][j] + Owes(w, j)
<1>1. Types
  BY DEF SInv
<1>2. host[w] \in Host
  BY <1>1 DEF Types
<1> QED
  BY <1>1, <1>2, OwesNat DEF Types, Host, SInv, Settled

\* A completed attempt, which returns the lock if it still has it.
LEMMA CompletedSInv ==
  ASSUME SInv, NEW w \in Workers, MoveToCompleted(w)
  PROVE  SInv'
<1> DEFINE j == proc[w].job
<1>1. Types'
  BY AttemptTypes DEF SInv
<1>2. UNCHANGED <<host, ends, dlq, lost, marker>> /\ proc[w].pc = "done" /\ j \in Jobs
  BY DEF MoveToCompleted, SInv, Working
<1>3. proc'[w] = Waiting /\ \A v \in Workers \ {w} : proc'[v] = proc[v]
  BY DEF MoveToCompleted, SInv, Types
<1>4. \A k \in Jobs : job'[k].lock # Null => job'[k] = job[k] /\ job[k].lock # w
  <2>1. ASSUME NEW k \in Jobs, job[k].lock = w PROVE k = j
    BY <2>1, NullAssumption DEF SInv, LockHeld
  <2>2. job \in [Jobs -> Job] /\ job[j] \in Job
    BY <1>2 DEF SInv, Types
  <2>3. CASE job[j].lock = w
    <3>1. job'[j].lock = Null /\ \A k \in Jobs \ {j} : job'[k] = job[k]
      BY <1>2, <2>2, <2>3 DEF MoveToCompleted, Job
    <3> QED
      BY <2>1, <3>1
  <2>4. CASE job[j].lock # w
    BY <2>1, <2>4 DEF MoveToCompleted
  <2> QED
    BY <2>3, <2>4
<1>5. Working(w)'
  BY <1>3, FreshTypes DEF Working
<1>6. Quiet(w)'
  BY <1>2, <1>3, FreshTypes DEF Quiet, SInv
<1>7. (\A k \in Jobs : Settled(w, k))'
  BY <1>2, <1>3, FreshTypes DEF Settled, Owes, SInv
<1> QED
  BY <1>1, <1>2, <1>3, <1>4, <1>5, <1>6, <1>7, OneProcess

\* A failed attempt.  BullMQ counts the end of the job where the worker will be
\* told of it.
LEMMA FailedSInv ==
  ASSUME SInv, NEW w \in Workers, MoveToFailed(w)
  PROVE  SInv'
<1> DEFINE j == proc[w].job
           made == job[j].made + 1
           final == proc[w].unrecoverable \/ made >= Attempts
<1>1. Types'
  BY AttemptTypes DEF SInv
<1>2. UNCHANGED <<host, dlq, lost, marker>> /\ proc[w].pc = "failed" /\ j \in Jobs
  BY DEF MoveToFailed, SInv, Working
<1>3. ASSUME NEW k \in Jobs, job[k].lock = w PROVE k = j
  BY <1>3, NullAssumption DEF SInv, LockHeld
<1>4. /\ job \in [Jobs -> Job] /\ job[j] \in Job
      /\ proc \in [Workers -> Slot] /\ proc[w] \in Slot
      /\ ends \in [Workers -> [Jobs -> Nat]]
  BY <1>2 DEF SInv, Types
<1>5. CASE job[j].lock = w
  <2>1. /\ job' = [job EXCEPT ![j].made = made, ![j].lock = Null,
                     ![j].state = IF final THEN "failed" ELSE "wait"]
        /\ ends' = IF final THEN [ends EXCEPT ![w][j] = ends[w][j] + 1] ELSE ends
        /\ proc' = [proc EXCEPT ![w].pc = "event", ![w].made = made,
                                ![w].final = final]
    BY <1>2, <1>5 DEF MoveToFailed
  <2>2. final \in BOOLEAN
    BY <1>4 DEF Slot
  <2>3. /\ proc'[w].pc = "event" /\ proc'[w].job = j
        /\ proc'[w].unrecoverable = proc[w].unrecoverable
        /\ proc'[w].made = made /\ proc'[w].final = final
        /\ \A v \in Workers \ {w} : proc'[v] = proc[v]
    <3> HIDE DEF made, final
    <3> QED
      BY <1>4, <2>1 DEF Slot
  <2>4. Working(w)'
    BY <1>2, <2>3 DEF Working, IsFinalFailure
  <2>5. Quiet(w)'
    BY <1>2, <1>4 DEF Quiet, SInv
  <2>6. /\ \A v \in Workers \ {w} : ends'[v] = ends[v]
        /\ \A k \in Jobs \ {j} : ends'[w][k] = ends[w][k]
        /\ ends'[w][j] = ends[w][j] + (IF final THEN 1 ELSE 0)
    <3> HIDE DEF made, final
    <3>1. CASE final
      BY <1>2, <1>4, <2>1, <3>1
    <3>2. CASE ~final
      BY <1>2, <1>4, <2>1, <3>2
    <3> QED
      BY <3>1, <3>2
  <2>7. ASSUME NEW k \in Jobs PROVE Settled(w, k)'
    <3> HIDE DEF made, final
    <3>1. Owes(w, k) = host[w].writes[k]
      BY <1>2, LedgerNumbers DEF Owes
    <3>2. Owes(w, k)' = host[w].writes[k] + (IF k = j /\ final THEN 1 ELSE 0)
      BY <1>2, <2>3 DEF Owes
    <3>3. ends'[w][k] = ends[w][k] + (IF k = j /\ final THEN 1 ELSE 0)
      BY <2>6, LedgerNumbers
    <3>4. dlq'[w][k] = dlq[w][k] /\ lost'[w][k] = lost[w][k]
      BY <1>2
    <3> QED
      BY <3>1, <3>2, <3>3, <3>4, LedgerNumbers DEF Settled
  <2>8. \A k \in Jobs : job'[k].lock # Null => job'[k] = job[k] /\ job[k].lock # w
    <3>1. job'[j].lock = Null /\ \A k \in Jobs \ {j} : job'[k] = job[k]
      <4> HIDE DEF made, final
      <4> QED
        BY <1>2, <1>4, <2>1 DEF Job
    <3> QED
      BY <1>3, <3>1
  <2> QED
    BY <1>1, <1>2, <2>3, <2>4, <2>5, <2>6, <2>7, <2>8, OneProcess
<1>6. CASE job[j].lock # w
  <2>1. proc' = [proc EXCEPT ![w] = Waiting] /\ UNCHANGED <<job, ends>>
    BY <1>6 DEF MoveToFailed
  <2>2. proc'[w] = Waiting /\ \A v \in Workers \ {w} : proc'[v] = proc[v]
    BY <1>4, <2>1
  <2>3. Working(w)'
    BY <2>2, FreshTypes DEF Working
  <2>4. Quiet(w)'
    BY <1>2, <2>2, FreshTypes DEF Quiet, SInv
  <2>5. (\A k \in Jobs : Settled(w, k))'
    BY <1>2, <2>1, <2>2, FreshTypes DEF Settled, Owes, SInv
  <2> QED
    BY <1>1, <1>2, <1>3, <1>6, <2>1, <2>2, <2>3, <2>4, <2>5, OneProcess
<1> QED
  BY <1>5, <1>6

\* The failed event turns a final failure that was owed into a write that is owed.
LEMMA OnFailedSInv ==
  ASSUME SInv, NEW w \in Workers, OnFailed(w)
  PROVE  SInv'
<1> DEFINE j == proc[w].job
<1>1. Types'
  BY AttemptTypes DEF SInv
<1>2. /\ UNCHANGED <<job, ends, dlq, lost, marker>> /\ proc[w].pc = "event" /\ j \in Jobs
      /\ proc[w].final <=> IsFinalFailure(w)
  BY DEF OnFailed, SInv, Working
<1>3. proc'[w] = Waiting /\ \A v \in Workers \ {w} : proc'[v] = proc[v]
  BY DEF OnFailed, SInv, Types
<1>4. host \in [Workers -> Host] /\ host[w] \in Host
  BY DEF SInv, Types
<1>5. /\ \A v \in Workers \ {w} : host'[v] = host[v]
      /\ host'[w].step = host[w].step /\ host'[w].code = host[w].code
      /\ \A k \in Jobs : host'[w].writes[k] =
           host[w].writes[k] + (IF k = j /\ proc[w].final THEN 1 ELSE 0)
  <2>1. CASE proc[w].final
    BY <1>2, <1>4, <2>1 DEF OnFailed, Host
  <2>2. CASE ~proc[w].final
    <3>1. host' = host
      BY <1>2, <2>2 DEF OnFailed
    <3> QED
      BY <1>4, <2>2, <3>1 DEF Host
  <2> QED
    BY <2>1, <2>2
<1>6. Working(w)'
  BY <1>3, FreshTypes DEF Working
<1>7. Quiet(w)'
  <2>1. Quiet(w) /\ host[w].step \in 0..4
    BY <1>4 DEF SInv, Host
  <2>2. host[w].step # 4 /\ (host[w].code = 0 => host[w].step < 2)
    BY <1>2, <2>1 DEF Quiet
  <2> QED
    BY <1>5, <2>1, <2>2 DEF Quiet
<1>8. ASSUME NEW k \in Jobs PROVE Settled(w, k)'
  <2>1. Owes(w, k) = host[w].writes[k] + (IF k = j /\ proc[w].final THEN 1 ELSE 0)
    BY <1>2 DEF Owes
  <2>2. Owes(w, k)' = host'[w].writes[k] + 0
    BY <1>3, FreshTypes DEF Owes
  <2>3. Owes(w, k)' = Owes(w, k)
    BY <1>5, <2>1, <2>2, LedgerNumbers
  <2>4. ends'[w][k] = ends[w][k] /\ dlq'[w][k] = dlq[w][k] /\ lost'[w][k] = lost[w][k]
    BY <1>2
  <2> QED
    BY <2>3, <2>4, LedgerNumbers DEF Settled
<1>9. ASSUME NEW k \in Jobs PROVE job[k].lock # w
  BY <1>2, NullAssumption DEF SInv, LockHeld
<1> QED
  BY <1>1, <1>2, <1>3, <1>5, <1>6, <1>7, <1>8, <1>9, OneProcess

\* A write under way ends, in the table or lost.
LEMMA WriteSInv ==
  ASSUME SInv, NEW w \in Workers, NEW j \in Jobs, DeadLetterWritten(w, j)
  PROVE  SInv'
<1>1. Types'
  BY AttemptTypes DEF SInv, WriteStep
<1>2. UNCHANGED <<job, ends, proc, marker>> /\ host[w].writes[j] > 0
  BY DEF DeadLetterWritten
<1>3. /\ host \in [Workers -> Host] /\ host[w] \in Host
      /\ dlq \in [Workers -> [Jobs -> Nat]] /\ lost \in [Workers -> [Jobs -> Nat]]
  BY DEF SInv, Types
<1>4. /\ \A v \in Workers \ {w} : host'[v] = host[v]
      /\ host'[w].step = host[w].step /\ host'[w].code = host[w].code
      /\ \A k \in Jobs \ {j} : host'[w].writes[k] = host[w].writes[k]
      /\ host'[w].writes[j] = host[w].writes[j] - 1
  BY <1>3 DEF DeadLetterWritten, Host
<1>5. /\ \A v \in Workers \ {w} : dlq'[v] = dlq[v] /\ lost'[v] = lost[v]
      /\ \A k \in Jobs \ {j} : dlq'[w][k] = dlq[w][k] /\ lost'[w][k] = lost[w][k]
      /\ dlq'[w][j] + lost'[w][j] = dlq[w][j] + lost[w][j] + 1
  <2>1. CASE dlq' = [dlq EXCEPT ![w][j] = dlq[w][j] + 1] /\ lost' = lost
    BY <1>3, <2>1, LedgerNumbers
  <2>2. CASE lost' = [lost EXCEPT ![w][j] = lost[w][j] + 1] /\ dlq' = dlq
    BY <1>3, <2>2, LedgerNumbers
  <2> QED
    BY <2>1, <2>2 DEF DeadLetterWritten
<1>6. Working(w)'
  BY <1>2 DEF Working, SInv, IsFinalFailure
<1>7. Quiet(w)'
  <2>1. Quiet(w) /\ host[w].writes[j] # 0 /\ proc'[w] = proc[w]
    BY <1>2, LedgerNumbers DEF SInv
  <2>2. host[w].step # 4 /\ (host[w].code = 0 => ~(host[w].step >= 3))
    BY <2>1 DEF Quiet
  <2> QED
    BY <1>4, <2>1, <2>2 DEF Quiet
<1>8. ASSUME NEW k \in Jobs PROVE Settled(w, k)'
  <2>1. CASE k = j
    <3>1. Owes(w, k)' = Owes(w, k) - 1
      BY <1>2, <1>4, <2>1, LedgerNumbers DEF Owes
    <3>2. Types' /\ dlq'[w][k] \in Nat /\ lost'[w][k] \in Nat /\ ends'[w][k] = ends[w][k]
      BY <1>1, <1>2 DEF Types
    <3> QED
      BY <1>5, <2>1, <3>1, <3>2, LedgerNumbers DEF Settled
  <2>2. CASE k # j
    <3>1. Owes(w, k)' = Owes(w, k)
      BY <1>2, <1>4, <2>2 DEF Owes
    <3> QED
      BY <1>2, <1>5, <2>2, <3>1, LedgerNumbers DEF Settled
  <2> QED
    BY <2>1, <2>2
<1>9. \A k \in Jobs : LockHeld(k)
  BY DEF SInv
<1> QED
  BY <1>1, <1>2, <1>4, <1>5, <1>6, <1>7, <1>8, <1>9, OneProcess DEF LockHeld

\* A process that is gone: what it owed is lost, its locks run out.
LEMMA VanishSInv ==
  ASSUME SInv, NEW w \in Workers, NEW h \in Host, Vanish(w, h),
         \A j \in Jobs : h.writes[j] = 0,
         UNCHANGED <<marker, dlq, sent, ends>>
  PROVE  SInv'
<1>1. Types'
  BY VanishTypes DEF SInv
<1>2. /\ proc'[w] = Waiting /\ host'[w] = h
      /\ lost'[w] = [k \in Jobs |-> lost[w][k] + Owes(w, k)]
      /\ \A v \in Workers \ {w} :
           proc'[v] = proc[v] /\ host'[v] = host[v] /\ lost'[v] = lost[v]
  BY DEF Vanish, SInv, Types
<1>3. Working(w)' /\ Quiet(w)'
  BY <1>2, FreshTypes DEF Working, Quiet
<1>4. ASSUME NEW k \in Jobs PROVE Settled(w, k)'
  <2>1. Owes(w, k)' = 0
    BY <1>2, FreshTypes DEF Owes
  <2>2. lost'[w][k] = lost[w][k] + Owes(w, k)
    BY <1>2
  <2> QED
    BY <2>1, <2>2, LedgerNumbers DEF Settled
<1>5. ASSUME NEW k \in Jobs, job'[k].lock # Null
      PROVE  job'[k] = job[k] /\ job[k].lock # w
  <2>1. job[k] \in Job
    BY DEF SInv, Types
  <2>2. CASE job[k].lock = w
    <3>1. job'[k].lock = Null
      BY <2>1, <2>2 DEF Vanish, Job
    <3> QED
      BY <1>5, <3>1
  <2>3. CASE job[k].lock # w
    BY <2>3 DEF Vanish
  <2> QED
    BY <2>2, <2>3
<1> QED
  BY <1>1, <1>2, <1>3, <1>4, <1>5, OneProcess

\* A step of the host alone.
LEMMA HostSInv ==
  ASSUME SInv, NEW w \in Workers, NEW h \in Host, h.writes = host[w].writes,
         host' = [host EXCEPT ![w] = h],
         UNCHANGED <<job, marker, proc, dlq, sent, slips, ends, lost>>,
         Quiet(w)'
  PROVE  SInv'
<1>1. Types'
  BY DEF SInv, Types
<1>2. host'[w] = h /\ \A v \in Workers \ {w} : host'[v] = host[v]
  BY DEF SInv, Types
<1>3. Working(w)'
  BY DEF SInv, Working, IsFinalFailure
<1>4. (\A k \in Jobs : Settled(w, k))'
  BY <1>2 DEF SInv, Settled, Owes
<1>5. \A k \in Jobs : LockHeld(k)
  BY DEF SInv
<1> QED
  BY <1>1, <1>2, <1>3, <1>4, <1>5, OneProcess DEF LockHeld

\* The next step of a shutdown, which was reached with code c.
LEMMA NextStepSInv ==
  ASSUME SInv, NEW w \in Workers, NEW c \in {0, 1}, NextStep(w, c),
         host[w].step \in 1..Len(Steps),
         c = 0 => host[w].code = 0 /\ StepOver(w, Steps[host[w].step])
  PROVE  SInv'
<1>0. host[w].step \in 1..3 /\ host[w].step + 1 \in 0..4
  BY ThreeSteps
<1>1. CASE host[w].step = Len(Steps)
  <2> DEFINE h == [Started EXCEPT !.step = host[w].step + 1, !.code = c]
  <2>1. h \in Host
    BY <1>0, HostTypes, FreshTypes
  <2>2. Vanish(w, h) /\ UNCHANGED <<marker, dlq, sent, ends>>
    <3>1. host[w] \in Host
      BY DEF SInv, Types
    <3> QED
      BY <1>1, <3>1 DEF NextStep, Host
  <2>3. \A j \in Jobs : h.writes[j] = 0
    BY DEF Started
  <2> HIDE DEF h
  <2> QED
    BY <2>1, <2>2, <2>3, VanishSInv
<1>2. CASE host[w].step # Len(Steps)
  <2> DEFINE h == [host[w] EXCEPT !.step = host[w].step + 1, !.code = c]
  <2>0. host \in [Workers -> Host] /\ host[w] \in Host
    BY DEF SInv, Types
  <2>1. h \in Host
    BY <1>0, <2>0, HostTypes
  <2>2. /\ host' = [host EXCEPT ![w] = h]
        /\ UNCHANGED <<job, marker, proc, dlq, sent, slips, ends, lost>>
    BY <1>2 DEF NextStep
  <2>3. h.writes = host[w].writes /\ h.step = host[w].step + 1 /\ h.code = c
    BY <2>0 DEF Host
  <2>4. Quiet(w)'
    <3>1. host'[w] = h /\ proc'[w] = proc[w]
      BY <2>0, <2>2
    <3>2. Quiet(w)
      BY DEF SInv
    <3>3. CASE c = 0 /\ host[w].step = 1
      <4>1. proc[w].pc = "wait"
        BY <3>3, ThreeSteps DEF StepOver
      <4> QED
        BY <2>3, <3>1, <3>3, <4>1 DEF Quiet
    <3>4. CASE c = 0 /\ host[w].step = 2
      <4>1. \A j \in Jobs : host[w].writes[j] = 0
        BY <3>4, ThreeSteps DEF StepOver
      <4> QED
        BY <2>3, <3>1, <3>2, <3>4, <4>1 DEF Quiet
    <3>5. CASE c # 0
      <4>1. h.step # 4
        BY <1>0, <1>2, <2>3, ThreeSteps
      <4> QED
        BY <2>3, <3>1, <3>5, <4>1 DEF Quiet
    <3> QED
      BY <1>0, <1>2, <3>3, <3>4, <3>5, ThreeSteps
  <2> HIDE DEF h
  <2> QED
    BY <2>1, <2>2, <2>3, <2>4, HostSInv
<1> QED
  BY <1>1, <1>2

\* The steps of a process.
LEMMA ProcessSInv ==
  ASSUME SInv, NEW w \in Workers,
         \/ \E fatal \in BOOLEAN : Signal(w, fatal)
         \/ StepDone(w) \/ StepFails(w) \/ Crash(w) \/ Restart(w)
  PROVE  SInv'
<1>0. host \in [Workers -> Host] /\ host[w] \in Host
  BY DEF SInv, Types
<1>1. ASSUME NEW fatal \in BOOLEAN, Signal(w, fatal) PROVE SInv'
  <2> DEFINE c == IF fatal THEN 1 ELSE 0
             h == [host[w] EXCEPT !.step = 1, !.code = c]
  <2>1. 1 \in 0..4 /\ c \in {0, 1}
    OBVIOUS
  <2>2. /\ host' = [host EXCEPT ![w] = h]
        /\ UNCHANGED <<job, marker, proc, dlq, sent, slips, ends, lost>>
    BY <1>0, <1>1 DEF Signal
  <2> HIDE DEF c
  <2>3. h \in Host /\ h.writes = host[w].writes /\ h.step = 1
    BY <1>0, <2>1, HostTypes DEF Host
  <2>4. Quiet(w)'
    BY <1>0, <2>2, <2>3 DEF Quiet
  <2> HIDE DEF h
  <2> QED
    BY <2>2, <2>3, <2>4, HostSInv
<1>2. CASE StepDone(w)
  BY <1>0, <1>2, NextStepSInv DEF StepDone, Host
<1>3. CASE StepFails(w)
  BY <1>3, NextStepSInv DEF StepFails
<1>4. CASE Crash(w)
  <2> DEFINE h == [Started EXCEPT !.step = Len(Steps) + 1, !.code = 1]
  <2>1. Len(Steps) + 1 \in 0..4 /\ 1 \in {0, 1}
    BY ThreeSteps
  <2>2. h \in Host
    BY <2>1, FreshTypes, HostTypes
  <2>3. \A j \in Jobs : h.writes[j] = 0
    BY DEF Started
  <2>4. Vanish(w, h) /\ UNCHANGED <<marker, dlq, sent, ends>>
    BY <1>4 DEF Crash, Die
  <2> HIDE DEF h
  <2> QED
    BY <2>2, <2>3, <2>4, VanishSInv
<1>5. CASE Restart(w)
  <2>1. host[w].step = 4
    BY <1>0, <1>5, ThreeSteps DEF Restart, Running, Host
  <2>2. \A j \in Jobs : host[w].writes[j] = 0
    BY <2>1 DEF SInv, Quiet
  <2>3. host[w].writes = Started.writes
    BY <1>0, <2>2 DEF Host, Started
  <2>4. /\ host' = [host EXCEPT ![w] = Started]
        /\ UNCHANGED <<job, marker, proc, dlq, sent, slips, ends, lost>>
    BY <1>5 DEF Restart
  <2>5. Quiet(w)'
    BY <1>0, <2>4, FreshTypes DEF Quiet
  <2> QED
    BY <2>3, <2>4, <2>5, FreshTypes, HostSInv
<1> QED
  BY <1>1, <1>2, <1>3, <1>4, <1>5

\* Every step of the specification.
LEMMA NextSInv == SInv /\ [Next]_vars => SInv'
<1> SUFFICES ASSUME SInv, [Next]_vars PROVE SInv'
  OBVIOUS
<1>1. ASSUME NEW j \in Jobs, Add(j) \/ Forget(j) \/ LoseLock(j) \/ Stalled(j)
      PROVE  SInv'
  BY <1>1, QueueSInv
<1>2. ASSUME NEW w \in Workers, NEW j \in Jobs, Fetch(w, j) PROVE SInv'
  BY <1>2, FetchSInv
<1>3. ASSUME NEW w \in Workers, JobStep(w) \/ WriteStep(w) PROVE SInv'
  BY <1>3, ProcessorSInv, CompletedSInv, FailedSInv, OnFailedSInv, WriteSInv
     DEF JobStep, WriteStep
<1>4. ASSUME NEW w \in Workers,
             \/ \E fatal \in BOOLEAN : Signal(w, fatal)
             \/ StepDone(w) \/ StepFails(w) \/ Crash(w) \/ Restart(w)
      PROVE  SInv'
  BY <1>4, ProcessSInv
<1>5. CASE UNCHANGED vars
  BY <1>5 DEF vars, SInv, Types, Working, IsFinalFailure, LockHeld, Quiet, Settled, Owes
<1> QED
  BY <1>1, <1>2, <1>3, <1>4, <1>5 DEF Next

\* For every number of processes, jobs and faults: the final failures of a job in
\* a process are the dead letters it wrote, owes or lost (isFinalFailure of the
\* failed event agrees with what BullMQ decided in moveToFailed, and
\* pendingWrites is waited for).
THEOREM LedgerBalances == Spec => []DeadLetterLedger
<1>1. SInv => DeadLetterLedger
  BY DEF SInv, Settled, DeadLetterLedger
<1> QED
  BY <1>1, InitSInv, NextSInv, PTL DEF Spec

\* For every number of processes, jobs and faults: a shutdown that exits with
\* code 0 cut off no job and no dead-letter write (run-workers closes the workers
\* first, then awaits pendingWrites, and remembers every step that threw).
THEOREM CleanExits == Spec => CleanExitIsQuiet
<1> DEFINE Exit(w) ==
      Running(w) /\ host'[w].step = Len(Steps) + 1 /\ host'[w].code = 0
        => /\ proc[w].pc = "wait"
           /\ \A j \in Jobs : host[w].writes[j] = 0
<1>1. ASSUME SInv, [Next]_vars, NEW w \in Workers PROVE Exit(w)
  <2> SUFFICES ASSUME Running(w), host'[w].step = 4, host'[w].code = 0
               PROVE  /\ proc[w].pc = "wait"
                      /\ \A j \in Jobs : host[w].writes[j] = 0
    BY ThreeSteps
  <2>0. host \in [Workers -> Host] /\ host[w] \in Host /\ host[w].step # 4 /\ Quiet(w)
    BY <1>1, ThreeSteps DEF SInv, Types, Host, Running
  <2>1. ASSUME NEW v \in Workers, NEW c \in {0, 1}, NextStep(v, c),
               c = 0 => host[v].code = 0
        PROVE  host[w].step = 3 /\ host[w].code = 0
    <3>1. CASE v = w /\ host[w].step = 3
      <4>1. host'[w] = [Started EXCEPT !.step = 4, !.code = c]
        BY <2>0, <2>1, <3>1, ThreeSteps DEF NextStep, Vanish, Host
      <4>2. c = 0
        BY <4>1 DEF Started
      <4> QED
        BY <2>1, <3>1, <4>2
    <3>2. CASE v = w /\ host[w].step # 3
      <4>1. host'[w] = [host[w] EXCEPT !.step = host[w].step + 1, !.code = c]
        BY <2>0, <2>1, <3>2, ThreeSteps DEF NextStep
      <4> QED
        BY <2>0, <3>2, <4>1 DEF Host
    <3>3. CASE v # w
      BY <2>0, <2>1, <3>3 DEF NextStep, Vanish
    <3> QED
      BY <3>1, <3>2, <3>3
  <2>2. host[w].step = 3 /\ host[w].code = 0
    <3>1. ASSUME NEW j \in Jobs, Add(j) \/ Forget(j) \/ LoseLock(j) \/ Stalled(j)
          PROVE  FALSE
      BY <2>0, <3>1 DEF Add, Forget, LoseLock, Stalled
    <3>2. ASSUME NEW v \in Workers, NEW j \in Jobs, Fetch(v, j) PROVE FALSE
      BY <2>0, <3>2 DEF Fetch
    <3>3. ASSUME NEW v \in Workers,
                 \/ CheckMarker(v) \/ Dispatch(v) \/ SetMarker(v)
                 \/ MoveToCompleted(v) \/ MoveToFailed(v)
          PROVE  FALSE
      BY <2>0, <3>3 DEF CheckMarker, Dispatch, SetMarker, MoveToCompleted, MoveToFailed
    <3>4. ASSUME NEW v \in Workers, OnFailed(v) \/ WriteStep(v)
                                      \/ \E fatal \in BOOLEAN : Signal(v, fatal)
          PROVE  FALSE
      <4>1. CASE OnFailed(v)
        <5>1. \/ host' = host
              \/ host' = [host EXCEPT ![v].writes[proc[v].job] =
                            host[v].writes[proc[v].job] + 1]
          BY <4>1 DEF OnFailed
        <5> QED
          BY <2>0, <5>1 DEF Host
      <4>2. ASSUME NEW j \in Jobs, DeadLetterWritten(v, j) PROVE FALSE
        BY <2>0, <4>2 DEF DeadLetterWritten, Host
      <4>3. ASSUME NEW fatal \in BOOLEAN, Signal(v, fatal) PROVE FALSE
        <5>1. host'[w] = host[w] \/ host'[w].step = 1
          BY <2>0, <4>3 DEF Signal, Host
        <5> QED
          BY <2>0, <5>1
      <4> QED
        BY <3>4, <4>1, <4>2, <4>3 DEF WriteStep
    <3>5. ASSUME NEW v \in Workers, StepDone(v) \/ StepFails(v)
          PROVE  host[w].step = 3 /\ host[w].code = 0
      <4>1. host[v].code \in {0, 1}
        BY <2>0 DEF Host
      <4> QED
        BY <2>1, <3>5, <4>1 DEF StepDone, StepFails
    <3>6. ASSUME NEW v \in Workers, Crash(v) PROVE FALSE
      <4>1. host'[w] = host[w]
              \/ host'[w] = [Started EXCEPT !.step = Len(Steps) + 1, !.code = 1]
        BY <2>0, <3>6 DEF Crash, Die, Vanish
      <4>2. host'[w] = host[w] \/ host'[w].code = 1
        BY <4>1 DEF Started
      <4> QED
        BY <2>0, <4>2
    <3>7. ASSUME NEW v \in Workers, Restart(v) PROVE FALSE
      BY <2>0, <3>7, FreshTypes DEF Restart
    <3>8. CASE UNCHANGED vars
      BY <2>0, <3>8 DEF vars
    <3> QED
      BY <1>1, <3>1, <3>2, <3>3, <3>4, <3>5, <3>6, <3>7, <3>8 DEF Next, JobStep
  <2> QED
    BY <2>0, <2>2 DEF Quiet
<1>2. SInv /\ [Next]_vars => [\A w \in Workers : Exit(w)]_vars
  BY <1>1
<1>3. Spec => [][\A w \in Workers : Exit(w)]_vars
  <2> HIDE DEF Exit
  <2> QED
    BY <1>2, InitSInv, NextSInv, PTL DEF Spec
<1> QED
  BY <1>3 DEF CleanExitIsQuiet

-----------------------------------------------------------------------------
(***************************************************************************)
(* How often a mail is sent.  A process that lost the lock of its job and  *)
(* does not know may send once more, which the slip of the lost lock pays  *)
(* for.  A job is open when its holder is about to send, or when whoever   *)
(* fetches it would find no marker.                                        *)
(***************************************************************************)
Zombies(j) ==
  {w \in Workers : proc[w].job = j /\ proc[w].pc \in {"check", "send"} /\ job[j].lock # w}

HolderAt(j, pc) == job[j].lock # Null /\ proc[job[j].lock].pc = pc

Open(j) == HolderAt(j, "send") \/ (j \notin marker /\ ~HolderAt(j, "mark"))

Budget(j) ==
  sent[j] + Cardinality(Zombies(j)) + (IF Open(j) THEN 1 ELSE 0) <= 1 + slips[j]

\* Cardinalities of sets of processes.
LEMMA CountProcesses ==
  ASSUME NEW S \in SUBSET Workers, NEW T \in SUBSET Workers
  PROVE  /\ Cardinality(S) \in Nat
         /\ T \subseteq S => Cardinality(T) <= Cardinality(S)
         /\ \A w \in S : T \subseteq S \ {w} => Cardinality(T) + 1 <= Cardinality(S)
         /\ \A w \in Workers : T \subseteq S \cup {w} => Cardinality(T) <= Cardinality(S) + 1
<1>1. IsFiniteSet(S) /\ IsFiniteSet(T)
  BY NullAssumption, FS_Subset
<1>2. Cardinality(S) \in Nat /\ Cardinality(T) \in Nat
  BY <1>1, FS_CardinalityType
<1>3. T \subseteq S => Cardinality(T) <= Cardinality(S)
  BY <1>1, FS_Subset
<1>4. ASSUME NEW w \in S, T \subseteq S \ {w}
      PROVE  Cardinality(T) + 1 <= Cardinality(S)
  <2>1. IsFiniteSet(S \ {w}) /\ Cardinality(S \ {w}) = Cardinality(S) - 1
    BY <1>1, FS_RemoveElement
  <2>2. Cardinality(T) <= Cardinality(S \ {w})
    BY <1>4, <2>1, FS_Subset
  <2> QED
    BY <1>2, <2>1, <2>2
<1>5. ASSUME NEW w \in Workers, T \subseteq S \cup {w}
      PROVE  Cardinality(T) <= Cardinality(S) + 1
  <2>1. /\ IsFiniteSet(S \cup {w})
        /\ Cardinality(S \cup {w}) = Cardinality(S) \/ Cardinality(S \cup {w}) = Cardinality(S) + 1
    BY <1>1, FS_AddElement
  <2>2. Cardinality(T) <= Cardinality(S \cup {w})
    BY <1>5, <2>1, FS_Subset
  <2> QED
    BY <1>2, <2>1, <2>2
<1> QED
  BY <1>2, <1>3, <1>4, <1>5

\* The numbers of the budget, before and after a step.
LEMMA BudgetNumbers ==
  ASSUME SInv, SInv', NEW j \in Jobs
  PROVE  /\ sent[j] \in Nat /\ slips[j] \in Nat /\ sent'[j] \in Nat /\ slips'[j] \in Nat
         /\ Zombies(j) \in SUBSET Workers /\ Zombies(j)' \in SUBSET Workers
         /\ Cardinality(Zombies(j)) \in Nat /\ Cardinality(Zombies(j)') \in Nat
<1>1. /\ sent[j] \in Nat /\ slips[j] \in Nat /\ sent'[j] \in Nat /\ slips'[j] \in Nat
  BY DEF SInv, Types
<1>2. Zombies(j) \in SUBSET Workers /\ Zombies(j)' \in SUBSET Workers
  BY DEF Zombies
<1> QED
  BY <1>1, <1>2, CountProcesses

\* Nothing was sent, nobody is about to send who was not before.
LEMMA BudgetKept ==
  ASSUME SInv, SInv', NEW j \in Jobs, Budget(j),
         Zombies(j)' \subseteq Zombies(j), Open(j)' => Open(j),
         sent'[j] = sent[j], slips'[j] = slips[j]
  PROVE  Budget(j)'
<1>1. Cardinality(Zombies(j)') <= Cardinality(Zombies(j))
  BY BudgetNumbers, CountProcesses
<1> QED
  BY <1>1, BudgetNumbers DEF Budget

\* A slip pays for one more mail, one more stale process, or an open job.
LEMMA BudgetSlipped ==
  ASSUME SInv, SInv', NEW j \in Jobs, Budget(j), slips'[j] = slips[j] + 1,
         \/ /\ sent'[j] = sent[j] + 1
            /\ Zombies(j)' \subseteq Zombies(j) /\ (Open(j)' => Open(j))
         \/ /\ sent'[j] = sent[j] /\ (Open(j)' => Open(j))
            /\ \E w \in Workers : Zombies(j)' \subseteq Zombies(j) \cup {w}
         \/ /\ sent'[j] = sent[j] /\ Zombies(j)' \subseteq Zombies(j)
  PROVE  Budget(j)'
<1>1. Zombies(j)' \subseteq Zombies(j) =>
        Cardinality(Zombies(j)') <= Cardinality(Zombies(j))
  BY BudgetNumbers, CountProcesses
<1>2. (\E w \in Workers : Zombies(j)' \subseteq Zombies(j) \cup {w}) =>
        Cardinality(Zombies(j)') <= Cardinality(Zombies(j)) + 1
  BY BudgetNumbers, CountProcesses
<1> QED
  BY <1>1, <1>2, BudgetNumbers DEF Budget

\* A mail without a slip: a stale process used up its turn, or the job is closed.
LEMMA BudgetSpent ==
  ASSUME SInv, SInv', NEW j \in Jobs, Budget(j),
         sent'[j] = sent[j] + 1, slips'[j] = slips[j],
         \/ /\ \E w \in Zombies(j) : Zombies(j)' \subseteq Zombies(j) \ {w}
            /\ Open(j)' => Open(j)
         \/ Zombies(j)' \subseteq Zombies(j) /\ Open(j) /\ ~Open(j)'
  PROVE  Budget(j)'
<1>1. Zombies(j)' \subseteq Zombies(j) =>
        Cardinality(Zombies(j)') <= Cardinality(Zombies(j))
  BY BudgetNumbers, CountProcesses
<1>2. (\E w \in Zombies(j) : Zombies(j)' \subseteq Zombies(j) \ {w}) =>
        Cardinality(Zombies(j)') + 1 <= Cardinality(Zombies(j))
  BY BudgetNumbers, CountProcesses
<1> QED
  BY <1>1, <1>2, BudgetNumbers DEF Budget

\* A step of a process on another job.
LEMMA OtherJob ==
  ASSUME SInv, SInv', NEW w \in Workers, NEW k \in Jobs, Budget(k),
         proc[w].job # k \/ proc[w].pc = "wait",
         proc'[w].job # k \/ proc'[w].pc = "wait",
         \A v \in Workers \ {w} : proc'[v] = proc[v],
         job'[k] = job[k], k \in marker' <=> k \in marker,
         sent'[k] = sent[k], slips'[k] = slips[k]
  PROVE  Budget(k)'
<1>1. job[k].lock \in Workers \cup {Null} /\ job[k].lock # w
  BY NullAssumption DEF SInv, Types, Job, LockHeld
<1>2. Zombies(k)' \subseteq Zombies(k)
  BY DEF Zombies
<1>3. Open(k)' => Open(k)
  BY <1>1 DEF Open, HolderAt
<1> QED
  BY <1>2, <1>3, BudgetKept

-----------------------------------------------------------------------------
\* BullMQ's steps.
LEMMA QueueBudget ==
  ASSUME SInv, SInv', NEW j \in Jobs, NEW k \in Jobs, Budget(k),
         Add(j) \/ Forget(j) \/ LoseLock(j) \/ Stalled(j)
  PROVE  Budget(k)'
<1>0. job \in [Jobs -> Job] /\ job[j] \in Job /\ slips \in [Jobs -> Nat]
  BY DEF SInv, Types
<1>1. UNCHANGED <<proc, marker, sent>>
  BY DEF Add, Forget, LoseLock, Stalled
<1>2. CASE Add(j) \/ Forget(j) \/ Stalled(j)
  <2>1. job'[k].lock = job[k].lock
    <3>1. job[j].lock = Null
      BY <1>2 DEF Add, Forget, Stalled, SInv, LockHeld
    <3>2. job'[j].lock = Null /\ \A i \in Jobs \ {j} : job'[i] = job[i]
      BY <1>0, <1>2, <3>1, FreshTypes DEF Add, Forget, Stalled, NoJob, Job
    <3> QED
      BY <3>1, <3>2
  <2>2. Zombies(k)' \subseteq Zombies(k) /\ (Open(k)' => Open(k))
    BY <1>1, <2>1 DEF Zombies, Open, HolderAt
  <2>3. slips' = slips
    BY <1>2 DEF Add, Forget, Stalled
  <2> QED
    BY <1>1, <2>2, <2>3, BudgetKept
<1>3. CASE LoseLock(j)
  <2>1. job'[j].lock = Null /\ \A i \in Jobs \ {j} : job'[i] = job[i]
    BY <1>0, <1>3 DEF LoseLock, Job
  <2>2. slips'[j] = slips[j] + 1 /\ \A i \in Jobs \ {j} : slips'[i] = slips[i]
    BY <1>0, <1>3 DEF LoseLock, Slip
  <2>3. CASE k # j
    <3>1. Zombies(k)' \subseteq Zombies(k) /\ (Open(k)' => Open(k))
      BY <1>1, <2>1, <2>3 DEF Zombies, Open, HolderAt
    <3> QED
      BY <1>1, <2>2, <2>3, <3>1, BudgetKept
  <2>4. CASE k = j
    <3> DEFINE w == job[j].lock
    <3>1. w \in Workers
      BY <1>0, <1>3 DEF LoseLock, Job
    <3>2. CASE proc[w].pc = "mark"
      <4>1. Zombies(j)' \subseteq Zombies(j)
        BY <1>1, <2>1, <3>2 DEF Zombies
      <4> QED
        BY <1>1, <2>2, <2>4, <4>1, BudgetSlipped
    <3>3. CASE proc[w].pc # "mark"
      <4>1. Zombies(j)' \subseteq Zombies(j) \cup {w}
        BY <1>1, <2>1 DEF Zombies
      <4>2. Open(j)' => Open(j)
        BY <1>1, <2>1, <3>3 DEF Open, HolderAt
      <4> QED
        BY <1>1, <2>2, <2>4, <3>1, <4>1, <4>2, BudgetSlipped
    <3> QED
      BY <3>2, <3>3
  <2> QED
    BY <2>3, <2>4
<1> QED
  BY <1>2, <1>3

LEMMA FetchBudget ==
  ASSUME SInv, SInv', NEW w \in Workers, NEW j \in Jobs, NEW k \in Jobs, Budget(k),
         Fetch(w, j)
  PROVE  Budget(k)'
<1>0. /\ job \in [Jobs -> Job] /\ job[j] \in Job /\ proc[w].pc = "wait"
      /\ UNCHANGED <<marker, sent, slips>>
  BY DEF SInv, Types, Fetch
<1>1. /\ proc'[w].pc \in {"check", "failed"} /\ proc'[w].job = j
      /\ \A v \in Workers \ {w} : proc'[v] = proc[v]
  BY DEF SInv, Types, Fetch, Waiting
<1>2. /\ job'[j].lock = w /\ job[j].lock = Null
      /\ \A i \in Jobs \ {j} : job'[i] = job[i]
  BY <1>0 DEF Fetch, Job, SInv, LockHeld
<1>3. CASE k # j
  BY <1>0, <1>1, <1>2, <1>3, OtherJob
<1>4. CASE k = j
  <2>1. Zombies(j)' \subseteq Zombies(j)
    BY <1>1, <1>2, NullAssumption DEF Zombies
  <2>2. Open(j)' => Open(j)
    BY <1>0, <1>1, <1>2 DEF Open, HolderAt
  <2> QED
    BY <1>0, <1>4, <2>1, <2>2, BudgetKept
<1> QED
  BY <1>3, <1>4

\* What Goto and Throw do to a slot.
LEMMA SlotMoves ==
  ASSUME SInv, NEW w \in Workers
  PROVE  /\ \A l \in {"send", "mark", "done"} : Goto(w, l) =>
              /\ proc'[w].pc = l /\ proc'[w].job = proc[w].job
              /\ \A v \in Workers \ {w} : proc'[v] = proc[v]
         /\ \A u : Throw(w, u) =>
              /\ proc'[w].pc = "failed" /\ proc'[w].job = proc[w].job
              /\ \A v \in Workers \ {w} : proc'[v] = proc[v]
<1>0. proc \in [Workers -> Slot] /\ proc[w] \in Slot
  BY DEF SInv, Types
<1>1. ASSUME NEW l \in {"send", "mark", "done"}, Goto(w, l)
      PROVE  /\ proc'[w].pc = l /\ proc'[w].job = proc[w].job
             /\ \A v \in Workers \ {w} : proc'[v] = proc[v]
  BY <1>0, <1>1 DEF Goto, Slot
<1>2. ASSUME NEW u, Throw(w, u)
      PROVE  /\ proc'[w].pc = "failed" /\ proc'[w].job = proc[w].job
             /\ \A v \in Workers \ {w} : proc'[v] = proc[v]
  BY <1>0, <1>2 DEF Throw, Slot
<1> QED
  BY <1>1, <1>2

\* The marker decides: a job without it was open already.
LEMMA CheckBudget ==
  ASSUME SInv, SInv', NEW w \in Workers, NEW k \in Jobs, Budget(k), CheckMarker(w)
  PROVE  Budget(k)'
<1> DEFINE j == proc[w].job
<1>1. UNCHANGED <<job, marker, sent, slips>> /\ proc[w].pc = "check" /\ j \in Jobs
  BY DEF CheckMarker, SInv, Working
<1>2. /\ proc'[w].job = j /\ \A v \in Workers \ {w} : proc'[v] = proc[v]
      /\ \/ proc'[w].pc = "done" /\ j \in marker
         \/ proc'[w].pc = "send" /\ j \notin marker
         \/ proc'[w].pc = "failed"
  BY SlotMoves DEF CheckMarker
<1>3. CASE k # j
  BY <1>1, <1>2, <1>3, OtherJob
<1>4. CASE k = j
  <2>1. Zombies(k)' \subseteq Zombies(k)
    BY <1>1, <1>2, <1>4 DEF Zombies
  <2>2. job[j].lock \in Workers \cup {Null}
    BY <1>1, <1>4 DEF SInv, Types, Job
  <2>3. Open(k)' => Open(k)
    <3>1. CASE job[j].lock = w
      BY <1>1, <1>2, <1>4, <3>1 DEF Open, HolderAt
    <3>2. CASE job[j].lock # w
      BY <1>1, <1>2, <1>4, <2>2, <3>2 DEF Open, HolderAt
    <3> QED
      BY <1>4, <3>1, <3>2
  <2> QED
    BY <1>1, <1>4, <2>1, <2>3, BudgetKept
<1> QED
  BY <1>3, <1>4

\* A mail is sent by the holder, which closes the job, or by a stale process.
LEMMA DispatchBudget ==
  ASSUME SInv, SInv', NEW w \in Workers, NEW k \in Jobs, Budget(k), Dispatch(w)
  PROVE  Budget(k)'
<1> DEFINE j == proc[w].job
<1>0. sent \in [Jobs -> Nat] /\ slips \in [Jobs -> Nat]
  BY DEF SInv, Types
<1>1. UNCHANGED <<job, marker>> /\ proc[w].pc = "send" /\ j \in Jobs
  BY DEF Dispatch, SInv, Working
<1>2. /\ proc'[w].job = j /\ \A v \in Workers \ {w} : proc'[v] = proc[v]
      /\ \A i \in Jobs \ {j} : sent'[i] = sent[i] /\ slips'[i] = slips[i]
      /\ \/ /\ sent'[j] = sent[j] + 1 /\ slips'[j] = slips[j] /\ proc'[w].pc = "mark"
         \/ /\ sent'[j] = sent[j] + 1 /\ slips'[j] = slips[j] + 1
            /\ proc'[w].pc = "failed"
         \/ /\ sent'[j] = sent[j] /\ slips'[j] = slips[j] /\ proc'[w].pc = "failed"
  <2>1. PICK o \in DispatchOutcomes :
          /\ IF o \in {"accepted", "unanswered"}
               THEN sent' = [sent EXCEPT ![j] = sent[j] + 1] ELSE UNCHANGED sent
          /\ IF o = "accepted" THEN Goto(w, "mark") ELSE Throw(w, Unrecoverable(o))
          /\ IF o = "unanswered" THEN Slip(j) /\ Fault ELSE UNCHANGED <<slips, faults>>
    BY DEF Dispatch
  <2>2. CASE o = "accepted"
    BY <1>0, <1>1, <2>1, <2>2, SlotMoves
  <2>3. CASE o = "unanswered"
    <3>1. /\ sent' = [sent EXCEPT ![j] = sent[j] + 1]
          /\ slips' = [slips EXCEPT ![j] = slips[j] + 1] /\ Throw(w, Unrecoverable(o))
      BY <2>1, <2>3 DEF Slip
    <3> QED
      BY <1>0, <1>1, <3>1, SlotMoves
  <2>4. CASE o \notin {"accepted", "unanswered"}
    BY <2>1, <2>4, SlotMoves
  <2> QED
    BY <2>2, <2>3, <2>4
<1>3. CASE k # j
  BY <1>1, <1>2, <1>3, OtherJob
<1>4. CASE k = j
  <2>1. Zombies(k)' \subseteq Zombies(k) \ {w}
    BY <1>1, <1>2, <1>4 DEF Zombies
  <2>2. job[j].lock \in Workers \cup {Null}
    BY <1>1, <1>4 DEF SInv, Types, Job
  <2>3. CASE job[j].lock = w
    <3>1. Open(k) /\ (proc'[w].pc = "mark" => ~Open(k)')
      BY <1>1, <1>4, <2>3, NullAssumption DEF Open, HolderAt
    <3> QED
      BY <1>2, <1>4, <2>1, <3>1, BudgetSpent, BudgetSlipped, BudgetKept
  <2>4. CASE job[j].lock # w
    <3>1. Open(k)' => Open(k)
      BY <1>1, <1>2, <1>4, <2>2, <2>4 DEF Open, HolderAt
    <3>2. w \in Zombies(k)
      BY <1>1, <1>4, <2>4 DEF Zombies
    <3> QED
      BY <1>2, <1>4, <2>1, <3>1, <3>2, BudgetSpent, BudgetSlipped, BudgetKept
  <2> QED
    BY <1>4, <2>3, <2>4
<1> QED
  BY <1>3, <1>4

\* The marker is set, or the slip pays for the job being open again.
LEMMA MarkBudget ==
  ASSUME SInv, SInv', NEW w \in Workers, NEW k \in Jobs, Budget(k), SetMarker(w)
  PROVE  Budget(k)'
<1> DEFINE j == proc[w].job
<1>0. slips \in [Jobs -> Nat]
  BY DEF SInv, Types
<1>1. UNCHANGED <<job, sent>> /\ proc[w].pc = "mark" /\ j \in Jobs
  BY DEF SetMarker, SInv, Working
<1>2. /\ proc'[w].job = j /\ \A v \in Workers \ {w} : proc'[v] = proc[v]
      /\ \A i \in Jobs \ {j} : slips'[i] = slips[i] /\ (i \in marker' <=> i \in marker)
      /\ \/ j \in marker' /\ proc'[w].pc = "done" /\ slips'[j] = slips[j]
         \/ proc'[w].pc = "failed" /\ slips'[j] = slips[j] + 1
  <2>1. CASE marker' = marker \cup {j} /\ Goto(w, "done") /\ slips' = slips
    BY <2>1, SlotMoves
  <2>2. CASE Throw(w, FALSE) /\ Slip(j) /\ marker' = marker
    BY <1>0, <1>1, <2>2, SlotMoves DEF Slip
  <2> QED
    BY <2>1, <2>2 DEF SetMarker
<1>3. CASE k # j
  BY <1>1, <1>2, <1>3, OtherJob
<1>4. CASE k = j
  <2>1. Zombies(k)' \subseteq Zombies(k)
    BY <1>1, <1>2, <1>4 DEF Zombies
  <2>2. CASE slips'[j] = slips[j] + 1
    BY <1>1, <1>4, <2>1, <2>2, BudgetSlipped
  <2>3. CASE j \in marker' /\ proc'[w].pc = "done" /\ slips'[j] = slips[j]
    <3>1. job[j].lock \in Workers \cup {Null}
      BY <1>1, <1>4 DEF SInv, Types, Job
    <3>2. Open(k)' => Open(k)
      BY <1>1, <1>2, <1>4, <2>3, <3>1 DEF Open, HolderAt
    <3> QED
      BY <1>1, <1>4, <2>1, <2>3, <3>2, BudgetKept
  <2> QED
    BY <1>2, <1>4, <2>2, <2>3
<1> QED
  BY <1>3, <1>4

\* The end of an attempt sends nothing: a completed job has its marker, a failed
\* one is as open as it was.
LEMMA EndBudget ==
  ASSUME SInv, SInv', NEW w \in Workers, NEW k \in Jobs, Budget(k),
         MoveToCompleted(w) \/ MoveToFailed(w) \/ OnFailed(w)
  PROVE  Budget(k)'
<1> DEFINE j == proc[w].job
<1>0. /\ job \in [Jobs -> Job] /\ proc \in [Workers -> Slot] /\ proc[w] \in Slot
      /\ UNCHANGED <<marker, sent, slips>>
  BY DEF SInv, Types, MoveToCompleted, MoveToFailed, OnFailed
<1>1. proc[w].pc \in {"done", "failed", "event"} /\ j \in Jobs
  BY DEF MoveToCompleted, MoveToFailed, OnFailed, SInv, Working
<1>2. /\ \A v \in Workers \ {w} : proc'[v] = proc[v]
      /\ proc'[w].pc = "wait" \/ (proc'[w].pc = "event" /\ proc'[w].job = j)
  <2>1. CASE proc' = [proc EXCEPT ![w] = Waiting]
    BY <1>0, <2>1, FreshTypes
  <2>2. CASE MoveToFailed(w) /\ job[j].lock = w
    BY <1>0, <2>2 DEF MoveToFailed, Slot
  <2> QED
    BY <2>1, <2>2 DEF MoveToCompleted, MoveToFailed, OnFailed
<1>3. /\ \A i \in Jobs \ {j} : job'[i] = job[i]
      /\ \/ job'[j] = job[j] /\ job[j].lock # w
         \/ job'[j].lock = Null /\ job[j].lock = w
  <2>0. job[j] \in Job
    BY <1>0, <1>1
  <2>1. CASE MoveToCompleted(w)
    <3>1. CASE job[j].lock = w
      BY <1>0, <1>1, <2>0, <2>1, <3>1 DEF MoveToCompleted, Job
    <3>2. CASE job[j].lock # w
      BY <2>1, <3>2 DEF MoveToCompleted
    <3> QED
      BY <3>1, <3>2
  <2>2. CASE MoveToFailed(w)
    <3>1. CASE job[j].lock = w
      BY <1>0, <1>1, <2>0, <2>2, <3>1 DEF MoveToFailed, Job
    <3>2. CASE job[j].lock # w
      BY <2>2, <3>2 DEF MoveToFailed
    <3> QED
      BY <3>1, <3>2
  <2>3. CASE OnFailed(w)
    <3>1. job[j].lock # w
      BY <1>1, <2>3, NullAssumption DEF OnFailed, SInv, LockHeld
    <3> QED
      BY <2>3, <3>1 DEF OnFailed
  <2> QED
    BY <2>1, <2>2, <2>3
<1>4. CASE k # j
  BY <1>0, <1>1, <1>2, <1>3, <1>4, OtherJob
<1>5. CASE k = j
  <2>1. Zombies(k)' \subseteq Zombies(k)
    BY <1>1, <1>2, <1>3, <1>5 DEF Zombies
  <2>2. job[j].lock \in Workers \cup {Null}
    BY <1>0, <1>1, <1>5 DEF Job
  <2>3. Open(k)' => Open(k)
    BY <1>0, <1>1, <1>2, <1>3, <1>5, <2>2 DEF Open, HolderAt
  <2> QED
    BY <1>0, <1>5, <2>1, <2>3, BudgetKept
<1> QED
  BY <1>4, <1>5

\* A process that is gone: the slip of a mail sent and not marked opens its job.
LEMMA VanishBudget ==
  ASSUME SInv, SInv', NEW w \in Workers, NEW k \in Jobs, NEW h, Budget(k),
         Vanish(w, h), UNCHANGED <<marker, sent>>
  PROVE  Budget(k)'
<1>0. job[k] \in Job /\ job \in [Jobs -> Job] /\ slips \in [Jobs -> Nat]
  BY DEF SInv, Types
<1>1. proc'[w].pc = "wait" /\ \A v \in Workers \ {w} : proc'[v] = proc[v]
  BY FreshTypes DEF Vanish, SInv, Types
<1>2. \/ job'[k] = job[k] /\ job[k].lock # w
      \/ job'[k].lock = Null /\ job[k].lock = w
  BY <1>0 DEF Vanish, Job
<1>3. Zombies(k)' \subseteq Zombies(k)
  BY <1>1, <1>2 DEF Zombies
<1>4. CASE proc[w].pc = "mark" /\ proc[w].job = k
  <2>1. slips'[k] = slips[k] + 1
    BY <1>0, <1>4 DEF Vanish, Slip
  <2> QED
    BY <1>3, <2>1, BudgetSlipped
<1>5. CASE ~(proc[w].pc = "mark" /\ proc[w].job = k)
  <2>1. slips'[k] = slips[k]
    BY <1>0, <1>5 DEF Vanish, Slip
  <2>2. job[k].lock = w => proc[w].pc # "mark"
    BY <1>5, NullAssumption DEF SInv, LockHeld
  <2>3. Open(k)' => Open(k)
    BY <1>0, <1>1, <1>2, <2>2 DEF Open, HolderAt, Job
  <2> QED
    BY <1>3, <2>1, <2>3, BudgetKept
<1> QED
  BY <1>4, <1>5

\* Every step of the specification.
LEMMA NextBudget ==
  ASSUME SInv, SInv', [Next]_vars, NEW k \in Jobs, Budget(k)
  PROVE  Budget(k)'
<1>1. ASSUME UNCHANGED <<job, proc, marker, sent, slips>> PROVE Budget(k)'
  BY <1>1 DEF Budget, Zombies, Open, HolderAt
<1>2. ASSUME NEW j \in Jobs, Add(j) \/ Forget(j) \/ LoseLock(j) \/ Stalled(j)
      PROVE  Budget(k)'
  BY <1>2, QueueBudget
<1>3. ASSUME NEW w \in Workers, NEW j \in Jobs, Fetch(w, j) PROVE Budget(k)'
  BY <1>3, FetchBudget
<1>4. ASSUME NEW w \in Workers, JobStep(w) PROVE Budget(k)'
  BY <1>4, CheckBudget, DispatchBudget, MarkBudget, EndBudget DEF JobStep
<1>5. ASSUME NEW w \in Workers,
             \/ WriteStep(w) \/ Restart(w) \/ \E fatal \in BOOLEAN : Signal(w, fatal)
      PROVE  Budget(k)'
  BY <1>1, <1>5 DEF WriteStep, DeadLetterWritten, Restart, Signal
<1>6. ASSUME NEW w \in Workers, NEW c, NextStep(w, c) PROVE Budget(k)'
  <2>1. CASE host[w].step = Len(Steps)
    BY <1>6, <2>1, VanishBudget DEF NextStep
  <2>2. CASE host[w].step # Len(Steps)
    BY <1>1, <1>6, <2>2 DEF NextStep
  <2> QED
    BY <2>1, <2>2
<1>7. ASSUME NEW w \in Workers, StepDone(w) \/ StepFails(w) PROVE Budget(k)'
  BY <1>6, <1>7 DEF StepDone, StepFails
<1>8. ASSUME NEW w \in Workers, Crash(w) PROVE Budget(k)'
  BY <1>8, VanishBudget DEF Crash, Die
<1>9. CASE UNCHANGED vars
  BY <1>1, <1>9 DEF vars
<1> QED
  BY <1>2, <1>3, <1>4, <1>5, <1>7, <1>8, <1>9 DEF Next

\* For every number of processes, jobs and faults: a job id is mailed once, and
\* once more for each lost lock, unanswered request, and crash or failed write
\* between the send and the marker (the check of email:sent:<jobId> before and
\* its SET after the dispatch in processEmailJob).
THEOREM MailedOncePerSlip == Spec => []SentOnce
<1> DEFINE AllBudgets == \A j \in Jobs : Budget(j)
<1>1. Init => AllBudgets
  <2> SUFFICES ASSUME Init, NEW j \in Jobs PROVE Budget(j)
    OBVIOUS
  <2>1. Zombies(j) = {}
    BY FreshTypes DEF Init, Zombies
  <2>2. Cardinality({}) = 0
    BY FS_EmptySet
  <2>3. sent[j] = 0 /\ slips[j] = 0
    BY DEF Init
  <2> QED
    BY <2>1, <2>2, <2>3 DEF Budget
<1>2. SInv /\ AllBudgets /\ [Next]_vars => AllBudgets'
  <2> SUFFICES ASSUME SInv, AllBudgets, [Next]_vars, NEW j \in Jobs PROVE Budget(j)'
    OBVIOUS
  <2>1. SInv'
    BY NextSInv
  <2> QED
    BY <2>1, NextBudget
<1>3. SInv /\ AllBudgets => SentOnce
  <2> SUFFICES ASSUME SInv, AllBudgets, NEW j \in Jobs PROVE sent[j] <= 1 + slips[j]
    BY DEF SentOnce
  <2>1. sent[j] \in Nat /\ slips[j] \in Nat /\ Zombies(j) \in SUBSET Workers
    BY DEF SInv, Types, Zombies
  <2>2. Cardinality(Zombies(j)) \in Nat
    BY <2>1, CountProcesses
  <2> QED
    BY <2>1, <2>2 DEF Budget
<1> QED
  <2> HIDE DEF AllBudgets
  <2> QED
    BY <1>1, <1>2, <1>3, InitSInv, NextSInv, PTL DEF Spec
=============================================================================
