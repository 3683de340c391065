--------------------------- MODULE OutboxRelayProofs ---------------------------
(***************************************************************************)
(* Proofs about OutboxRelay, for any number of rows, relays, attempts and  *)
(* faults.                                                                 *)
(***************************************************************************)
EXTENDS OutboxRelay, FiniteSetTheorems, TLAPS

(***************************************************************************)
(* The inductive invariant.  A relay, however stale its lease, only works  *)
(* on rows that were recorded, and it is about to mark a row PUBLISHED     *)
(* only when the job of that row is in the queue.                          *)
(***************************************************************************)
Recorded == {r \in Rows : status[r] # "none"}

PassSound(w) ==
  /\ relay[w].batch \subseteq Recorded
  /\ relay[w].late \subseteq Recorded
  /\ relay[w].pc \notin {"idle", "next"} => relay[w].row \in Recorded
  /\ relay[w].pc = "publishedMark" => relay[w].row \in jobs

IInv == TypeOK /\ OneDeadLetter /\ \A w \in Relays : PassSound(w)

-----------------------------------------------------------------------------
\* A relay between passes has the type of a pass.
LEMMA NoPassType ==
  ASSUME NEW L \in SUBSET Rows
  PROVE  /\ NoPass(L) \in Pass /\ NoPass(L).pc = "idle"
         /\ NoPass(L).batch = {} /\ NoPass(L).late = L
BY DEF NoPass, Pass

\* The initial states.
LEMMA InitIInv == Init => IInv
<1> SUFFICES ASSUME Init PROVE IInv
  OBVIOUS
<1>1. {} \in SUBSET Rows
  OBVIOUS
<1>2. TypeOK
  BY <1>1, NoPassType DEF Init, TypeOK, Statuses
<1>3. OneDeadLetter
  BY DEF Init, OneDeadLetter
<1>4. \A w \in Relays : PassSound(w)
  <2> SUFFICES ASSUME NEW w \in Relays PROVE PassSound(w)
    OBVIOUS
  <2>1. relay[w] = NoPass({})
    BY DEF Init
  <2> QED
    BY <1>1, <2>1, NoPassType DEF PassSound
<1> QED
  BY <1>2, <1>3, <1>4 DEF IInv

\* A step of one relay that leaves the statuses and dead letters alone.
LEMMA OnePassStep ==
  ASSUME IInv, NEW w \in Relays, NEW p \in Pass,
         relay' = [relay EXCEPT ![w] = p],
         UNCHANGED <<status, routable, dead>>,
         due' \in [Rows -> BOOLEAN], attempts' \in [Rows -> Nat],
         jobs \subseteq jobs', jobs' \in SUBSET Rows,
         faults' \in Nat, failures' \in [Rows -> Nat],
         p.batch \subseteq Recorded, p.late \subseteq Recorded,
         p.pc \notin {"idle", "next"} => p.row \in Recorded,
         p.pc = "publishedMark" => p.row \in jobs'
  PROVE  IInv'
<1>1. TypeOK'
  BY DEF IInv, TypeOK
<1>2. OneDeadLetter'
  BY DEF IInv, OneDeadLetter
<1>3. ASSUME NEW v \in Relays PROVE PassSound(v)'
  <2>1. Recorded' = Recorded
    BY DEF Recorded
  <2>2. CASE v = w
    <3>1. relay'[v] = p
      BY <2>2 DEF IInv, TypeOK
    <3> QED
      BY <2>1, <3>1 DEF PassSound
  <2>3. CASE v # w
    <3>1. relay'[v] = relay[v]
      BY <2>3 DEF IInv, TypeOK
    <3> QED
      BY <2>1, <3>1 DEF PassSound, IInv
  <2> QED
    BY <2>2, <2>3
<1> QED
  BY <1>1, <1>2, <1>3 DEF IInv

\* A pass ends; additions it left queued in the client stay there.
LEMMA PassEnds ==
  ASSUME IInv, NEW w \in Relays, NEW L \in SUBSET relay[w].late,
         relay' = [relay EXCEPT ![w] = NoPass(L)],
         UNCHANGED <<status, routable, dead, jobs>>,
         due' \in [Rows -> BOOLEAN], attempts' \in [Rows -> Nat],
         faults' \in Nat, failures' \in [Rows -> Nat]
  PROVE  IInv'
<1>1. L \subseteq Recorded /\ L \in SUBSET Rows
  BY DEF IInv, PassSound, Recorded
<1> DEFINE p == NoPass(L)
<1>2. p \in Pass /\ p.pc = "idle" /\ p.batch = {} /\ p.late = L
  BY <1>1, NoPassType
<1>3. jobs \subseteq jobs' /\ jobs' \in SUBSET Rows
  BY DEF IInv, TypeOK
<1>4. relay' = [relay EXCEPT ![w] = p]
  OBVIOUS
<1> HIDE DEF p
<1> QED
  BY <1>1, <1>2, <1>3, <1>4, OnePassStep

\* A row was marked and the pass goes on to the next one.
LEMMA MarkStep ==
  ASSUME IInv, NEW w \in Relays, UNCHANGED jobs, TypeOK', OneDeadLetter',
         relay' = [relay EXCEPT ![w].pc = "next", ![w].row = Null],
         Recorded \subseteq Recorded'
  PROVE  IInv'
<1>1. ASSUME NEW v \in Relays PROVE PassSound(v)'
  <2>1. CASE v = w
    <3>1. /\ relay'[v].pc = "next" /\ relay'[v].batch = relay[v].batch
          /\ relay'[v].late = relay[v].late
      BY <2>1 DEF IInv, TypeOK, Pass
    <3>2. relay[v].batch \subseteq Recorded' /\ relay[v].late \subseteq Recorded'
      BY DEF IInv, PassSound
    <3> QED
      BY <3>1, <3>2 DEF PassSound
  <2>2. CASE v # w
    <3>1. relay'[v] = relay[v]
      BY <2>2 DEF IInv, TypeOK
    <3>2. PassSound(v) /\ jobs' = jobs
      BY DEF IInv
    <3> QED
      BY <3>1, <3>2 DEF PassSound
  <2> QED
    BY <2>1, <2>2
<1> QED
  BY <1>1 DEF IInv

\* A step that changes no relay: rows only leave "none" or become terminal.
LEMMA OutsideStep ==
  ASSUME IInv, UNCHANGED <<relay, jobs>>, TypeOK', OneDeadLetter',
         Recorded \subseteq Recorded'
  PROVE  IInv'
<1>1. ASSUME NEW v \in Relays PROVE PassSound(v)'
  BY DEF IInv, PassSound
<1> QED
  BY <1>1 DEF IInv

\* Claiming rows, taking the next one and publishing it.
LEMMA PublishingIInv ==
  ASSUME IInv, NEW w \in Relays,
         ClaimBatch(w) \/ NextRow(w) \/ PublishRow(w)
  PROVE  IInv'
<1>1. /\ relay[w] \in Pass
      /\ relay[w].batch \subseteq Recorded /\ relay[w].late \subseteq Recorded
      /\ relay[w].late \in SUBSET Rows
      /\ due \in [Rows -> BOOLEAN] /\ attempts \in [Rows -> Nat]
      /\ jobs \in SUBSET Rows /\ faults \in Nat /\ failures \in [Rows -> Nat]
  BY DEF IInv, TypeOK, PassSound, Pass
<1>2. CASE ClaimBatch(w)
  <2>1. PICK S \in SUBSET Claimable :
          /\ due' = [r \in Rows |-> due[r] /\ r \notin S]
          /\ relay' = [relay EXCEPT ![w].pc = "next", ![w].batch = S,
                 ![w].seen = [r \in Rows |-> IF r \in S THEN attempts[r] ELSE 0]]
    BY <1>2 DEF ClaimBatch
  <2> DEFINE sn == [r \in Rows |-> IF r \in S THEN attempts[r] ELSE 0]
             p == [relay[w] EXCEPT !.pc = "next", !.batch = S, !.seen = sn]
  <2>2. S \subseteq Recorded /\ S \in SUBSET Rows
    BY DEF Claimable, Recorded
  <2>3. sn \in [Rows -> Nat] /\ due' \in [Rows -> BOOLEAN]
    BY <1>1, <2>1
  <2>4. relay' = [relay EXCEPT ![w] = p]
    BY <2>1
  <2> HIDE DEF sn
  <2>5. /\ p \in Pass /\ p.batch = S /\ p.late = relay[w].late /\ p.pc = "next"
    BY <1>1, <2>2, <2>3 DEF Pass
  <2> HIDE DEF p
  <2>6. UNCHANGED <<status, routable, dead, attempts, jobs, faults, failures>>
    BY <1>2 DEF ClaimBatch
  <2> QED
    BY <1>1, <2>2, <2>3, <2>4, <2>5, <2>6, OnePassStep
<1>3. CASE NextRow(w)
  <2>1. UNCHANGED <<status, routable, dead, due, attempts, jobs, faults, failures>>
    BY <1>3 DEF NextRow, table
  <2>2. CASE relay' = [relay EXCEPT ![w] = NoPass(relay[w].late)]
    BY <1>1, <2>1, <2>2, PassEnds
  <2>3. ASSUME NEW r \in relay[w].batch,
               relay' = [relay EXCEPT ![w].row = r, ![w].batch = relay[w].batch \ {r},
                           ![w].pc = IF routable[r] THEN "publish" ELSE "fail"]
        PROVE  IInv'
    <3> DEFINE l == IF routable[r] THEN "publish" ELSE "fail"
               p == [relay[w] EXCEPT !.row = r, !.batch = relay[w].batch \ {r}, !.pc = l]
    <3>1. relay' = [relay EXCEPT ![w] = p]
      BY <2>3
    <3>2. r \in Recorded /\ r \in Rows /\ l \in {"publish", "fail"}
      BY <1>1 DEF Recorded
    <3> HIDE DEF l
    <3>3. /\ p \in Pass /\ p.batch = relay[w].batch \ {r} /\ p.late = relay[w].late
          /\ p.row = r /\ p.pc # "publishedMark"
      BY <1>1, <3>2 DEF Pass
    <3> HIDE DEF p
    <3> QED
      BY <1>1, <2>1, <3>1, <3>2, <3>3, OnePassStep
  <2> QED
    BY <1>3, <2>2, <2>3 DEF NextRow
<1>4. CASE PublishRow(w)
  <2> DEFINE r == relay[w].row
             f == [failures EXCEPT ![r] = CountTo(failures[r])]
  <2>1. r \in Recorded /\ r \in Rows
    BY <1>4 DEF PublishRow, IInv, PassSound, Recorded
  <2>2. UNCHANGED <<status, routable, dead, due, attempts, faults>>
    BY <1>4 DEF PublishRow, table
  <2>3. f \in [Rows -> Nat]
    BY <1>1, <2>1 DEF CountTo
  <2>4. CASE /\ jobs' = jobs \cup {r} /\ failures' = failures
             /\ relay' = [relay EXCEPT ![w].pc = "publishedMark"]
    <3> DEFINE p == [relay[w] EXCEPT !.pc = "publishedMark"]
    <3>1. relay' = [relay EXCEPT ![w] = p]
      BY <2>4
    <3>2. /\ p \in Pass /\ p.batch = relay[w].batch /\ p.late = relay[w].late
          /\ p.row = r
      BY <1>1 DEF Pass
    <3> HIDE DEF p, r, f
    <3> QED
      BY <1>1, <2>1, <2>2, <2>4, <3>1, <3>2, OnePassStep
  <2>5. CASE /\ jobs' = jobs \/ jobs' = jobs \cup {r}
             /\ failures' = f
             /\ relay' = [relay EXCEPT ![w].pc = "error"]
    <3> DEFINE p == [relay[w] EXCEPT !.pc = "error"]
    <3>1. relay' = [relay EXCEPT ![w] = p]
      BY <2>5
    <3>2. /\ p \in Pass /\ p.batch = relay[w].batch /\ p.late = relay[w].late
          /\ p.row = r /\ p.pc = "error"
      BY <1>1 DEF Pass
    <3> HIDE DEF p, r, f
    <3>3. jobs \subseteq jobs' /\ jobs' \in SUBSET Rows
      BY <1>1, <2>1, <2>5
    <3> QED
      BY <1>1, <2>1, <2>2, <2>3, <2>5, <3>1, <3>2, <3>3, OnePassStep
  <2>6. CASE /\ jobs' = jobs
             /\ failures' = f
             /\ relay' = [relay EXCEPT ![w].pc = "error",
                                       ![w].late = relay[w].late \cup {r}]
    <3> DEFINE p == [relay[w] EXCEPT !.pc = "error", !.late = relay[w].late \cup {r}]
    <3>1. relay' = [relay EXCEPT ![w] = p]
      BY <2>6
    <3>2. /\ p \in Pass /\ p.batch = relay[w].batch /\ p.late = relay[w].late \cup {r}
          /\ p.row = r /\ p.pc = "error"
      BY <1>1, <2>1 DEF Pass
    <3>3. p.late \subseteq Recorded /\ p.batch \subseteq Recorded /\ p.row \in Recorded
      BY <1>1, <2>1, <3>2
    <3> HIDE DEF p, r, f
    <3> QED
      BY <1>1, <2>2, <2>3, <2>6, <3>1, <3>2, <3>3, OnePassStep
  <2> QED
    BY <1>4, <2>4, <2>5, <2>6 DEF PublishRow
<1> QED
  BY <1>2, <1>3, <1>4

\* Handling an error, a failed pass, a crash and a late addition.
LEMMA ErrorIInv ==
  ASSUME IInv, NEW w \in Relays,
         \/ HandleError(w) \/ PassFails(w) \/ Crash(w)
         \/ \E r \in Rows : LateAdd(w, r)
  PROVE  IInv'
<1>1. /\ relay[w] \in Pass
      /\ relay[w].batch \subseteq Recorded /\ relay[w].late \subseteq Recorded
      /\ relay[w].late \in SUBSET Rows
      /\ due \in [Rows -> BOOLEAN] /\ attempts \in [Rows -> Nat]
      /\ jobs \in SUBSET Rows /\ faults \in Nat /\ failures \in [Rows -> Nat]
  BY DEF IInv, TypeOK, PassSound, Pass
<1>2. CASE HandleError(w)
  <2> DEFINE r == relay[w].row
  <2>1. r \in Recorded /\ r \in Rows
    BY <1>2 DEF HandleError, IInv, PassSound, Recorded
  <2>2. UNCHANGED <<status, routable, dead, jobs, faults, failures>>
    BY <1>2 DEF HandleError
  <2>3. CASE relay' = [relay EXCEPT ![w].pc = "fail"] /\ UNCHANGED <<attempts, due>>
    <3> DEFINE p == [relay[w] EXCEPT !.pc = "fail"]
    <3>1. relay' = [relay EXCEPT ![w] = p]
      BY <2>3
    <3>2. /\ p \in Pass /\ p.batch = relay[w].batch /\ p.late = relay[w].late
          /\ p.row = r /\ p.pc = "fail"
      BY <1>1 DEF Pass
    <3> HIDE DEF p, r
    <3> QED
      BY <1>1, <2>1, <2>2, <2>3, <3>1, <3>2, OnePassStep
  <2>4. CASE /\ attempts' = [attempts EXCEPT ![r] = attempts[r] + 1]
             /\ due' = [due EXCEPT ![r] = FALSE]
             /\ relay' = [relay EXCEPT ![w] = NoPass(relay[w].late)]
    <3>1. attempts' \in [Rows -> Nat] /\ due' \in [Rows -> BOOLEAN]
      BY <1>1, <2>1, <2>4
    <3> QED
      BY <1>1, <2>2, <2>4, <3>1, PassEnds
  <2>5. CASE /\ relay' = [relay EXCEPT ![w].pc = "next", ![w].row = Null]
             /\ UNCHANGED <<attempts, due>>
    <3> DEFINE p == [relay[w] EXCEPT !.pc = "next", !.row = Null]
    <3>1. relay' = [relay EXCEPT ![w] = p] /\ p \in Pass
      BY <1>1, <2>5 DEF Pass
    <3> HIDE DEF p
    <3>2. TypeOK'
      BY <2>2, <2>5, <3>1 DEF IInv, TypeOK
    <3>3. OneDeadLetter' /\ Recorded' = Recorded
      BY <2>2 DEF IInv, OneDeadLetter, Recorded
    <3> QED
      BY <2>2, <2>5, <3>2, <3>3, MarkStep
  <2> QED
    BY <1>2, <2>3, <2>4, <2>5 DEF HandleError
<1>3. CASE PassFails(w)
  <2>1. /\ UNCHANGED <<status, routable, dead, jobs, due, attempts, failures>>
        /\ relay' = [relay EXCEPT ![w] = NoPass(relay[w].late)] /\ faults' = faults + 1
    BY <1>3 DEF PassFails, table
  <2>2. /\ due' \in [Rows -> BOOLEAN] /\ attempts' \in [Rows -> Nat]
        /\ faults' \in Nat /\ failures' \in [Rows -> Nat]
    BY <1>1, <2>1
  <2> QED
    BY <2>1, <2>2, PassEnds
<1>4. CASE Crash(w)
  <2>1. /\ UNCHANGED <<status, routable, dead, jobs, due, attempts, failures>>
        /\ relay' = [relay EXCEPT ![w] = NoPass({})] /\ faults' = faults + 1
    BY <1>4 DEF Crash, table
  <2>2. /\ due' \in [Rows -> BOOLEAN] /\ attempts' \in [Rows -> Nat]
        /\ faults' \in Nat /\ failures' \in [Rows -> Nat]
    BY <1>1, <2>1
  <2>3. {} \in SUBSET relay[w].late
    OBVIOUS
  <2> QED
    BY <2>1, <2>2, <2>3, PassEnds
<1>5. ASSUME NEW r \in Rows, LateAdd(w, r) PROVE IInv'
  <2> DEFINE p == [relay[w] EXCEPT !.late = relay[w].late \ {r}]
  <2>1. relay' = [relay EXCEPT ![w] = p]
    BY <1>5 DEF LateAdd
  <2>2. /\ UNCHANGED <<status, routable, dead, due, attempts, faults, failures>>
        /\ jobs' = jobs \cup {r}
    BY <1>5 DEF LateAdd, table
  <2>3. /\ p \in Pass /\ p.batch = relay[w].batch /\ p.late = relay[w].late \ {r}
        /\ p.row = relay[w].row /\ p.pc = relay[w].pc
    BY <1>1 DEF Pass
  <2>4. /\ p.pc \notin {"idle", "next"} => p.row \in Recorded
        /\ p.pc = "publishedMark" => p.row \in jobs'
    BY <2>2, <2>3 DEF IInv, PassSound
  <2> HIDE DEF p
  <2> QED
    BY <1>1, <2>1, <2>2, <2>3, <2>4, OnePassStep
<1> QED
  BY <1>2, <1>3, <1>4, <1>5

\* Marking a row published or failed: only a PENDING row changes, and it has no
\* dead letter yet.
LEMMA MarkIInv ==
  ASSUME IInv, NEW w \in Relays, MarkPublished(w) \/ MarkFailed(w)
  PROVE  IInv'
<1> DEFINE r == relay[w].row
<1>1. r \in Rows /\ relay[w] \in Pass /\ relay[w].seen[r] \in Nat
  BY DEF MarkPublished, MarkFailed, IInv, PassSound, Recorded, TypeOK, Pass
<1>2. relay' = [relay EXCEPT ![w].pc = "next", ![w].row = Null]
  BY DEF MarkPublished, MarkFailed
<1>3. relay' \in [Relays -> Pass]
  BY <1>1, <1>2 DEF IInv, TypeOK, Pass
<1>4. CASE MarkPublished(w)
  <2>1. UNCHANGED <<due, attempts, routable, jobs, dead, faults, failures>>
    BY <1>4 DEF MarkPublished
  <2>2. status' = IF status[r] = "PENDING" THEN [status EXCEPT ![r] = "PUBLISHED"] ELSE status
    BY <1>4 DEF MarkPublished
  <2> HIDE DEF r
  <2>3. TypeOK'
    BY <1>1, <1>3, <2>1, <2>2 DEF IInv, TypeOK, Statuses
  <2>4. OneDeadLetter' /\ Recorded \subseteq Recorded'
    BY <1>1, <2>1, <2>2 DEF IInv, TypeOK, OneDeadLetter, Recorded
  <2> QED
    BY <1>2, <2>1, <2>3, <2>4, MarkStep
<1>5. CASE MarkFailed(w)
  <2>1. UNCHANGED <<due, routable, jobs, faults, failures>>
    BY <1>5 DEF MarkFailed
  <2>2. \/ /\ status[r] = "PENDING" /\ status' = [status EXCEPT ![r] = "FAILED"]
           /\ attempts' = [attempts EXCEPT ![r] = relay[w].seen[r] + 1]
           /\ dead' = [dead EXCEPT ![r] = dead[r] + 1]
        \/ UNCHANGED <<status, attempts, dead>>
    BY <1>5 DEF MarkFailed
  <2> HIDE DEF r
  <2>3. TypeOK'
    BY <1>1, <1>3, <2>1, <2>2 DEF IInv, TypeOK, Statuses
  <2>4. OneDeadLetter' /\ Recorded \subseteq Recorded'
    BY <1>1, <2>1, <2>2 DEF IInv, TypeOK, OneDeadLetter, Recorded
  <2> QED
    BY <1>2, <2>1, <2>3, <2>4, MarkStep
<1> QED
  BY <1>4, <1>5

\* Steps outside the relays: recording, time and retention.
LEMMA OutsideIInv ==
  ASSUME IInv,
         \/ \E r \in Rows : Enqueue(r) \/ BecomeDue(r) \/ Prune(r)
  PROVE  IInv'
<1>1. ASSUME NEW r \in Rows, Enqueue(r) PROVE IInv'
  <2>1. TypeOK' /\ UNCHANGED <<relay, jobs>>
    BY <1>1 DEF Enqueue, IInv, TypeOK, Statuses
  <2>2. OneDeadLetter' /\ Recorded \subseteq Recorded'
    BY <1>1 DEF Enqueue, IInv, TypeOK, OneDeadLetter, Recorded
  <2> QED
    BY <2>1, <2>2, OutsideStep
<1>2. ASSUME NEW r \in Rows, BecomeDue(r) PROVE IInv'
  <2>1. TypeOK' /\ UNCHANGED <<relay, jobs>>
    BY <1>2 DEF BecomeDue, IInv, TypeOK
  <2>2. OneDeadLetter' /\ Recorded \subseteq Recorded'
    BY <1>2 DEF BecomeDue, IInv, OneDeadLetter, Recorded
  <2> QED
    BY <2>1, <2>2, OutsideStep
<1>3. ASSUME NEW r \in Rows, Prune(r) PROVE IInv'
  <2>1. TypeOK' /\ UNCHANGED <<relay, jobs>>
    BY <1>3 DEF Prune, IInv, TypeOK, Statuses
  <2>2. OneDeadLetter' /\ Recorded \subseteq Recorded'
    BY <1>3 DEF Prune, IInv, TypeOK, OneDeadLetter, Recorded
  <2> QED
    BY <2>1, <2>2, OutsideStep
<1> QED
  BY <1>1, <1>2, <1>3

\* The invariant is inductive.
LEMMA NextIInv == IInv /\ [Next]_vars => IInv'
<1> SUFFICES ASSUME IInv, [Next]_vars PROVE IInv'
  OBVIOUS
<1>1. CASE UNCHANGED vars
  BY <1>1 DEF IInv, TypeOK, OneDeadLetter, PassSound, Recorded, vars
<1>2. CASE Next
  BY <1>2, PublishingIInv, ErrorIInv, MarkIInv, OutsideIInv DEF Next, RelayStep
<1> QED
  BY <1>1, <1>2

-----------------------------------------------------------------------------
\* Type correctness of the outbox, its relays and the dead letters.
THEOREM TypeCorrect == Spec => []TypeOK
<1>1. IInv => TypeOK
  BY DEF IInv
<1> QED
  BY <1>1, InitIInv, NextIInv, PTL DEF Spec

\* However leases expire and relays overlap, a row is FAILED exactly when its
\* one dead letter was written.
THEOREM DeadLetterOnce == Spec => []OneDeadLetter
<1>1. IInv => OneDeadLetter
  BY DEF IInv
<1> QED
  BY <1>1, InitIInv, NextIInv, PTL DEF Spec

-----------------------------------------------------------------------------
(***************************************************************************)
(* Giving up.  Relays decide from the attempts they read when they claimed *)
(* the row.  Every failed publish was either added to the attempts column  *)
(* or belongs to a relay that has yet to handle it.                        *)
(***************************************************************************)
Erring(r) == {w \in Relays : relay[w].pc = "error" /\ relay[w].row = r}

Budgeted(r) ==
  /\ status[r] = "none" => attempts[r] = 0
  /\ status[r] = "PENDING" => \/ failures[r] >= MaxAttempts
                              \/ failures[r] >= attempts[r] + Cardinality(Erring(r))
  /\ status[r] \in {"none", "PENDING"} => \A w \in Relays : relay[w].seen[r] <= attempts[r]
  /\ status[r] = "PENDING" /\ routable[r] =>
       \A w \in Relays : relay[w].pc = "fail" /\ relay[w].row = r => failures[r] >= MaxAttempts

Budget == (\A r \in Rows : Budgeted(r)) /\ NotGivenUpEarly

LEMMA ErringFinite ==
  \A r \in Rows : /\ IsFiniteSet(Erring(r)) /\ Cardinality(Erring(r)) \in Nat
                  /\ IsFiniteSet(Erring(r)') /\ Cardinality(Erring(r)') \in Nat
<1>1. \A r \in Rows : Erring(r) \subseteq Relays /\ Erring(r)' \subseteq Relays
  BY DEF Erring
<1> QED
  BY <1>1, OutboxAssumption, FS_Subset, FS_CardinalityType

\* The numbers a row is judged by.
LEMMA RowNumbers ==
  ASSUME IInv, NEW r \in Rows
  PROVE  /\ attempts[r] \in Nat /\ failures[r] \in Nat /\ dead[r] \in Nat
         /\ \A w \in Relays : relay[w].seen[r] \in Nat
         /\ MaxAttempts \in Nat
BY OutboxAssumption DEF IInv, TypeOK, Pass

\* A step after which no more relays have a failure of r to handle, none has newly
\* decided to give r up, and r is as it was or settled.
LEMMA BudgetKept ==
  ASSUME IInv, IInv', NEW r \in Rows, Budgeted(r),
         failures[r] <= failures'[r], routable' = routable,
         status'[r] \in {"none", "PENDING"} => status'[r] = status[r] /\ attempts'[r] = attempts[r],
         \A w \in Relays :
           /\ relay'[w].pc = "error" /\ relay'[w].row = r => relay[w].pc = "error" /\ relay[w].row = r
           /\ relay'[w].pc = "fail" /\ relay'[w].row = r /\ routable[r] =>
                relay[w].pc = "fail" /\ relay[w].row = r
           /\ relay'[w].seen[r] \in {0, attempts[r], relay[w].seen[r]}
  PROVE  Budgeted(r)'
<1>1. Erring(r)' \subseteq Erring(r)
  BY DEF Erring
<1>2. Cardinality(Erring(r)') <= Cardinality(Erring(r))
  BY <1>1, ErringFinite, FS_Subset
<1>3. /\ attempts[r] \in Nat /\ failures[r] \in Nat /\ failures'[r] \in Nat /\ MaxAttempts \in Nat
      /\ \A w \in Relays : relay[w].seen[r] \in Nat
  BY RowNumbers DEF IInv, TypeOK
<1> HIDE DEF Erring
<1> QED
  BY <1>2, <1>3, ErringFinite DEF Budgeted

\* A publish of the row fails: one failure more, one relay more to handle it.
LEMMA FailureCounted ==
  ASSUME IInv, IInv', NEW w \in Relays, PublishRow(w), relay'[w].pc = "error",
         NEW r \in Rows, r = relay[w].row, Budgeted(r)
  PROVE  Budgeted(r)'
<1>2. /\ relay[w].pc = "publish" /\ relay'[w].pc = "error" /\ relay'[w].row = r
      /\ relay'[w].seen = relay[w].seen
      /\ \A v \in Relays \ {w} : relay'[v] = relay[v]
  BY DEF PublishRow, IInv, TypeOK, Pass
<1>3. /\ UNCHANGED <<status, attempts, routable>>
      /\ failures'[r] = CountTo(failures[r])
  <2>1. failures' = [failures EXCEPT ![r] = CountTo(failures[r])]
    BY <1>2 DEF PublishRow, IInv, TypeOK, Pass
  <2> QED
    BY <2>1 DEF PublishRow, table, IInv, TypeOK
<1>4. Cardinality(Erring(r)') = Cardinality(Erring(r)) + 1
  <2>1. Erring(r)' = Erring(r) \cup {w} /\ w \notin Erring(r)
    BY <1>2 DEF Erring
  <2> QED
    BY <2>1, ErringFinite, FS_AddElement
<1>5. \A v \in Relays : relay'[v].seen = relay[v].seen
                        /\ (relay'[v].pc = "fail" => relay'[v] = relay[v])
  BY <1>2
<1> QED
  BY <1>3, <1>4, <1>5, RowNumbers, ErringFinite DEF Budgeted, CountTo

\* An error is handled: the failure goes into the attempts column, or it was the
\* last one allowed.
LEMMA ErrorCounted ==
  ASSUME IInv, IInv', NEW w \in Relays, HandleError(w),
         NEW r \in Rows, r = relay[w].row, Budgeted(r)
  PROVE  Budgeted(r)'
<1>2. relay[w].pc = "error" /\ UNCHANGED <<status, routable, failures>>
  BY DEF HandleError
<1>3. relay'[w].pc # "error" /\ \A v \in Relays \ {w} : relay'[v] = relay[v]
  BY DEF HandleError, IInv, TypeOK, Pass, NoPass
<1>4. Cardinality(Erring(r)') = Cardinality(Erring(r)) - 1
  <2>1. Erring(r)' = Erring(r) \ {w} /\ w \in Erring(r)
    BY <1>2, <1>3 DEF Erring
  <2> QED
    BY <2>1, ErringFinite, FS_RemoveElement
<1>5. CASE Exhausted(relay[w].seen[r])
  <2>1. /\ relay'[w].pc = "fail" /\ relay'[w].seen = relay[w].seen /\ attempts' = attempts
    BY <1>5 DEF HandleError, IInv, TypeOK, Pass
  <2>2. \A v \in Relays : relay'[v].seen = relay[v].seen
    BY <1>3, <2>1
  <2>3. status[r] = "PENDING" => failures[r] >= MaxAttempts
    BY <1>4, <1>5, RowNumbers, ErringFinite DEF Budgeted, Exhausted
  <2> QED
    BY <1>2, <1>3, <2>1, <2>2, <2>3, RowNumbers DEF Budgeted
<1>6. CASE ~Exhausted(relay[w].seen[r]) /\ status[r] = "PENDING"
  <2>1. /\ attempts'[r] = attempts[r] + 1 /\ relay'[w] = NoPass(relay[w].late)
    BY <1>6 DEF HandleError, IInv, TypeOK
  <2>2. relay'[w].seen[r] = 0 /\ relay'[w].pc = "idle"
    BY <2>1 DEF NoPass
  <2> QED
    BY <1>2, <1>3, <1>4, <1>6, <2>1, <2>2, RowNumbers, ErringFinite DEF Budgeted
<1>7. CASE ~Exhausted(relay[w].seen[r]) /\ status[r] # "PENDING"
  <2>1. status[r] # "none"
    BY <1>2 DEF IInv, PassSound, Recorded
  <2> QED
    BY <1>2, <1>7, <2>1 DEF Budgeted
<1> QED
  BY <1>5, <1>6, <1>7

\* Every step keeps the budget of every row.
LEMMA BudgetedStep ==
  ASSUME IInv, IInv', Next, NEW r \in Rows, Budgeted(r)
  PROVE  Budgeted(r)'
<1>1. ASSUME NEW q \in Rows, Enqueue(q)  PROVE Budgeted(r)'
  <2>1. CASE q = r
    <3>1. /\ status[r] = "none" /\ status'[r] = "PENDING"
          /\ UNCHANGED <<attempts, relay, routable, failures>>
      BY <1>1, <2>1 DEF Enqueue, IInv, TypeOK
    <3>2. Erring(r)' = {} /\ \A w \in Relays : relay[w].pc = "fail" => relay[w].row # r
      BY <3>1 DEF Erring, PassSound, Recorded, IInv
    <3> QED
      BY <3>1, <3>2, FS_EmptySet, RowNumbers DEF Budgeted
  <2>2. CASE q # r
    BY <1>1, <2>2, BudgetKept, RowNumbers DEF Enqueue, TypeOK, IInv
  <2> QED
    BY <2>1, <2>2
<1>2. ASSUME NEW q \in Rows, BecomeDue(q) \/ Prune(q)  PROVE Budgeted(r)'
  <2>1. /\ UNCHANGED <<attempts, routable, relay, failures>>
        /\ status'[r] \in {"none", "PENDING"} => status'[r] = status[r]
    BY <1>2 DEF BecomeDue, Prune, IInv, TypeOK
  <2> QED
    BY <2>1, BudgetKept, RowNumbers
<1>3. ASSUME NEW w \in Relays, ClaimBatch(w)  PROVE Budgeted(r)'
  <2>1. PICK S \in SUBSET Claimable :
          relay' = [relay EXCEPT ![w].pc = "next", ![w].batch = S,
                      ![w].seen = [q \in Rows |-> IF q \in S THEN attempts[q] ELSE 0]]
    BY <1>3 DEF ClaimBatch
  <2>2. \A v \in Relays : /\ v # w => relay'[v] = relay[v]
                          /\ v = w => relay'[v].pc = "next"
                                      /\ relay'[v].seen[r] \in {0, attempts[r]}
    BY <2>1 DEF IInv, TypeOK, Pass
  <2>3. UNCHANGED <<status, attempts, routable, failures>>
    BY <1>3 DEF ClaimBatch
  <2> QED
    BY <2>2, <2>3, BudgetKept, RowNumbers
<1>4. ASSUME NEW w \in Relays, NextRow(w)  PROVE Budgeted(r)'
  <2>1. \A v \in Relays \ {w} : relay'[v] = relay[v]
    BY <1>4 DEF NextRow, IInv, TypeOK
  <2>2. UNCHANGED <<status, attempts, routable, failures>>
    BY <1>4 DEF NextRow, table
  <2>3. CASE relay' = [relay EXCEPT ![w] = NoPass(relay[w].late)]
    <3>1. relay'[w].pc = "idle" /\ relay'[w].seen[r] = 0
      BY <2>3 DEF NoPass, IInv, TypeOK
    <3> QED
      BY <2>1, <2>2, <3>1, BudgetKept, RowNumbers
  <2>4. ASSUME NEW q \in relay[w].batch,
               relay' = [relay EXCEPT ![w].row = q, ![w].batch = relay[w].batch \ {q},
                           ![w].pc = IF routable[q] THEN "publish" ELSE "fail"]
        PROVE  Budgeted(r)'
    <3>1. /\ relay'[w].row = q /\ relay'[w].seen = relay[w].seen
          /\ relay'[w].pc = IF routable[q] THEN "publish" ELSE "fail"
      BY <2>4 DEF IInv, TypeOK, Pass
    <3>2. relay'[w].pc # "error" /\ (relay'[w].pc = "fail" => ~routable[q])
      BY <3>1
    <3> QED
      BY <2>1, <2>2, <3>1, <3>2, BudgetKept, RowNumbers
  <2> QED
    BY <1>4, <2>3, <2>4 DEF NextRow
<1>5. ASSUME NEW w \in Relays, PublishRow(w)  PROVE Budgeted(r)'
  <2>1. /\ \A v \in Relays \ {w} : relay'[v] = relay[v]
        /\ relay'[w].seen = relay[w].seen /\ relay'[w].row = relay[w].row
        /\ relay'[w].pc \in {"error", "publishedMark"}
    BY <1>5 DEF PublishRow, Pass, IInv, TypeOK
  <2>2. CASE relay[w].row = r /\ relay'[w].pc = "error"
    BY <1>5, <2>2, FailureCounted
  <2>3. CASE ~(relay[w].row = r /\ relay'[w].pc = "error")
    <3>1. failures[r] <= failures'[r]
      BY <1>5, RowNumbers DEF PublishRow, CountTo, IInv, TypeOK
    <3> QED
      BY <1>5, <2>1, <2>3, <3>1, BudgetKept DEF PublishRow, table
  <2> QED
    BY <2>2, <2>3
<1>6. ASSUME NEW w \in Relays, HandleError(w)  PROVE Budgeted(r)'
  <2>1. CASE relay[w].row = r
    BY <1>6, <2>1, ErrorCounted
  <2>2. CASE relay[w].row # r
    <3>1. /\ \A v \in Relays \ {w} : relay'[v] = relay[v]
          /\ relay'[w].row # r \/ relay'[w].pc \in {"idle", "next"}
      BY <1>6, <2>2 DEF HandleError, Pass, NoPass, IInv, TypeOK
    <3>2. UNCHANGED <<status, routable, failures>> /\ attempts'[r] = attempts[r]
      BY <1>6, <2>2 DEF HandleError, IInv, TypeOK
    <3>3. relay'[w].seen[r] \in {0, relay[w].seen[r]}
      <4>1. \/ relay'[w] = NoPass(relay[w].late)
            \/ relay'[w].seen = relay[w].seen
        BY <1>6 DEF HandleError, Pass, IInv, TypeOK
      <4> QED
        BY <4>1 DEF NoPass
    <3> QED
      BY <3>1, <3>2, <3>3, BudgetKept, RowNumbers
  <2> QED
    BY <2>1, <2>2
<1>7. ASSUME NEW w \in Relays, MarkPublished(w) \/ MarkFailed(w)  PROVE Budgeted(r)'
  <2>1. /\ \A v \in Relays \ {w} : relay'[v] = relay[v]
        /\ relay'[w].seen = relay[w].seen /\ relay'[w].pc = "next"
    BY <1>7 DEF MarkPublished, MarkFailed, Pass, IInv, TypeOK
  <2>2. /\ UNCHANGED <<routable, failures>>
        /\ status'[r] \in {"none", "PENDING"} => status'[r] = status[r] /\ attempts'[r] = attempts[r]
    BY <1>7 DEF MarkPublished, MarkFailed, IInv, TypeOK
  <2> QED
    BY <2>1, <2>2, BudgetKept, RowNumbers
<1>8. ASSUME NEW w \in Relays, PassFails(w) \/ Crash(w) \/ \E q \in Rows : LateAdd(w, q)
      PROVE  Budgeted(r)'
  <2>1. /\ \A v \in Relays \ {w} : relay'[v] = relay[v]
        /\ \/ relay'[w].pc = "idle" /\ relay'[w].seen[r] = 0
           \/ /\ relay'[w].pc = relay[w].pc /\ relay'[w].row = relay[w].row
              /\ relay'[w].seen = relay[w].seen
    BY <1>8 DEF PassFails, Crash, LateAdd, NoPass, Pass, IInv, TypeOK
  <2>2. UNCHANGED <<status, attempts, routable, failures>>
    BY <1>8 DEF PassFails, Crash, LateAdd, table
  <2> QED
    BY <2>1, <2>2, BudgetKept, RowNumbers
<1> QED
  BY <1>1, <1>2, <1>3, <1>4, <1>5, <1>6, <1>7, <1>8 DEF Next, RelayStep

\* Dead letters are only written by markFailed, for a row whose budget is used up.
LEMMA GivenUpStep ==
  ASSUME IInv, IInv', Next, Budget
  PROVE  NotGivenUpEarly'
<1> SUFFICES ASSUME NEW r \in Rows, dead'[r] > 0, routable'[r]
             PROVE  failures'[r] >= MaxAttempts
  BY DEF NotGivenUpEarly
<1>1. routable' = routable
  BY DEF Next, RelayStep, Enqueue, BecomeDue, Prune, ClaimBatch, NextRow, PublishRow, MarkPublished,
         HandleError, MarkFailed, PassFails, Crash, LateAdd, table
<1>2. failures[r] <= failures'[r]
  <2>1. CASE failures' = failures
    BY <2>1, RowNumbers
  <2>2. ASSUME NEW w \in Relays, PublishRow(w)  PROVE failures[r] <= failures'[r]
    BY <2>2, RowNumbers DEF PublishRow, CountTo, IInv, TypeOK
  <2> QED
    BY <2>1, <2>2 DEF Next, RelayStep, Enqueue, BecomeDue, Prune, ClaimBatch, NextRow,
         MarkPublished, HandleError, MarkFailed, PassFails, Crash, LateAdd, table
<1>3. failures[r] \in Nat /\ failures'[r] \in Nat /\ MaxAttempts \in Nat
  BY RowNumbers DEF IInv, TypeOK
<1>4. CASE dead[r] > 0
  BY <1>1, <1>2, <1>3, <1>4 DEF Budget, NotGivenUpEarly
<1>5. CASE ~(dead[r] > 0)
  <2>1. dead' # dead
    BY <1>5
  <2>2. PICK w \in Relays : MarkFailed(w)
    BY <2>1 DEF Next, RelayStep, Enqueue, BecomeDue, Prune, ClaimBatch, NextRow, PublishRow,
         MarkPublished, HandleError, PassFails, Crash, LateAdd, table
  <2>3. relay[w].pc = "fail" /\ relay[w].row = r /\ status[r] = "PENDING"
    BY <1>5, <2>2 DEF MarkFailed, IInv, TypeOK
  <2> QED
    BY <1>1, <1>2, <1>3, <2>3 DEF Budget, Budgeted
<1> QED
  BY <1>4, <1>5

\* For any number of rows, relays and attempts: a publishable row is dead-lettered
\* only after MaxAttempts failed publishes, although a relay compares the attempts
\* it read at claimBatch and others may have counted since.
THEOREM GivenUpInTime == Spec => []NotGivenUpEarly
<1>1. Init => Budget
  <2> SUFFICES ASSUME Init  PROVE Budget
    OBVIOUS
  <2>1. \A r \in Rows : Budgeted(r)
    BY DEF Init, Budgeted, NoPass
  <2> QED
    BY <2>1 DEF Init, Budget, NotGivenUpEarly
<1>2. IInv /\ IInv' /\ Budget /\ [Next]_vars => Budget'
  <2> SUFFICES ASSUME IInv, IInv', Budget, [Next]_vars  PROVE Budget'
    OBVIOUS
  <2>1. CASE UNCHANGED vars
    BY <2>1 DEF vars, Budget, Budgeted, Erring, NotGivenUpEarly
  <2>2. CASE Next
    BY <2>2, BudgetedStep, GivenUpStep DEF Budget
  <2> QED
    BY <2>1, <2>2
<1>3. Budget => NotGivenUpEarly
  BY DEF Budget
<1> QED
  BY <1>1, <1>2, <1>3, InitIInv, NextIInv, PTL DEF Spec

-----------------------------------------------------------------------------
(***************************************************************************)
(* The outbox implements OutboxIntent.                                     *)
(***************************************************************************)
\* A step that leaves the statuses and the dead letters alone changes no fate.
LEMMA SameFates ==
  ASSUME UNCHANGED <<status, dead>>
  PROVE  Fates' = Fates
BY DEF Fates, FateOf

\* A step that changes one row changes at most the fate of that row.
LEMMA OneFate ==
  ASSUME NEW r \in Rows,
         \A q \in Rows \ {r} : status'[q] = status[q] /\ dead'[q] = dead[q]
  PROVE  Fates' = [Fates EXCEPT ![r] = FateOf(r)'] /\ Fates[r] = FateOf(r)
<1>1. \A q \in Rows \ {r} : FateOf(q)' = FateOf(q)
  BY DEF FateOf
<1> QED
  BY <1>1 DEF Fates

\* Steps that neither queue a job nor settle a row are stuttering steps.
LEMMA StutterStep ==
  ASSUME UNCHANGED <<status, dead, jobs>>
  PROVE  UNCHANGED Intent!ivars
BY SameFates DEF Intent!ivars

\* A job is added: only rows that were recorded have one added.
LEMMA AddStep ==
  ASSUME IInv, NEW r \in Recorded, UNCHANGED <<status, dead>>, jobs' = jobs \cup {r}
  PROVE  Intent!IntentNext
<1>1. Fates' = Fates /\ r \in Rows /\ Fates[r] # "none"
  BY SameFates DEF Fates, FateOf, Recorded, IInv, TypeOK
<1> QED
  BY <1>1 DEF Intent!IntentNext, Intent!AddJob

\* A row is recorded: with a business change or a redrive.
LEMMA RecordStep ==
  ASSUME IInv, NEW r \in Rows, status[r] = "none",
         status' = [status EXCEPT ![r] = "PENDING"], UNCHANGED <<dead, jobs>>
  PROVE  Intent!IntentNext
<1>1. FateOf(r) = "none" /\ FateOf(r)' = "open"
  BY DEF FateOf, IInv, TypeOK
<1>2. Fates' = [Fates EXCEPT ![r] = "open"] /\ Fates[r] = "none"
  BY <1>1, OneFate DEF IInv, TypeOK
<1> QED
  BY <1>2 DEF Intent!IntentNext, Intent!Record

\* Every step of the outbox is a step of OutboxIntent or leaves it alone.
LEMMA IntentStep ==
  ASSUME IInv, [Next]_vars
  PROVE  [Intent!IntentNext]_(Intent!ivars)
<1>1. CASE UNCHANGED vars
  BY <1>1, StutterStep DEF vars
<1>2. ASSUME NEW r \in Rows, Enqueue(r) PROVE Intent!IntentNext
  BY <1>2, RecordStep DEF Enqueue
<1>3. ASSUME NEW r \in Rows, BecomeDue(r)
      PROVE  UNCHANGED Intent!ivars
  BY <1>3, StutterStep DEF BecomeDue
<1>4. ASSUME NEW r \in Rows, Prune(r) PROVE UNCHANGED Intent!ivars
  <2>1. UNCHANGED <<dead, jobs>> /\ FateOf(r)' = FateOf(r)
    BY <1>4 DEF Prune, FateOf, IInv, TypeOK, OneDeadLetter
  <2>2. Fates' = [Fates EXCEPT ![r] = Fates[r]]
    BY <1>4, <2>1, OneFate DEF Prune, IInv, TypeOK
  <2>3. Fates' = Fates
    BY <2>2 DEF Fates
  <2> QED
    BY <2>1, <2>3 DEF Intent!ivars
<1>5. ASSUME NEW w \in Relays,
             ClaimBatch(w) \/ NextRow(w) \/ HandleError(w) \/ PassFails(w) \/ Crash(w)
      PROVE  UNCHANGED Intent!ivars
  BY <1>5, StutterStep
     DEF ClaimBatch, NextRow, HandleError, PassFails, Crash, table
<1>6. ASSUME NEW w \in Relays, PublishRow(w)
      PROVE  [Intent!IntentNext]_(Intent!ivars)
  <2>1. relay[w].row \in Recorded /\ UNCHANGED <<status, dead>>
    BY <1>6 DEF PublishRow, table, IInv, PassSound
  <2>2. jobs' = jobs \/ jobs' = jobs \cup {relay[w].row}
    BY <1>6 DEF PublishRow
  <2> QED
    BY <2>1, <2>2, AddStep, StutterStep
<1>7. ASSUME NEW w \in Relays, NEW r \in Rows, LateAdd(w, r)
      PROVE  Intent!IntentNext
  <2>1. r \in Recorded /\ UNCHANGED <<status, dead>> /\ jobs' = jobs \cup {r}
    BY <1>7 DEF LateAdd, table, IInv, PassSound
  <2> QED
    BY <2>1, AddStep
<1>8. ASSUME NEW w \in Relays, MarkPublished(w)
      PROVE  [Intent!IntentNext]_(Intent!ivars)
  <2>0. PICK r \in Rows : r = relay[w].row
    BY <1>8 DEF MarkPublished, IInv, PassSound, Recorded
  <2>1. r \in jobs /\ UNCHANGED <<dead, jobs>>
    BY <1>8, <2>0 DEF MarkPublished, IInv, PassSound
  <2>2. CASE status[r] # "PENDING"
    <3>1. status' = status
      BY <1>8, <2>0, <2>2 DEF MarkPublished
    <3> QED
      BY <2>1, <3>1, StutterStep
  <2>3. CASE status[r] = "PENDING"
    <3>1. status' = [status EXCEPT ![r] = "PUBLISHED"]
      BY <1>8, <2>0, <2>3 DEF MarkPublished
    <3>2. FateOf(r) = "open" /\ FateOf(r)' = "published"
      BY <2>1, <2>3, <3>1 DEF FateOf, IInv, TypeOK, OneDeadLetter
    <3>3. Fates' = [Fates EXCEPT ![r] = "published"] /\ Fates[r] = "open"
      BY <2>1, <3>1, <3>2, OneFate DEF IInv, TypeOK
    <3> QED
      BY <2>1, <3>3 DEF Intent!IntentNext, Intent!Publish
  <2> QED
    BY <2>2, <2>3
<1>9. ASSUME NEW w \in Relays, MarkFailed(w)
      PROVE  [Intent!IntentNext]_(Intent!ivars)
  <2>0. PICK r \in Rows : r = relay[w].row
    BY <1>9 DEF MarkFailed, IInv, PassSound, Recorded
  <2>1. UNCHANGED jobs
    BY <1>9 DEF MarkFailed
  <2>2. CASE status[r] # "PENDING"
    <3>1. UNCHANGED <<status, dead>>
      BY <1>9, <2>0, <2>2 DEF MarkFailed
    <3> QED
      BY <2>1, <3>1, StutterStep
  <2>3. CASE status[r] = "PENDING"
    <3>1. /\ status' = [status EXCEPT ![r] = "FAILED"]
          /\ dead' = [dead EXCEPT ![r] = dead[r] + 1]
      BY <1>9, <2>0, <2>3 DEF MarkFailed
    <3>2. FateOf(r) = "open" /\ FateOf(r)' = "failed"
      BY <2>1, <2>3, <3>1 DEF FateOf, IInv, TypeOK, OneDeadLetter
    <3>3. Fates' = [Fates EXCEPT ![r] = "failed"] /\ Fates[r] = "open"
      BY <2>1, <3>1, <3>2, OneFate DEF IInv, TypeOK
    <3> QED
      BY <2>1, <3>3 DEF Intent!IntentNext, Intent!GiveUp
  <2> QED
    BY <2>2, <2>3
<1> QED
  BY <1>1, <1>2, <1>3, <1>4, <1>5, <1>6, <1>7, <1>8, <1>9
     DEF Next, RelayStep

\* The relays implement the abstract outbox: publishing and giving up exclude
\* each other, neither is undone, and PUBLISHED means the job is in the queue.
THEOREM IntentRefinement == Spec => ImplementsIntent
<1>1. Init => Intent!IntentInit
  BY DEF Init, Intent!IntentInit, Fates, FateOf
<1>2. IInv /\ [Next]_vars => [Intent!IntentNext]_(Intent!ivars)
  BY IntentStep
<1> QED
  BY <1>1, <1>2, InitIInv, NextIInv, PTL DEF Spec, ImplementsIntent, Intent!IntentSpec
=============================================================================
