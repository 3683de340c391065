---------------------------- MODULE SchedulesProofs ----------------------------
(***************************************************************************)
(* Proofs about Schedules: the jobs of a slot complete once, no tick is    *)
(* taken for another's while local time is UTC, and a run that completes   *)
(* leaves its tables clean.                                                *)
(***************************************************************************)
EXTENDS Schedules, SequenceTheorems, WellFoundedInduction, TLAPS

-----------------------------------------------------------------------------
(***************************************************************************)
(* Slots, and the least hour of a set.                                     *)
(***************************************************************************)
\* A slot has a length.
LEMMA SlotLengths == \A unit : SlotLength(unit) \in Nat /\ SlotLength(unit) > 0
  BY ScheduleAssumption DEF SlotLength

\* Division with remainder, as the provers need it.
LEMMA Division ==
  ASSUME NEW a \in Nat, NEW n \in Nat, n > 0
  PROVE  /\ a \div n \in 0 .. a /\ a % n \in Nat
         /\ n * (a \div n) \in Nat /\ n * (a \div n) <= a /\ a < n * (a \div n) + n
         /\ a = n * (a \div n) + (a % n)
  OBVIOUS

\* A slot's number is no larger than the hours it is made of.
LEMMA SlotKeys ==
  ASSUME NEW unit, NEW a \in Nat
  PROVE  SlotKey(unit, a) \in 0 .. a
  BY Division, SlotLengths DEF SlotKey

\* Two hours of a slot are less than its length apart.
LEMMA SameSlot ==
  ASSUME NEW unit, NEW a \in Nat, NEW b \in Nat, SlotKey(unit, a) = SlotKey(unit, b)
  PROVE  a < b + SlotLength(unit)
  BY Division, SlotLengths DEF SlotKey

\* The slot of the hourly schedule is the hour.
LEMMA HourSlot == \A a \in Nat : SlotKey("hour", a) = a
  BY DEF SlotKey, SlotLength

\* A day has one midnight.
LEMMA OneMidnight ==
  ASSUME NEW a \in Nat, NEW b \in Nat, a % Day = 0, b % Day = 0,
         SlotKey("day", a) = SlotKey("day", b)
  PROVE  a = b
  BY Division, ScheduleAssumption DEF SlotKey, SlotLength

\* Min finds the least of the hours.
LEMMA MinIsIn ==
  ASSUME NEW S \in SUBSET Nat, S # {}
  PROVE  Min(S) \in S
<1> DEFINE R == {ss \in Nat \X Nat : ss[1] < ss[2]}
<1>0. R = OpToRel(<, Nat)
  BY DEF OpToRel
<1>1. IsWellFoundedOn(R, Nat)
  BY <1>0, NatLessThanWellFounded
<1> HIDE DEF R
<1>2. PICK x \in S : \A y \in S : ~(<<y, x>> \in R)
  BY <1>1, WFMin, Zenon
<1>3. ASSUME NEW y \in S, y < x
      PROVE  <<y, x>> \in R
  BY <1>3 DEF R
<1>4. \A y \in S : ~(y < x)
  BY <1>2, <1>3, Zenon
<1>5. \A y \in S : x <= y
  BY <1>4
<1> QED
  BY <1>5 DEF Min

-----------------------------------------------------------------------------
(***************************************************************************)
(* Names, their jobs and their statements.                                 *)
(***************************************************************************)
LEMMA JobLists ==
  ASSUME NEW unit \in {"hour", "day"}
  PROVE  /\ JobsOf(unit) \in Seq(Names) /\ JobsOf(unit) # <<>>
         /\ \A i \in 1 .. Len(JobsOf(unit)) : UnitOf(JobsOf(unit)[i]) = unit
<1>1. CASE unit = "hour"
  BY <1>1 DEF JobsOf, Names, UnitOf
<1>2. CASE unit = "day"
  BY <1>2 DEF JobsOf, Names, UnitOf
<1> QED
  BY <1>1, <1>2

LEMMA StatementLists ==
  ASSUME NEW name \in Names
  PROVE  /\ Statements(name) \in Seq(TablesOf(name)) /\ Statements(name) # <<>>
         /\ TablesOf(name) \subseteq Tables
<1>1. Statements(name) # <<>> /\ \E n \in Nat : Statements(name) \in [1 .. n -> TablesOf(name)]
  <2>1. CASE name = "tokens"
    <3>1. Statements(name) = <<"refresh", "verification", "reset", "codes">>
      BY <2>1 DEF Statements
    <3> QED
      BY <3>1 DEF TablesOf
  <2>2. CASE name = "outbox"
    <3>1. Statements(name) = <<"published", "failed">>
      BY <2>2 DEF Statements
    <3> QED
      BY <3>1 DEF TablesOf
  <2>3. CASE name = "letters"
    <3>1. Statements(name) = <<"letters">>
      BY <2>3 DEF Statements
    <3> QED
      BY <3>1 DEF TablesOf
  <2> QED
    BY <2>1, <2>2, <2>3 DEF Names
<1>2. Statements(name) \in Seq(TablesOf(name))
  BY <1>1, SeqDef
<1> QED
  BY <1>1, <1>2 DEF Tables

LEMMA TailLeft ==
  ASSUME NEW S, NEW seq \in Seq(S), Len(seq) > 1
  PROVE  Tail(seq) \in Seq(S) /\ Tail(seq) # <<>>
<1>1. seq # <<>>
  OBVIOUS
<1>2. Tail(seq) \in Seq(S) /\ Len(Tail(seq)) = Len(seq) - 1
  BY <1>1, HeadTailProperties
<1>3. \A t \in Seq(S) : Len(t) = Len(seq) - 1 => t # <<>>
  BY SMT
<1> QED
  BY <1>2, <1>3, Zenon

\* No two jobs work on one table.
LEMMA TablesApart ==
  ASSUME NEW m \in Names, NEW n \in Names, m # n, NEW t \in TablesOf(m)
  PROVE  t \notin TablesOf(n)
<1>1. /\ TablesOf("tokens") = {"refresh", "verification", "reset", "codes"}
      /\ TablesOf("outbox") = {"published", "failed"}
      /\ TablesOf("letters") = {"letters"}
  BY DEF TablesOf, Statements
<1> QED
  BY <1>1 DEF Names

\* A list of one statement has no other.
LEMMA OnlyHead ==
  ASSUME NEW S, NEW seq \in Seq(S), Len(seq) # 0, Len(seq) <= 1, NEW i \in 1 .. Len(seq)
  PROVE  seq[i] = Head(seq)
  OBVIOUS

LEMMA CutoffIsHour ==
  ASSUME NEW table, NEW at \in Nat
  PROVE  Cutoff(table, at) \in Int
<1>1. Retention * Day \in Nat
  BY ScheduleAssumption
<1> QED
  BY <1>1 DEF Cutoff

LEMMA IdParts ==
  ASSUME NEW id \in Ids
  PROVE  id[1] \in Names /\ id[2] \in 0 .. MaxHour /\ id # Null
  BY DataAssumption DEF Ids

-----------------------------------------------------------------------------
(***************************************************************************)
(* The inductive invariant.                                                *)
(***************************************************************************)
TickRecord == [unit : Units, at : Nat, names : Seq(Names)]
JobRecord == [state : {"none", "wait", "active", "completed", "failed"}, made : Nat,
              tick : Nat \cup {Null}, ended : Nat \cup {Null}]
WorkerRecord == [pc : {"wait", "select", "delete"}, id : Ids \cup {Null}, at : Nat \cup {Null},
                 todo : Seq(Tables), batch : Nat, pick : Nat \cup {Null},
                 limit : BOOLEAN, shared : BOOLEAN, short : SUBSET Tables]

Types ==
  /\ now \in 0 .. MaxHour /\ offset \in {0, 1}
  /\ cron \in [Schedulers -> [fired : SUBSET Units, ticks : SUBSET TickRecord]]
  /\ job \in [Ids -> JobRecord]
  /\ worker \in [Workers -> WorkerRecord]
  /\ left \in [Tables -> SUBSET Nat]
  /\ runs \in [Ids -> Nat]

\* A tick is of the past, and has jobs of its schedule left to add.
TickSound(t) ==
  /\ t.at <= now /\ t.names # <<>>
  /\ \A i \in 1 .. Len(t.names) : UnitOf(t.names[i]) = t.unit

\* A job was added by a tick of its slot, and ended after that.
JobSound(id) ==
  /\ job[id].state # "none" =>
       /\ job[id].tick \in 0 .. now
       /\ SlotKey(UnitOf(id[1]), job[id].tick) = id[2]
  /\ job[id].state \in {"completed", "failed"} =>
       job[id].ended \in job[id].tick .. now

\* There was a tick of the slot more than two slot lengths ago.
Over(id) ==
  \E at \in 0 .. now : /\ SlotKey(UnitOf(id[1]), at) = id[2]
                       /\ now - at > 2 * SlotLength(UnitOf(id[1]))

\* A job that ran is still known, or its slot is over.
RunSound(id) ==
  id \notin late =>
    /\ runs[id] <= 1
    /\ job[id].state \in {"wait", "active"} => runs[id] = 0
    /\ runs[id] = 1 /\ job[id].state = "none" => Over(id)

\* A slot of the worker has an active job, and statements of it left.
WorkerSound(w) ==
  /\ worker[w].pc = "wait" => worker[w] = Waiting
  /\ worker[w].pc # "wait" =>
       /\ worker[w].id \in Ids /\ job[worker[w].id].state = "active" /\ worker[w].at \in Nat
       /\ worker[w].todo \in Seq(TablesOf(worker[w].id[1])) /\ worker[w].todo # <<>>

\* No two have the same job; two runs of the same name know of each other.
Apart ==
  \A v, w \in Workers :
    v # w /\ worker[v].pc # "wait" /\ worker[w].pc # "wait" =>
      /\ worker[v].id # worker[w].id
      /\ worker[v].id[1] = worker[w].id[1] => worker[v].shared /\ worker[w].shared

SchedulesInv ==
  /\ Types
  /\ \A s \in Schedulers : \A t \in cron[s].ticks : TickSound(t)
  /\ \A id \in Ids : JobSound(id) /\ RunSound(id)
  /\ \A w \in Workers : WorkerSound(w)
  /\ Apart

-----------------------------------------------------------------------------
\* A tick adds its job under an id of its own schedule.
LEMMA TickIds ==
  ASSUME Types, NEW s \in Schedulers, NEW t \in cron[s].ticks, TickSound(t)
  PROVE  /\ t \in TickRecord /\ t.at \in 0 .. now
         /\ Head(t.names) \in Names /\ UnitOf(Head(t.names)) = t.unit
         /\ SlotKey(t.unit, t.at) \in 0 .. MaxHour
         /\ <<Head(t.names), SlotKey(t.unit, t.at)>> \in Ids
<1>1. t \in TickRecord
  BY DEF Types
<1>2. t.at \in 0 .. now /\ now \in Nat /\ now <= MaxHour
  BY <1>1, ScheduleAssumption DEF Types, TickSound, TickRecord
<1>3. t.names \in Seq(Names) /\ t.names # <<>>
  BY <1>1 DEF TickSound, TickRecord
<1>4. Head(t.names) = t.names[1] /\ 1 \in 1 .. Len(t.names)
  BY <1>3
<1>5. Head(t.names) \in Names /\ UnitOf(Head(t.names)) = t.unit
  BY <1>3, <1>4 DEF TickSound
<1>6. SlotKey(t.unit, t.at) \in 0 .. t.at
  BY <1>2, SlotKeys
<1> QED
  BY <1>1, <1>2, <1>5, <1>6, ScheduleAssumption DEF Ids

\* Whoever is at work on something has a statement before it.
LEMMA AtWork ==
  ASSUME Types, NEW w \in Workers, WorkerSound(w), worker[w].pc # "wait"
  PROVE  /\ worker[w].id \in Ids /\ worker[w].id # Null /\ worker[w].id[1] \in Names
         /\ worker[w].at \in Nat /\ worker[w].batch \in Nat
         /\ worker[w].todo \in Seq(TablesOf(worker[w].id[1]))
         /\ Len(worker[w].todo) \in Nat \ {0}
         /\ Head(worker[w].todo) \in TablesOf(worker[w].id[1])
         /\ Head(worker[w].todo) \in Tables
<1>1. worker[w].id \in Ids /\ worker[w].at \in Nat
  BY DEF WorkerSound
<1>2. worker[w].todo \in Seq(TablesOf(worker[w].id[1])) /\ worker[w].todo # <<>>
  BY DEF WorkerSound
<1>3. Len(worker[w].todo) \in Nat \ {0} /\ Head(worker[w].todo) \in TablesOf(worker[w].id[1])
  BY <1>2
<1>4. worker[w].batch \in Nat
  BY DEF Types, WorkerRecord
<1> QED
  BY <1>1, <1>2, <1>3, <1>4, IdParts, StatementLists

LEMMA InitSound == Init => SchedulesInv
<1> SUFFICES ASSUME Init PROVE SchedulesInv
  OBVIOUS
<1> USE DEF Init
<1>1. Types
  <2>1. NoJob \in JobRecord
    BY DEF NoJob, JobRecord
  <2>2. Waiting \in WorkerRecord
    BY DEF Waiting, WorkerRecord
  <2>3. left \in [Tables -> SUBSET Nat]
    BY DataAssumption
  <2> QED
    BY <2>1, <2>2, <2>3, ScheduleAssumption DEF Types
<1>2. \A s \in Schedulers : \A t \in cron[s].ticks : TickSound(t)
  OBVIOUS
<1>3. \A id \in Ids : JobSound(id) /\ RunSound(id)
  BY DEF JobSound, RunSound, NoJob
<1>4. \A w \in Workers : WorkerSound(w)
  BY DEF WorkerSound, Waiting
<1>5. Apart
  BY DEF Apart, Waiting
<1> QED
  BY <1>1, <1>2, <1>3, <1>4, <1>5 DEF SchedulesInv

-----------------------------------------------------------------------------
(***************************************************************************)
(* Every step preserves it.                                                *)
(***************************************************************************)
\* What only reads the jobs and the time stays as it was.
LEMMA JobsStay ==
  ASSUME SchedulesInv, now' \in Nat, now' >= now, UNCHANGED <<job, runs, late>>
  PROVE  \A id \in Ids : (JobSound(id) /\ RunSound(id))'
<1> SUFFICES ASSUME NEW id \in Ids
             PROVE  (JobSound(id) /\ RunSound(id))'
  OBVIOUS
<1>0. now \in Nat
  BY DEF SchedulesInv, Types
<1>1. JobSound(id)'
  BY <1>0 DEF SchedulesInv, JobSound, Types, JobRecord
<1>2. Over(id) => Over(id)'
  BY <1>0, SlotLengths DEF Over
<1>3. RunSound(id)'
  BY <1>2 DEF SchedulesInv, RunSound
<1> QED
  BY <1>1, <1>3

\* The worker's slots do not read the timers.
LEMMA WorkersStay ==
  ASSUME SchedulesInv, UNCHANGED <<worker, job>>
  PROVE  (\A w \in Workers : WorkerSound(w))' /\ Apart'
<1>1. Apart'
  BY DEF SchedulesInv, Apart
<1>2. ASSUME NEW w \in Workers PROVE WorkerSound(w)'
  BY DEF SchedulesInv, WorkerSound
<1> QED
  BY <1>1, <1>2

LEMMA PassSound == ASSUME SchedulesInv, Pass PROVE SchedulesInv'
<1> USE DEF Pass
<1>0. now \in Nat /\ now' \in Nat /\ now' >= now
  BY DEF SchedulesInv, Types
<1>1. Types'
  BY ScheduleAssumption DEF SchedulesInv, Types
<1>2. (\A s \in Schedulers : \A t \in cron[s].ticks : TickSound(t))'
  <2> SUFFICES ASSUME NEW s \in Schedulers, NEW t \in cron'[s].ticks PROVE TickSound(t)'
    OBVIOUS
  <2>1. t \in cron[s].ticks /\ t \in TickRecord
    BY DEF SchedulesInv, Types
  <2> QED
    BY <2>1, <1>0 DEF SchedulesInv, TickSound, TickRecord
<1> QED
  BY <1>0, <1>1, <1>2, JobsStay, WorkersStay DEF SchedulesInv

LEMMA SetForwardSound == ASSUME SchedulesInv, SetForward PROVE SchedulesInv'
<1> USE DEF SetForward
<1>0. now \in Nat /\ now' >= now
  BY DEF SchedulesInv, Types
<1>1. Types'
  BY DEF SchedulesInv, Types
<1>2. (\A s \in Schedulers : \A t \in cron[s].ticks : TickSound(t))'
  BY DEF SchedulesInv, TickSound
<1> QED
  BY <1>0, <1>1, <1>2, JobsStay, WorkersStay DEF SchedulesInv

LEMMA TickSteps ==
  ASSUME SchedulesInv, NEW s \in Schedulers, NEW unit \in Units, Tick(s, unit)
  PROVE  SchedulesInv'
<1> USE DEF Tick
<1> DEFINE tick == [unit |-> unit, at |-> now, names |-> JobsOf(unit)]
<1>0. now \in Nat /\ now' = now
  BY DEF SchedulesInv, Types
<1>1. tick \in TickRecord /\ TickSound(tick)'
  BY <1>0, JobLists, ScheduleAssumption DEF TickRecord, TickSound
<1>2. \A q \in Schedulers : cron'[q].ticks \subseteq cron[q].ticks \cup {tick}
  BY DEF SchedulesInv, Types
<1>3. Types'
  BY <1>1 DEF SchedulesInv, Types
<1>4. (\A q \in Schedulers : \A t \in cron[q].ticks : TickSound(t))'
  BY <1>0, <1>1, <1>2 DEF SchedulesInv, TickSound
<1>5. (\A id \in Ids : JobSound(id) /\ RunSound(id))'
  BY <1>0, JobsStay
<1>6. (\A w \in Workers : WorkerSound(w))' /\ Apart'
  BY WorkersStay
<1> QED
  BY <1>3, <1>4, <1>5, <1>6 DEF SchedulesInv

LEMMA AddFailsSound ==
  ASSUME SchedulesInv, NEW s \in Schedulers, NEW t \in cron[s].ticks, AddFails(s, t)
  PROVE  SchedulesInv'
<1> USE DEF AddFails
<1>0. now \in Nat /\ now' = now
  BY DEF SchedulesInv, Types
<1>1. Types'
  BY DEF SchedulesInv, Types
<1>2. (\A q \in Schedulers : \A u \in cron[q].ticks : TickSound(u))'
  BY <1>0 DEF SchedulesInv, Types, TickSound
<1> QED
  BY <1>0, <1>1, <1>2, JobsStay, WorkersStay DEF SchedulesInv

LEMMA RestartSound ==
  ASSUME SchedulesInv, NEW s \in Schedulers, Restart(s)
  PROVE  SchedulesInv'
<1> USE DEF Restart
<1>0. now \in Nat /\ now' = now
  BY DEF SchedulesInv, Types
<1>1. Types'
  BY DEF SchedulesInv, Types
<1>2. (\A q \in Schedulers : \A u \in cron[q].ticks : TickSound(u))'
  BY <1>0 DEF SchedulesInv, Types, TickSound
<1> QED
  BY <1>0, <1>1, <1>2, JobsStay, WorkersStay DEF SchedulesInv

\* A job whose slot is over can only be added again late.
LEMMA AddSound ==
  ASSUME SchedulesInv, NEW s \in Schedulers, NEW t \in cron[s].ticks, Add(s, t)
  PROVE  SchedulesInv'
<1> USE DEF Add
<1> DEFINE id == <<Head(t.names), SlotKey(t.unit, t.at)>>
           rest == [t EXCEPT !.names = Tail(t.names)]
<1>0. now \in Nat /\ now' = now /\ UNCHANGED <<worker, left, runs>>
  BY DEF SchedulesInv, Types
<1>1. /\ t \in TickRecord /\ t.at \in 0 .. now /\ id \in Ids
      /\ UnitOf(id[1]) = t.unit /\ id[2] = SlotKey(t.unit, t.at)
  BY TickIds DEF SchedulesInv
<1>2. TickSound(t)
  BY DEF SchedulesInv
<1>3. ASSUME Tail(t.names) # <<>>
      PROVE  rest \in TickRecord /\ TickSound(rest)
  <2>1. t.names \in Seq(Names) /\ t.names # <<>>
    BY <1>1, <1>2 DEF TickSound, TickRecord
  <2>2. /\ Tail(t.names) \in Seq(Names) /\ Len(Tail(t.names)) = Len(t.names) - 1
        /\ \A i \in 1 .. Len(Tail(t.names)) : Tail(t.names)[i] = t.names[i + 1]
    BY <2>1, HeadTailProperties
  <2>3. \A i \in 1 .. Len(Tail(t.names)) : UnitOf(Tail(t.names)[i]) = t.unit
    BY <1>2, <2>1, <2>2 DEF TickSound
  <2> QED
    BY <1>1, <1>2, <1>3, <2>2, <2>3 DEF TickSound, TickRecord
<1>4. \A q \in Schedulers :
        cron'[q].ticks \subseteq cron[q].ticks \cup (IF Tail(t.names) = <<>> THEN {} ELSE {rest})
  BY DEF SchedulesInv, Types
<1>5. job' \in [Ids -> JobRecord]
  <2>0. t.at \in Nat
    BY <1>0, <1>1
  <2>1. [NoJob EXCEPT !.state = "wait", !.tick = t.at] \in JobRecord
    BY <2>0 DEF JobRecord, NoJob
  <2> QED
    BY <2>1, <1>1 DEF SchedulesInv, Types
<1>6. Types'
  <2>1. cron' \in [Schedulers -> [fired : SUBSET Units, ticks : SUBSET TickRecord]]
    BY <1>3 DEF SchedulesInv, Types
  <2> QED
    BY <2>1, <1>0, <1>5 DEF SchedulesInv, Types
<1>7. (\A q \in Schedulers : \A u \in cron[q].ticks : TickSound(u))'
  BY <1>0, <1>3, <1>4 DEF SchedulesInv, TickSound
<1>8. ASSUME NEW i \in Ids PROVE (JobSound(i) /\ RunSound(i))'
  <2>0. JobSound(i) /\ RunSound(i) /\ (Over(i))' = Over(i) /\ job[i] \in JobRecord
    BY <1>0 DEF SchedulesInv, Over, Types
  <2>1. CASE i # id \/ job[i].state # "none"
    <3>1. job'[i] = job[i] /\ late \subseteq late'
      BY <2>1, <1>5, <1>1 DEF SchedulesInv, Types
    <3>2. JobSound(i)'
      BY <3>1, <2>0, <1>0 DEF JobSound
    <3>3. RunSound(i)'
      BY <3>1, <2>0, <1>0 DEF RunSound
    <3> QED
      BY <3>2, <3>3
  <2>2. CASE i = id /\ job[i].state = "none"
    <3>1. job'[i].state = "wait" /\ job'[i].tick = t.at
      BY <2>2, <1>1 DEF SchedulesInv, Types, NoJob
    <3>2. JobSound(i)'
      BY <3>1, <2>2, <1>0, <1>1 DEF JobSound
    <3>3. ASSUME i \notin late' PROVE runs[i] = 0
      <4>1. i \notin late /\ now - t.at <= SlotLength(t.unit)
        BY <3>3, <2>2, <1>0, <1>1, SlotLengths
      <4>2. ~Over(i)
        <5> SUFFICES ASSUME NEW at \in 0 .. now, SlotKey(UnitOf(i[1]), at) = i[2],
                            now - at > 2 * SlotLength(UnitOf(i[1]))
                     PROVE  FALSE
          BY DEF Over
        <5>1. t.at < at + SlotLength(t.unit)
          BY <1>0, <1>1, <2>2, SameSlot
        <5> QED
          BY <5>1, <4>1, <1>0, <1>1, <2>2, SlotLengths
      <4>3. runs[i] \in Nat
        BY DEF SchedulesInv, Types
      <4> QED
        BY <4>1, <4>2, <4>3, <2>0, <2>2 DEF RunSound
    <3>4. RunSound(i)'
      BY <3>1, <3>3, <1>0 DEF RunSound
    <3> QED
      BY <3>2, <3>4
  <2> QED
    BY <2>1, <2>2
<1>9. (\A w \in Workers : WorkerSound(w))' /\ Apart'
  <2>1. \A i \in Ids : job[i].state = "active" => job'[i] = job[i]
    BY <1>5, <1>1 DEF SchedulesInv, Types
  <2>2. ASSUME NEW w \in Workers PROVE WorkerSound(w)'
    BY <2>1, <1>0 DEF SchedulesInv, WorkerSound
  <2>3. Apart'
    BY <1>0 DEF SchedulesInv, Apart
  <2> QED
    BY <2>2, <2>3
<1> QED
  BY <1>6, <1>7, <1>8, <1>9 DEF SchedulesInv

\* The timers do not read what the workers do.
LEMMA TimersStay ==
  ASSUME SchedulesInv, UNCHANGED <<now, cron>>
  PROVE  (\A s \in Schedulers : \A t \in cron[s].ticks : TickSound(t))'
  BY DEF SchedulesInv, TickSound

\* The run of a job begins with all its statements, and those of the same name
\* hear of it.
LEMMA FetchSound ==
  ASSUME SchedulesInv, NEW w \in Workers, NEW id \in Ids, Fetch(w, id)
  PROVE  SchedulesInv'
<1> DEFINE others == Active(id[1])
           mine == [Waiting EXCEPT !.pc = "select", !.id = id, !.at = now,
                      !.todo = Statements(id[1]), !.shared = others # {}]
<1>4. /\ worker[w].pc = "wait" /\ job[id].state = "wait"
      /\ job' = [job EXCEPT ![id].state = "active"]
  BY DEF Fetch
<1>6. worker' = [v \in Workers |-> IF v = w THEN mine
        ELSE IF v \in others THEN [worker[v] EXCEPT !.shared = TRUE] ELSE worker[v]]
  BY DEF Fetch
<1>7. UNCHANGED <<now, offset, cron, left, ticks, faults, runs, late, collapsed>>
  BY DEF Fetch
<1> HIDE DEF others
<1>0. now \in Nat /\ now' = now
  BY <1>7 DEF SchedulesInv, Types
<1>1. /\ id[1] \in Names /\ Statements(id[1]) \in Seq(TablesOf(id[1]))
      /\ Statements(id[1]) # <<>> /\ Statements(id[1]) \in Seq(Tables)
  BY IdParts, StatementLists, SeqMonotonic
<1>2. mine \in WorkerRecord
  BY <1>0, <1>1 DEF WorkerRecord, Waiting
<1>3. worker'[w] = mine
  BY <1>6
<1>5. ASSUME NEW v \in Workers, v # w
      PROVE  worker'[v] = [worker[v] EXCEPT !.shared = (v \in others \/ worker[v].shared)]
  <2>1. worker[v] \in WorkerRecord
    BY DEF SchedulesInv, Types
  <2> QED
    BY <1>6, <1>5, <2>1 DEF WorkerRecord
<1>13. Types'
  <2>1. job' \in [Ids -> JobRecord]
    BY <1>4 DEF SchedulesInv, Types, JobRecord
  <2>2. worker' \in [Workers -> WorkerRecord]
    <3>1. ASSUME NEW v \in Workers PROVE worker'[v] \in WorkerRecord
      <4>1. worker[v] \in WorkerRecord
        BY DEF SchedulesInv, Types
      <4>2. CASE v # w
        BY <4>1, <4>2, <1>5 DEF WorkerRecord
      <4> QED
        BY <4>2, <1>2, <1>3
    <3> QED
      BY <3>1, <1>6
  <2> QED
    BY <2>1, <2>2, <1>7 DEF SchedulesInv, Types
<1>8. ASSUME NEW i \in Ids PROVE (JobSound(i) /\ RunSound(i))'
  <2>1. JobSound(i) /\ RunSound(i) /\ (Over(i))' = Over(i)
    BY <1>0, <1>7 DEF SchedulesInv, Over
  <2>2. /\ job'[i].tick = job[i].tick
        /\ i # id => job'[i] = job[i]
        /\ i = id => job'[i].state = "active"
    BY <1>4 DEF SchedulesInv, Types, JobRecord
  <2>3. JobSound(i)'
    BY <1>0, <1>4, <1>7, <2>1, <2>2 DEF JobSound
  <2>4. RunSound(i)'
    BY <1>0, <1>4, <1>7, <2>1, <2>2 DEF RunSound
  <2> QED
    BY <2>3, <2>4
<1>9. ASSUME NEW v \in Workers, v # w, worker[v].pc # "wait"
      PROVE  /\ worker[v].id \in Ids /\ worker[v].id # id
             /\ worker[v].id[1] = id[1] => v \in others
  BY <1>4, <1>9, IdParts DEF SchedulesInv, WorkerSound, others, Active
<1>10. ASSUME NEW v \in Workers PROVE WorkerSound(v)'
  <2>1. CASE v = w
    <3>1. job'[id].state = "active"
      BY <1>4 DEF SchedulesInv, Types, JobRecord
    <3> QED
      BY <2>1, <3>1, <1>0, <1>1, <1>3 DEF WorkerSound, Waiting
  <2>2. CASE v # w /\ worker[v].pc = "wait"
    <3>1. worker[v] = Waiting
      BY <2>2 DEF SchedulesInv, WorkerSound
    <3>2. v \notin others
      BY <3>1 DEF others, Active, Waiting
    <3>3. worker'[v] = worker[v]
      BY <2>2, <3>2, <1>6
    <3> QED
      BY <2>2, <3>1, <3>3 DEF WorkerSound
  <2>3. CASE v # w /\ worker[v].pc # "wait"
    <3>1. worker[v] \in WorkerRecord /\ WorkerSound(v)
      BY DEF SchedulesInv, Types
    <3>2. job'[worker[v].id] = job[worker[v].id]
      BY <2>3, <1>4, <1>9 DEF SchedulesInv, Types
    <3> QED
      BY <2>3, <3>1, <3>2, <1>5 DEF WorkerSound, WorkerRecord
  <2> QED
    BY <2>1, <2>2, <2>3
<1>11. Apart'
  <2>0. ASSUME NEW v \in Workers, v # w
        PROVE  /\ worker'[v].pc = worker[v].pc /\ worker'[v].id = worker[v].id
               /\ worker'[v].shared = (v \in others \/ worker[v].shared)
    BY <2>0, <1>5 DEF SchedulesInv, Types, WorkerRecord
  <2>1. worker'[w].id = id /\ worker'[w].shared = (others # {})
    BY <1>3 DEF Waiting
  <2>2. ASSUME NEW v \in Workers, v # w, worker[v].pc # "wait"
        PROVE  /\ worker'[v].id # worker'[w].id
               /\ worker'[v].id[1] = worker'[w].id[1] => worker'[v].shared /\ worker'[w].shared
    BY <2>0, <2>1, <2>2, <1>9
  <2>3. ASSUME NEW u \in Workers, NEW v \in Workers, u # v, u # w, v # w,
               worker[u].pc # "wait", worker[v].pc # "wait"
        PROVE  /\ worker'[u].id # worker'[v].id
               /\ worker'[u].id[1] = worker'[v].id[1] => worker'[u].shared /\ worker'[v].shared
    <3>1. /\ worker[u].id # worker[v].id
          /\ worker[u].id[1] = worker[v].id[1] => worker[u].shared /\ worker[v].shared
      BY <2>3 DEF SchedulesInv, Apart
    <3>2. /\ worker'[u].id = worker[u].id /\ worker'[v].id = worker[v].id
          /\ worker[u].shared => worker'[u].shared
          /\ worker[v].shared => worker'[v].shared
      BY <2>0, <2>3
    <3> QED
      BY <3>1, <3>2
  <2> QED
    BY <2>0, <2>2, <2>3 DEF Apart
<1>12. (\A s \in Schedulers : \A t \in cron[s].ticks : TickSound(t))'
  BY <1>7, TimersStay
<1> QED
  BY <1>13, <1>8, <1>10, <1>11, <1>12 DEF SchedulesInv

LEMMA ForgetSound ==
  ASSUME SchedulesInv, NEW id \in Ids, Forget(id)
  PROVE  SchedulesInv'
<1> USE DEF Forget
<1>0. now \in Nat /\ now' = now /\ UNCHANGED <<worker, runs, late>>
  BY DEF SchedulesInv, Types
<1>1. NoJob \in JobRecord
  BY DEF NoJob, JobRecord
<1>2. Types'
  BY <1>1 DEF SchedulesInv, Types
<1>3. ASSUME NEW i \in Ids PROVE (JobSound(i) /\ RunSound(i))'
  <2>0. /\ JobSound(i) /\ RunSound(i) /\ (Over(i))' = Over(i)
        /\ job'[i] = IF i = id THEN NoJob ELSE job[i]
    BY <1>0 DEF SchedulesInv, Over, Types
  <2>1. CASE i # id
    BY <2>0, <2>1, <1>0 DEF JobSound, RunSound
  <2>2. CASE i = id
    <3>1. Over(id)
      BY <2>0, <2>2, <1>0, SlotLengths DEF JobSound, Over
    <3> QED
      BY <2>0, <2>2, <3>1, <1>0 DEF JobSound, RunSound, NoJob
  <2> QED
    BY <2>1, <2>2
<1>4. (\A w \in Workers : WorkerSound(w))' /\ Apart'
  <2>1. \A i \in Ids : job[i].state = "active" => job'[i] = job[i]
    BY DEF SchedulesInv, Types
  <2>2. ASSUME NEW w \in Workers PROVE WorkerSound(w)'
    BY <2>1, <1>0 DEF SchedulesInv, WorkerSound
  <2>3. Apart'
    BY <1>0 DEF SchedulesInv, Apart
  <2> QED
    BY <2>2, <2>3
<1>5. (\A s \in Schedulers : \A t \in cron[s].ticks : TickSound(t))'
  BY TimersStay
<1> QED
  BY <1>2, <1>3, <1>4, <1>5 DEF SchedulesInv

\* A slot of the worker that is done with its job.
LEMMA LeavesOff ==
  ASSUME SchedulesInv, NEW w \in Workers, worker[w].pc # "wait",
         worker' = [worker EXCEPT ![w] = Waiting],
         \A i \in Ids : i # worker[w].id => job'[i] = job[i]
  PROVE  (\A v \in Workers : WorkerSound(v))' /\ Apart'
<1>0. worker'[w] = Waiting /\ \A v \in Workers : v # w => worker'[v] = worker[v]
  BY DEF SchedulesInv, Types
<1>1. ASSUME NEW v \in Workers PROVE WorkerSound(v)'
  <2>1. CASE v = w
    BY <2>1, <1>0 DEF WorkerSound, Waiting
  <2>2. CASE v # w /\ worker[v].pc = "wait"
    BY <2>2, <1>0 DEF SchedulesInv, WorkerSound
  <2>3. CASE v # w /\ worker[v].pc # "wait"
    <3>1. WorkerSound(v) /\ worker[v].id \in Ids /\ worker[v].id # worker[w].id
      BY <2>3 DEF SchedulesInv, Apart, WorkerSound
    <3> QED
      BY <3>1, <2>3, <1>0 DEF WorkerSound
  <2> QED
    BY <2>1, <2>2, <2>3
<1>2. Apart'
  BY <1>0 DEF SchedulesInv, Apart, Waiting
<1> QED
  BY <1>1, <1>2

\* A slot of the worker that goes on with its job.
LEMMA GoesOn ==
  ASSUME SchedulesInv, NEW w \in Workers, worker[w].pc # "wait", worker'[w].pc # "wait",
         \A v \in Workers : v # w => worker'[v] = worker[v],
         worker'[w].id = worker[w].id, worker'[w].at = worker[w].at,
         worker'[w].shared = worker[w].shared,
         worker'[w].todo \in Seq(TablesOf(worker[w].id[1])), worker'[w].todo # <<>>,
         job' = job
  PROVE  (\A v \in Workers : WorkerSound(v))' /\ Apart'
<1>1. ASSUME NEW v \in Workers PROVE WorkerSound(v)'
  <2>1. WorkerSound(v)
    BY DEF SchedulesInv
  <2>2. CASE v = w
    BY <2>1, <2>2 DEF WorkerSound
  <2>3. CASE v # w
    BY <2>1, <2>3 DEF WorkerSound
  <2> QED
    BY <2>2, <2>3
<1>2. Apart'
  <2>1. \A v \in Workers : /\ worker'[v].id = worker[v].id /\ worker'[v].shared = worker[v].shared
                           /\ worker'[v].pc # "wait" => worker[v].pc # "wait"
    OBVIOUS
  <2>2. ASSUME NEW u \in Workers, NEW v \in Workers, u # v,
               worker'[u].pc # "wait", worker'[v].pc # "wait"
        PROVE  /\ worker'[u].id # worker'[v].id
               /\ worker'[u].id[1] = worker'[v].id[1] => worker'[u].shared /\ worker'[v].shared
    <3>1. /\ worker[u].id # worker[v].id
          /\ worker[u].id[1] = worker[v].id[1] => worker[u].shared /\ worker[v].shared
      BY <2>1, <2>2 DEF SchedulesInv, Apart
    <3> QED
      BY <3>1, <2>1
  <2> QED
    BY <2>2 DEF Apart
<1> QED
  BY <1>1, <1>2

LEMMA SelectBatchSound ==
  ASSUME SchedulesInv, NEW w \in Workers, SelectBatch(w)
  PROVE  SchedulesInv'
<1> DEFINE rows == Expired(Head(worker[w].todo), worker[w].at)
           pick == IF rows = {} THEN Null ELSE Min(rows)
<1>0. /\ worker[w].pc = "select"
      /\ worker' = [worker EXCEPT ![w].pc = "delete", ![w].pick = pick]
  BY DEF SelectBatch
<1>1. UNCHANGED <<now, offset, cron, job, left, ticks, faults, runs, late, collapsed>>
  BY DEF SelectBatch
<1>2. worker[w] \in WorkerRecord /\ WorkerSound(w) /\ now \in Nat
  BY DEF SchedulesInv, Types
<1>3. pick \in Nat \cup {Null}
  <2>1. rows \in SUBSET Nat
    <3>1. left[Head(worker[w].todo)] \in SUBSET Nat
      BY <1>0, <1>2, AtWork DEF SchedulesInv, Types
    <3> QED
      BY <3>1 DEF Expired
  <2> QED
    BY <2>1, MinIsIn
<1> HIDE DEF pick
<1>4. /\ worker'[w] = [worker[w] EXCEPT !.pc = "delete", !.pick = pick]
      /\ \A v \in Workers : v # w => worker'[v] = worker[v]
      /\ worker'[w] \in WorkerRecord
  BY <1>0, <1>2, <1>3 DEF SchedulesInv, Types, WorkerRecord
<1>5. Types'
  BY <1>0, <1>1, <1>4 DEF SchedulesInv, Types
<1>6. (\A v \in Workers : WorkerSound(v))' /\ Apart'
  <2>1. worker[w].todo \in Seq(TablesOf(worker[w].id[1])) /\ worker[w].todo # <<>>
    BY <1>0, <1>2 DEF WorkerSound
  <2>2. /\ worker'[w].pc # "wait" /\ worker'[w].id = worker[w].id /\ worker'[w].at = worker[w].at
        /\ worker'[w].shared = worker[w].shared /\ worker'[w].todo = worker[w].todo
    BY <1>2, <1>4 DEF WorkerRecord
  <2> QED
    BY <1>0, <1>1, <1>4, <2>1, <2>2, GoesOn
<1>7. (\A id \in Ids : JobSound(id) /\ RunSound(id))'
  BY <1>1, <1>2, JobsStay
<1>8. (\A s \in Schedulers : \A t \in cron[s].ticks : TickSound(t))'
  BY <1>1, TimersStay
<1> QED
  BY <1>5, <1>6, <1>7, <1>8 DEF SchedulesInv

\* A slot of the worker goes on to its next statement, or completes its job.
LEMMA AdvanceSound ==
  ASSUME SchedulesInv, NEW w \in Workers, worker[w].pc # "wait", NEW limit \in BOOLEAN,
         left' \in [Tables -> SUBSET Nat], Advance(w, limit),
         UNCHANGED <<now, offset, cron, ticks, faults, late, collapsed>>
  PROVE  SchedulesInv'
<1> DEFINE r == worker[w]
<1>0. r \in WorkerRecord /\ WorkerSound(w) /\ now \in Nat
  BY DEF SchedulesInv, Types
<1>1. /\ r.id \in Ids /\ job[r.id].state = "active" /\ r.at \in Nat
      /\ r.todo \in Seq(TablesOf(r.id[1])) /\ r.todo # <<>>
  BY <1>0 DEF WorkerSound
<1>2. (\A s \in Schedulers : \A t \in cron[s].ticks : TickSound(t))'
  BY TimersStay
<1>3. CASE Len(r.todo) > 1
  <2> DEFINE next == [r EXCEPT !.pc = "select", !.todo = Tail(r.todo), !.batch = 0,
                        !.pick = Null, !.limit = r.limit \/ limit]
  <2>1. worker' = [worker EXCEPT ![w] = next] /\ UNCHANGED <<job, runs>>
    BY <1>3 DEF Advance
  <2>2. /\ Tail(r.todo) \in Seq(TablesOf(r.id[1])) /\ Tail(r.todo) # <<>>
        /\ Tail(r.todo) \in Seq(Tables)
    <3>1. Tail(r.todo) \in Seq(TablesOf(r.id[1])) /\ Tail(r.todo) # <<>>
      BY <1>1, <1>3, TailLeft
    <3>2. TablesOf(r.id[1]) \subseteq Tables
      BY <1>1, IdParts, StatementLists
    <3>3. Tail(r.todo) \in Seq(Tables)
      BY <3>1, <3>2, SeqMonotonic, Zenon
    <3> QED
      BY <3>1, <3>3
  <2>3. next \in WorkerRecord
    BY <1>0, <2>2 DEF WorkerRecord
  <2>4. worker'[w] = next /\ \A v \in Workers : v # w => worker'[v] = worker[v]
    BY <2>1 DEF SchedulesInv, Types
  <2>5. Types'
    BY <2>1, <2>3 DEF SchedulesInv, Types
  <2>6. /\ next.pc # "wait" /\ next.id = r.id /\ next.at = r.at /\ next.shared = r.shared
        /\ next.todo = Tail(r.todo)
    BY <1>0 DEF WorkerRecord
  <2>7. (\A v \in Workers : WorkerSound(v))' /\ Apart'
    <3> HIDE DEF next
    <3> QED
      BY <2>1, <2>2, <2>4, <2>6, GoesOn
  <2>8. (\A id \in Ids : JobSound(id) /\ RunSound(id))'
    BY <2>1, <1>0, JobsStay
  <2> QED
    BY <1>2, <2>5, <2>7, <2>8 DEF SchedulesInv
<1>4. CASE ~(Len(r.todo) > 1)
  <2>1. /\ worker' = [worker EXCEPT ![w] = Waiting]
        /\ job' = [job EXCEPT ![r.id].state = "completed", ![r.id].ended = now]
        /\ runs' = [runs EXCEPT ![r.id] = @ + 1]
    BY <1>4 DEF Advance
  <2>2. Waiting \in WorkerRecord
    BY DEF Waiting, WorkerRecord
  <2>3. /\ job' \in [Ids -> JobRecord] /\ \A i \in Ids : i # r.id => job'[i] = job[i]
        /\ job'[r.id].tick = job[r.id].tick /\ job'[r.id].state = "completed"
        /\ job'[r.id].ended = now
    <3>1. job[r.id] \in JobRecord
      BY <1>1 DEF SchedulesInv, Types
    <3> QED
      BY <3>1, <2>1, <1>0, <1>1 DEF SchedulesInv, Types, JobRecord
  <2>4. Types'
    BY <2>1, <2>2, <2>3, <1>1 DEF SchedulesInv, Types
  <2>5. (\A v \in Workers : WorkerSound(v))' /\ Apart'
    BY <2>1, <2>3, LeavesOff
  <2>6. ASSUME NEW i \in Ids PROVE (JobSound(i) /\ RunSound(i))'
    <3>1. JobSound(i) /\ RunSound(i) /\ (Over(i))' = Over(i) /\ runs[i] \in Nat
      BY DEF SchedulesInv, Over, Types
    <3>2. CASE i # r.id
      <4>1. job'[i] = job[i] /\ runs'[i] = runs[i]
        BY <3>2, <2>1, <2>3 DEF SchedulesInv, Types
      <4> QED
        BY <3>1, <4>1 DEF JobSound, RunSound
    <3>3. CASE i = r.id
      <4>1. runs'[i] = runs[i] + 1
        BY <3>3, <2>1, <1>1 DEF SchedulesInv, Types
      <4>2. job[i].tick \in 0 .. now /\ SlotKey(UnitOf(i[1]), job[i].tick) = i[2]
        BY <3>1, <3>3, <1>1 DEF JobSound
      <4>3. JobSound(i)'
        BY <3>3, <2>3, <1>0, <4>2 DEF JobSound
      <4>4. RunSound(i)'
        BY <3>1, <3>3, <4>1, <2>3, <1>1 DEF RunSound
      <4> QED
        BY <4>3, <4>4
    <3> QED
      BY <3>2, <3>3
  <2> QED
    BY <1>2, <2>4, <2>5, <2>6 DEF SchedulesInv
<1> QED
  BY <1>3, <1>4

LEMMA DeleteBatchSound ==
  ASSUME SchedulesInv, NEW w \in Workers, DeleteBatch(w)
  PROVE  SchedulesInv'
<1> DEFINE r == worker[w]
           full == r.pick \in left[Head(r.todo)] /\ Head(r.todo) \notin r.short
           next == [r EXCEPT !.pc = "select", !.batch = r.batch + 1]
<1>0. r.pc = "delete" /\ r \in WorkerRecord /\ WorkerSound(w) /\ now \in Nat
  BY DEF DeleteBatch, SchedulesInv, Types
<1>1. /\ left' = [left EXCEPT ![Head(r.todo)] = @ \ {r.pick}]
      /\ UNCHANGED <<now, offset, cron, ticks, faults, late, collapsed>>
  BY DEF DeleteBatch
<1>2. left' \in [Tables -> SUBSET Nat]
  BY <1>1 DEF SchedulesInv, Types
<1>3. \/ Advance(w, full)
      \/ /\ worker' = [worker EXCEPT ![w].pc = "select", ![w].batch = r.batch + 1]
         /\ UNCHANGED <<job, runs>>
  BY DEF DeleteBatch
<1>4. CASE Advance(w, full)
  <2>1. full \in BOOLEAN
    OBVIOUS
  <2> HIDE DEF full
  <2> QED
    BY <1>0, <1>1, <1>2, <1>4, <2>1, AdvanceSound
<1>5. CASE /\ worker' = [worker EXCEPT ![w].pc = "select", ![w].batch = r.batch + 1]
           /\ UNCHANGED <<job, runs>>
  <2>0. next \in WorkerRecord
    <3>1. r.batch + 1 \in Nat
      BY <1>0 DEF WorkerRecord
    <3> QED
      BY <1>0, <3>1 DEF WorkerRecord
  <2>1. /\ worker'[w] = next /\ next \in WorkerRecord
        /\ \A v \in Workers : v # w => worker'[v] = worker[v]
    BY <1>5, <2>0 DEF SchedulesInv, Types
  <2>2. Types'
    BY <1>1, <1>2, <1>5, <2>1 DEF SchedulesInv, Types
  <2>3. (\A v \in Workers : WorkerSound(v))' /\ Apart'
    <3>1. r.todo \in Seq(TablesOf(r.id[1])) /\ r.todo # <<>>
      BY <1>0 DEF WorkerSound
    <3>2. /\ next.pc # "wait" /\ next.id = r.id /\ next.at = r.at /\ next.shared = r.shared
          /\ next.todo = r.todo
      BY <1>0 DEF WorkerRecord
    <3> HIDE DEF next
    <3> QED
      BY <1>0, <1>5, <2>1, <3>1, <3>2, GoesOn
  <2>4. (\A id \in Ids : JobSound(id) /\ RunSound(id))'
    BY <1>0, <1>1, <1>5, JobsStay
  <2>5. (\A s \in Schedulers : \A t \in cron[s].ticks : TickSound(t))'
    BY <1>1, TimersStay
  <2> QED
    BY <2>2, <2>3, <2>4, <2>5 DEF SchedulesInv
<1> QED
  BY <1>3, <1>4, <1>5

\* Other requests delete refresh tokens and leave the runs to go on.
LEMMA SessionTable == "refresh" \in Tables
<1>1. "refresh" \in TablesOf("tokens")
  <2>1. Statements("tokens") = <<"refresh", "verification", "reset", "codes">>
    BY DEF Statements
  <2> QED
    BY <2>1 DEF TablesOf
<1> QED
  BY <1>1 DEF Tables, Names

LEMMA EndSessionsWorkers ==
  ASSUME SchedulesInv, NEW h, EndSessions(h), NEW w \in Workers
  PROVE  /\ worker'[w] \in WorkerRecord
         /\ worker'[w].pc = worker[w].pc /\ worker'[w].id = worker[w].id
         /\ worker'[w].at = worker[w].at /\ worker'[w].todo = worker[w].todo
         /\ worker'[w].pick = worker[w].pick /\ worker'[w].limit = worker[w].limit
         /\ worker'[w].shared = worker[w].shared
         /\ worker[w].short \subseteq worker'[w].short
         /\ worker[w].pc = "wait" => worker'[w] = worker[w]
<1> DEFINE cut == [worker[w] EXCEPT !.short = worker[w].short \cup {"refresh"}]
<1>1. worker[w] \in WorkerRecord
  BY DEF SchedulesInv, Types
<1>2. /\ cut \in WorkerRecord
      /\ cut.pc = worker[w].pc /\ cut.id = worker[w].id
      /\ cut.at = worker[w].at /\ cut.todo = worker[w].todo
      /\ cut.pick = worker[w].pick /\ cut.limit = worker[w].limit
      /\ cut.shared = worker[w].shared /\ worker[w].short \subseteq cut.short
  BY <1>1, SessionTable DEF WorkerRecord
<1>3. worker'[w] = worker[w] \/ (worker[w].pc = "delete" /\ worker'[w] = cut)
  <2>1. worker'[w] = IF worker[w].pc = "delete" /\ Head(worker[w].todo) = "refresh"
                          /\ worker[w].pick = h
                       THEN cut ELSE worker[w]
    BY DEF EndSessions
  <2> HIDE DEF cut
  <2> QED
    BY <2>1
<1> HIDE DEF cut
<1> QED
  BY <1>1, <1>2, <1>3

LEMMA EndSessionsSound ==
  ASSUME SchedulesInv, NEW h, EndSessions(h)
  PROVE  SchedulesInv'
<1>1. UNCHANGED <<now, offset, cron, job, runs, late>> /\ now \in Nat
  BY DEF EndSessions, SchedulesInv, Types
<1>2. Types'
  <2>1. left' \in [Tables -> SUBSET Nat]
    BY DEF EndSessions, SchedulesInv, Types
  <2>2. worker' = [w \in Workers |-> worker'[w]]
    BY DEF EndSessions
  <2>3. worker' \in [Workers -> WorkerRecord]
    BY <2>2, EndSessionsWorkers
  <2> QED
    BY <1>1, <2>1, <2>3 DEF SchedulesInv, Types
<1>3. ASSUME NEW w \in Workers
      PROVE  /\ worker'[w].pc = worker[w].pc /\ worker'[w].id = worker[w].id
             /\ worker'[w].at = worker[w].at /\ worker'[w].todo = worker[w].todo
             /\ worker'[w].shared = worker[w].shared
             /\ worker[w].pc = "wait" => worker'[w] = worker[w]
  BY EndSessionsWorkers
<1>4. (\A w \in Workers : WorkerSound(w))'
  BY <1>1, <1>3 DEF SchedulesInv, WorkerSound
<1>5. Apart'
  BY <1>3 DEF SchedulesInv, Apart
<1> QED
  BY <1>1, <1>2, <1>4, <1>5, JobsStay, TimersStay DEF SchedulesInv

LEMMA DeleteManySound ==
  ASSUME SchedulesInv, NEW w \in Workers, DeleteMany(w)
  PROVE  SchedulesInv'
<1>1. /\ worker[w].pc = "select" /\ Advance(w, FALSE)
      /\ left' = [left EXCEPT ![Head(worker[w].todo)] =
                    @ \ Expired(Head(worker[w].todo), worker[w].at)]
      /\ UNCHANGED <<now, offset, cron, ticks, faults, late, collapsed>>
  BY DEF DeleteMany
<1>2. left' \in [Tables -> SUBSET Nat]
  BY <1>1 DEF SchedulesInv, Types
<1> QED
  BY <1>1, <1>2, AdvanceSound

LEMMA StatementFailsSound ==
  ASSUME SchedulesInv, NEW w \in Workers, StatementFails(w)
  PROVE  SchedulesInv'
<1> DEFINE id == worker[w].id
<1>1. /\ worker[w].pc \in {"select", "delete"} /\ worker' = [worker EXCEPT ![w] = Waiting]
      /\ UNCHANGED <<now, offset, cron, left, ticks, runs, late, collapsed>>
  BY DEF StatementFails
<1>2. /\ id \in Ids /\ job[id].state = "active" /\ job[id] \in JobRecord /\ now \in Nat
  BY <1>1 DEF SchedulesInv, WorkerSound, Types
<1>3. PICK made \in Nat, state \in {"wait", "failed"}, ended \in Nat \cup {Null} :
        /\ job' = [job EXCEPT ![id] =
                     [job[id] EXCEPT !.state = state, !.made = made, !.ended = ended]]
        /\ state = "failed" => ended = now
  <2> DEFINE made == job[id].made + 1
  <2>0. made \in Nat /\ job[id].ended \in Nat \cup {Null}
    BY <1>2 DEF JobRecord
  <2>1. CASE made < Attempts
    <3>1. job' = [job EXCEPT ![id].state = "wait", ![id].made = made]
      BY <2>1 DEF StatementFails
    <3>2. job' = [job EXCEPT ![id] = [job[id] EXCEPT !.state = "wait", !.made = made,
                                        !.ended = job[id].ended]]
      BY <3>1, <1>2 DEF JobRecord
    <3> HIDE DEF made
    <3> QED
      BY <2>0, <3>2
  <2>2. CASE ~(made < Attempts)
    <3>1. job' = [job EXCEPT ![id].state = "failed", ![id].made = made, ![id].ended = now]
      BY <2>2 DEF StatementFails
    <3>2. job' = [job EXCEPT ![id] = [job[id] EXCEPT !.state = "failed", !.made = made,
                                        !.ended = now]]
      BY <3>1, <1>2 DEF JobRecord
    <3> HIDE DEF made
    <3> QED
      BY <2>0, <3>2, <1>2
  <2> QED
    BY <2>1, <2>2
<1>4. /\ job' \in [Ids -> JobRecord] /\ \A i \in Ids : i # id => job'[i] = job[i]
      /\ job'[id].tick = job[id].tick /\ job'[id].state = state /\ job'[id].ended = ended
  BY <1>2, <1>3 DEF SchedulesInv, Types, JobRecord
<1>5. Types'
  <2>1. Waiting \in WorkerRecord
    BY DEF Waiting, WorkerRecord
  <2> QED
    BY <2>1, <1>1, <1>4 DEF SchedulesInv, Types
<1>6. (\A v \in Workers : WorkerSound(v))' /\ Apart'
  BY <1>1, <1>4, LeavesOff
<1>7. ASSUME NEW i \in Ids PROVE (JobSound(i) /\ RunSound(i))'
  <2>1. JobSound(i) /\ RunSound(i) /\ (Over(i))' = Over(i) /\ runs'[i] = runs[i] /\ late' = late
    BY <1>1 DEF SchedulesInv, Over
  <2>2. CASE i # id
    <3>1. job'[i] = job[i]
      BY <2>2, <1>4
    <3> QED
      BY <3>1, <2>1, <1>1 DEF JobSound, RunSound
  <2>3. CASE i = id
    <3>1. JobSound(i)'
      BY <2>1, <2>3, <1>1, <1>2, <1>3, <1>4 DEF JobSound
    <3>2. RunSound(i)'
      BY <2>1, <2>3, <1>2, <1>4 DEF RunSound
    <3> QED
      BY <3>1, <3>2
  <2> QED
    BY <2>2, <2>3
<1>8. (\A s \in Schedulers : \A t \in cron[s].ticks : TickSound(t))'
  BY <1>1, TimersStay
<1> QED
  BY <1>5, <1>6, <1>7, <1>8 DEF SchedulesInv

-----------------------------------------------------------------------------
LEMMA NextSound == ASSUME SchedulesInv, Next PROVE SchedulesInv'
<1>1. CASE Pass
  BY <1>1, PassSound
<1>2. CASE SetForward
  BY <1>2, SetForwardSound
<1>3. ASSUME NEW s \in Schedulers, Restart(s) PROVE SchedulesInv'
  BY <1>3, RestartSound
<1>4. ASSUME NEW s \in Schedulers, NEW unit \in Units, Tick(s, unit) PROVE SchedulesInv'
  BY <1>4, TickSteps
<1>5. ASSUME NEW s \in Schedulers, NEW t \in cron[s].ticks, Add(s, t) PROVE SchedulesInv'
  BY <1>5, AddSound
<1>6. ASSUME NEW s \in Schedulers, NEW t \in cron[s].ticks, AddFails(s, t) PROVE SchedulesInv'
  BY <1>6, AddFailsSound
<1>7. ASSUME NEW w \in Workers, SelectBatch(w) PROVE SchedulesInv'
  BY <1>7, SelectBatchSound
<1>8. ASSUME NEW w \in Workers, DeleteBatch(w) PROVE SchedulesInv'
  BY <1>8, DeleteBatchSound
<1>9. ASSUME NEW w \in Workers, DeleteMany(w) PROVE SchedulesInv'
  BY <1>9, DeleteManySound
<1>10. ASSUME NEW w \in Workers, StatementFails(w) PROVE SchedulesInv'
  BY <1>10, StatementFailsSound
<1>11. ASSUME NEW w \in Workers, NEW id \in Ids, Fetch(w, id) PROVE SchedulesInv'
  BY <1>11, FetchSound
<1>12. ASSUME NEW id \in Ids, Forget(id) PROVE SchedulesInv'
  BY <1>12, ForgetSound
<1>13. ASSUME NEW h \in left["refresh"], EndSessions(h) PROVE SchedulesInv'
  BY <1>13, EndSessionsSound
<1> QED
  BY <1>1, <1>2, <1>3, <1>4, <1>5, <1>6, <1>7, <1>8, <1>9, <1>10, <1>11, <1>12, <1>13 DEF Next

LEMMA IdleSound == ASSUME SchedulesInv, UNCHANGED vars PROVE SchedulesInv'
<1>0. /\ UNCHANGED <<now, offset, cron, job, worker, left>>
      /\ UNCHANGED <<ticks, faults, runs, late, collapsed>>
  BY DEF vars
<1>1. Types'
  BY <1>0 DEF SchedulesInv, Types
<1>2. now \in Nat
  BY DEF SchedulesInv, Types
<1> QED
  BY <1>0, <1>1, <1>2, JobsStay, WorkersStay, TimersStay DEF SchedulesInv

LEMMA Invariance == Spec => []SchedulesInv
<1>1. SchedulesInv /\ [Next]_vars => SchedulesInv'
  BY NextSound, IdleSound
<1> QED
  BY <1>1, InitSound, PTL DEF Spec

\* The jobs of a slot complete once, however many schedulers fire, are restarted
\* or add late, unless an add arrives more than a slot length after its tick.
THEOREM SlotsRunOnce == Spec => []OncePerSlot
<1>1. SchedulesInv => OncePerSlot
  BY DEF SchedulesInv, RunSound, OncePerSlot
<1> QED
  BY <1>1, Invariance, PTL

-----------------------------------------------------------------------------
(***************************************************************************)
(* While local time is UTC, no two ticks are of one slot.                  *)
(***************************************************************************)
\* While local time is UTC, the daily timer fires at the start of a slot.
Midnights ==
  /\ offset = 0 =>
       /\ \A s \in Schedulers : \A t \in cron[s].ticks : t.unit = "day" => t.at % Day = 0
       /\ \A id \in Ids : job[id].state # "none" /\ UnitOf(id[1]) = "day" => job[id].tick % Day = 0
  /\ TicksDistinct

LEMMA TickAtMidnight ==
  ASSUME SchedulesInv, Midnights, NEW s \in Schedulers, NEW unit \in Units, Tick(s, unit)
  PROVE  Midnights'
<1>1. UNCHANGED <<now, offset, job, collapsed>>
  BY DEF Tick
<1>2. \A q \in Schedulers : cron'[q].ticks \subseteq
        cron[q].ticks \cup {[unit |-> unit, at |-> now, names |-> JobsOf(unit)]}
  BY DEF Tick, SchedulesInv, Types
<1>3. offset = 0 /\ unit = "day" => now % Day = 0
  <2>1. now \in Nat
    BY DEF SchedulesInv, Types
  <2> QED
    BY <2>1 DEF Tick, Matches
<1>4. TicksDistinct'
  BY <1>1 DEF Midnights, TicksDistinct
<1>5. ASSUME offset = 0, NEW q \in Schedulers, NEW t \in cron'[q].ticks, t.unit = "day"
      PROVE  t.at % Day = 0
  <2>1. CASE t \in cron[q].ticks
    BY <1>5, <2>1 DEF Midnights
  <2>2. CASE t = [unit |-> unit, at |-> now, names |-> JobsOf(unit)]
    BY <1>3, <1>5, <2>2
  <2> QED
    BY <1>2, <2>1, <2>2
<1> QED
  BY <1>1, <1>4, <1>5 DEF Midnights

\* An id that is known was added by a tick of the same hour, or, if it is of the
\* daily schedule and local time was set forward, perhaps by another's.
LEMMA AddAtMidnight ==
  ASSUME SchedulesInv, Midnights, NEW s \in Schedulers, NEW t \in cron[s].ticks, Add(s, t)
  PROVE  Midnights'
<1> DEFINE id == <<Head(t.names), SlotKey(t.unit, t.at)>>
           rest == [t EXCEPT !.names = Tail(t.names)]
<1>1. /\ UNCHANGED <<now, offset>>
      /\ job' = IF job[id].state = "none"
                  THEN [job EXCEPT ![id] = [NoJob EXCEPT !.state = "wait", !.tick = t.at]] ELSE job
      /\ collapsed' = IF job[id].state # "none" /\ job[id].tick # t.at
                        THEN collapsed \cup {id} ELSE collapsed
      /\ cron' = [cron EXCEPT ![s].ticks = (@ \ {t}) \cup
                    IF Tail(t.names) = <<>> THEN {} ELSE {rest}]
  BY DEF Add
<1>2. /\ t \in TickRecord /\ t.at \in 0 .. now /\ id \in Ids /\ now \in Nat
      /\ UnitOf(id[1]) = t.unit /\ id[2] = SlotKey(t.unit, t.at) /\ t.unit \in {"hour", "day"}
  <2>1. /\ t \in TickRecord /\ t.at \in 0 .. now /\ id \in Ids
        /\ UnitOf(id[1]) = t.unit /\ id[2] = SlotKey(t.unit, t.at)
    BY TickIds DEF SchedulesInv
  <2>2. t.unit \in {"hour", "day"}
    BY <2>1, ScheduleAssumption DEF TickRecord
  <2>3. now \in Nat
    BY DEF SchedulesInv, Types
  <2> HIDE DEF id
  <2> QED
    BY <2>1, <2>2, <2>3
<1>3. JobSound(id) /\ job[id] \in JobRecord
  BY <1>2 DEF SchedulesInv, Types
<1>4. \A q \in Schedulers : cron'[q].ticks \subseteq cron[q].ticks \cup {rest}
  BY <1>1 DEF SchedulesInv, Types
<1>5. rest.unit = t.unit /\ rest.at = t.at
  BY <1>2 DEF TickRecord
<1>6. offset = 0 /\ t.unit = "day" => t.at % Day = 0
  BY DEF Midnights
<1>7. ASSUME offset = 0, NEW q \in Schedulers, NEW u \in cron'[q].ticks, u.unit = "day"
      PROVE  u.at % Day = 0
  <2>1. CASE u \in cron[q].ticks
    BY <1>7, <2>1 DEF Midnights
  <2>2. CASE u = rest
    BY <1>5, <1>6, <1>7, <2>2
  <2> QED
    BY <1>4, <2>1, <2>2
<1>8. ASSUME offset = 0, NEW i \in Ids, job'[i].state # "none", UnitOf(i[1]) = "day"
      PROVE  job'[i].tick % Day = 0
  <2>1. CASE i = id /\ job[id].state = "none"
    <3>1. job'[i].tick = t.at
      BY <1>1, <1>2, <2>1 DEF SchedulesInv, Types, NoJob
    <3> QED
      BY <3>1, <1>2, <1>6, <1>8, <2>1
  <2>2. CASE ~(i = id /\ job[id].state = "none")
    <3>1. job'[i] = job[i]
      BY <1>1, <1>2, <2>2 DEF SchedulesInv, Types
    <3> QED
      BY <3>1, <1>8 DEF Midnights
  <2> QED
    BY <2>1, <2>2
<1>9. ASSUME job[id].state # "none", job[id].tick # t.at
      PROVE  offset = 1 /\ UnitOf(id[1]) = "day"
  <2>1. /\ job[id].tick \in Nat /\ t.at \in Nat
        /\ SlotKey(t.unit, job[id].tick) = SlotKey(t.unit, t.at)
    BY <1>2, <1>3, <1>9 DEF JobSound
  <2>2. t.unit = "day"
    <3>1. CASE t.unit = "hour"
      <4>1. job[id].tick = t.at
        BY <2>1, <3>1, HourSlot
      <4> QED
        BY <4>1, <1>9
    <3> QED
      BY <3>1, <1>2
  <2>3. offset # 0
    <3> SUFFICES ASSUME offset = 0 PROVE FALSE
      OBVIOUS
    <3>1. job[id].tick % Day = 0 /\ t.at % Day = 0
      BY <1>2, <1>6, <1>9, <2>2 DEF Midnights
    <3>2. job[id].tick = t.at
      BY <2>1, <2>2, <3>1, OneMidnight
    <3> QED
      BY <3>2, <1>9
  <2>4. offset \in {0, 1}
    BY DEF SchedulesInv, Types
  <2> QED
    BY <1>2, <2>2, <2>3, <2>4
<1>10. TicksDistinct'
  <2>1. CASE job[id].state # "none" /\ job[id].tick # t.at
    <3>1. offset' = 1 /\ UnitOf(id[1]) = "day" /\ collapsed' = collapsed \cup {id}
      BY <1>1, <1>9, <2>1
    <3> HIDE DEF id
    <3> QED
      BY <3>1 DEF Midnights, TicksDistinct
  <2>2. CASE ~(job[id].state # "none" /\ job[id].tick # t.at)
    <3>1. collapsed' = collapsed /\ offset' = offset
      BY <1>1, <2>2
    <3> QED
      BY <3>1 DEF Midnights, TicksDistinct
  <2> QED
    BY <2>1, <2>2
<1> QED
  BY <1>1, <1>7, <1>8, <1>10 DEF Midnights

\* Jobs keep the hour of their tick.
LEMMA JobsAtMidnight ==
  ASSUME Midnights, UNCHANGED <<offset, collapsed>>,
         \A s \in Schedulers : cron'[s].ticks \subseteq cron[s].ticks,
         \A id \in Ids : job'[id].state # "none" =>
                           job[id].state # "none" /\ job'[id].tick = job[id].tick
  PROVE  Midnights'
<1>1. TicksDistinct'
  BY DEF Midnights, TicksDistinct
<1> QED
  BY <1>1 DEF Midnights

LEMMA AdvanceAtMidnight ==
  ASSUME SchedulesInv, NEW w \in Workers, worker[w].pc # "wait", NEW limit, Advance(w, limit),
         NEW id \in Ids, job'[id].state # "none"
  PROVE  job[id].state # "none" /\ job'[id].tick = job[id].tick
<1>0. worker[w].id \in Ids /\ job[worker[w].id].state = "active" /\ job[id] \in JobRecord
  BY DEF SchedulesInv, WorkerSound, Types
<1>1. \/ UNCHANGED job
      \/ job' = [job EXCEPT ![worker[w].id].state = "completed", ![worker[w].id].ended = now]
  BY DEF Advance
<1>2. CASE UNCHANGED job
  BY <1>2
<1>3. CASE job' = [job EXCEPT ![worker[w].id].state = "completed", ![worker[w].id].ended = now]
  BY <1>0, <1>3 DEF SchedulesInv, Types, JobRecord
<1> QED
  BY <1>1, <1>2, <1>3

LEMMA NextAtMidnight == ASSUME SchedulesInv, Midnights, Next PROVE Midnights'
<1>1. CASE Pass
  <2>1. \A s \in Schedulers : cron'[s].ticks = cron[s].ticks
    BY <1>1 DEF Pass, SchedulesInv, Types
  <2>2. UNCHANGED <<offset, job, collapsed>>
    BY <1>1 DEF Pass
  <2> QED
    BY <2>1, <2>2, JobsAtMidnight
<1>2. CASE SetForward
  BY <1>2 DEF SetForward, Midnights, TicksDistinct
<1>3. ASSUME NEW s \in Schedulers, Restart(s) PROVE Midnights'
  <2>1. \A q \in Schedulers : cron'[q].ticks \subseteq cron[q].ticks
    BY <1>3 DEF Restart, SchedulesInv, Types
  <2>2. UNCHANGED <<offset, job, collapsed>>
    BY <1>3 DEF Restart
  <2> QED
    BY <2>1, <2>2, JobsAtMidnight
<1>4. ASSUME NEW s \in Schedulers, NEW unit \in Units, Tick(s, unit) PROVE Midnights'
  BY <1>4, TickAtMidnight
<1>5. ASSUME NEW s \in Schedulers, NEW t \in cron[s].ticks, Add(s, t) PROVE Midnights'
  BY <1>5, AddAtMidnight
<1>6. ASSUME NEW s \in Schedulers, NEW t \in cron[s].ticks, AddFails(s, t) PROVE Midnights'
  <2>1. \A q \in Schedulers : cron'[q].ticks \subseteq cron[q].ticks
    BY <1>6 DEF AddFails, SchedulesInv, Types
  <2>2. UNCHANGED <<offset, job, collapsed>>
    BY <1>6 DEF AddFails
  <2> QED
    BY <2>1, <2>2, JobsAtMidnight
<1>7. ASSUME NEW w \in Workers, SelectBatch(w) PROVE Midnights'
  <2>1. UNCHANGED <<cron, offset, job, collapsed>>
    BY <1>7 DEF SelectBatch
  <2> QED
    BY <2>1, JobsAtMidnight
<1>8. ASSUME NEW w \in Workers, DeleteBatch(w) PROVE Midnights'
  <2>1. worker[w].pc # "wait" /\ UNCHANGED <<cron, offset, collapsed>>
    BY <1>8 DEF DeleteBatch
  <2>2. UNCHANGED job \/ \E limit : Advance(w, limit)
    BY <1>8 DEF DeleteBatch
  <2> QED
    BY <2>1, <2>2, AdvanceAtMidnight, JobsAtMidnight
<1>9. ASSUME NEW w \in Workers, DeleteMany(w) PROVE Midnights'
  <2>1. worker[w].pc # "wait" /\ Advance(w, FALSE) /\ UNCHANGED <<cron, offset, collapsed>>
    BY <1>9 DEF DeleteMany
  <2> QED
    BY <2>1, AdvanceAtMidnight, JobsAtMidnight
<1>10. ASSUME NEW w \in Workers, StatementFails(w) PROVE Midnights'
  <2>1. worker[w].pc # "wait" /\ UNCHANGED <<cron, offset, collapsed>>
    BY <1>10 DEF StatementFails
  <2>2. worker[w].id \in Ids /\ job[worker[w].id].state = "active"
    BY <2>1 DEF SchedulesInv, WorkerSound
  <2>3. ASSUME NEW i \in Ids
        PROVE  /\ i # worker[w].id => job'[i] = job[i]
               /\ job'[i].tick = job[i].tick
    <3>1. job[i] \in JobRecord /\ DOMAIN job = Ids
      BY DEF SchedulesInv, Types
    <3> QED
      BY <1>10, <2>2, <3>1 DEF StatementFails, JobRecord
  <2> QED
    BY <2>1, <2>2, <2>3, JobsAtMidnight
<1>11. ASSUME NEW w \in Workers, NEW id \in Ids, Fetch(w, id) PROVE Midnights'
  <2>1. /\ job[id].state = "wait" /\ job' = [job EXCEPT ![id].state = "active"]
        /\ UNCHANGED <<cron, offset, collapsed>>
    BY <1>11 DEF Fetch
  <2>2. \A i \in Ids : /\ i # id => job'[i] = job[i]
                       /\ job'[i].tick = job[i].tick
    BY <2>1 DEF SchedulesInv, Types, JobRecord
  <2> QED
    BY <2>1, <2>2, JobsAtMidnight
<1>12. ASSUME NEW id \in Ids, Forget(id) PROVE Midnights'
  <2>1. UNCHANGED <<cron, offset, collapsed>> /\ job' = [job EXCEPT ![id] = NoJob]
    BY <1>12 DEF Forget
  <2>2. \A i \in Ids : job'[i].state # "none" => job'[i] = job[i]
    BY <2>1 DEF SchedulesInv, Types, NoJob
  <2> QED
    BY <2>1, <2>2, JobsAtMidnight
<1>13. ASSUME NEW h \in left["refresh"], EndSessions(h) PROVE Midnights'
  <2>1. UNCHANGED <<cron, offset, job, collapsed>>
    BY <1>13 DEF EndSessions
  <2> QED
    BY <2>1, JobsAtMidnight
<1> QED
  BY <1>1, <1>2, <1>3, <1>4, <1>5, <1>6, <1>7, <1>8, <1>9, <1>10, <1>11, <1>12, <1>13 DEF Next

\* No tick is taken for the one of another hour, unless local time was set
\* forward, and then only of the daily schedule.
THEOREM TicksStayDistinct == Spec => []TicksDistinct
<1>1. Init => Midnights
  BY DEF Init, Midnights, TicksDistinct, NoJob
<1>2. Midnights /\ UNCHANGED vars => Midnights'
  BY DEF vars, Midnights, TicksDistinct
<1>3. SchedulesInv /\ Midnights /\ [Next]_vars => Midnights'
  BY <1>2, NextAtMidnight
<1>4. Spec => []Midnights
  BY <1>1, <1>3, Invariance, PTL DEF Spec
<1>5. Midnights => TicksDistinct
  BY DEF Midnights
<1> QED
  BY <1>4, <1>5, PTL

-----------------------------------------------------------------------------
(***************************************************************************)
(* A run that completes has cleaned its tables.                            *)
(***************************************************************************)
Remaining(w) == {worker[w].todo[i] : i \in 1 .. Len(worker[w].todo)}

\* What a run is through with is clean, unless it reached its limit or shared, or a
\* batch of the table came up short.
Cleaned(w) ==
  worker[w].pc # "wait" /\ ~worker[w].limit /\ ~worker[w].shared =>
    \A t \in (TablesOf(worker[w].id[1]) \ Remaining(w)) \ worker[w].short :
      Expired(t, worker[w].at) = {}

\* The batch a DELETE has selected is still there, unless another run took it, or
\* another request rows of it.
Picked(w) ==
  worker[w].pc = "delete" =>
    IF worker[w].pick = Null THEN Expired(Head(worker[w].todo), worker[w].at) = {}
    ELSE ~worker[w].shared /\ Head(worker[w].todo) \notin worker[w].short
           => worker[w].pick \in left[Head(worker[w].todo)]

CleanInv == \A w \in Workers : Cleaned(w) /\ Picked(w)

\* Rows are only deleted: what a run has cleaned stays clean.
LEMMA CleanStays ==
  ASSUME SchedulesInv, NEW w \in Workers, Cleaned(w), Picked(w),
         \A t \in Tables : left'[t] \subseteq left[t],
         worker[w].pc # "wait" => left'[Head(worker[w].todo)] = left[Head(worker[w].todo)]
                                    \/ worker[w].shared,
         worker'[w] = worker[w] \/ worker'[w] = [worker[w] EXCEPT !.shared = TRUE]
  PROVE  (Cleaned(w) /\ Picked(w))'
<1>0. worker[w] \in WorkerRecord /\ WorkerSound(w)
  BY DEF SchedulesInv, Types
<1>1. /\ worker'[w].pc = worker[w].pc /\ worker'[w].id = worker[w].id
      /\ worker'[w].at = worker[w].at /\ worker'[w].todo = worker[w].todo
      /\ worker'[w].pick = worker[w].pick /\ worker'[w].limit = worker[w].limit
      /\ worker'[w].short = worker[w].short
      /\ worker[w].shared => worker'[w].shared
  BY <1>0 DEF WorkerRecord
<1>2. ASSUME worker[w].pc # "wait", NEW t \in TablesOf(worker[w].id[1])
      PROVE  (Expired(t, worker[w].at) = {}) => (Expired(t, worker[w].at))' = {}
  <2>1. t \in Tables
    BY <1>0, <1>2, AtWork, StatementLists DEF SchedulesInv
  <2> QED
    BY <1>1, <2>1 DEF Expired
<1>3. Cleaned(w)'
  BY <1>1, <1>2 DEF Cleaned, Remaining
<1>4. Picked(w)'
  <2>1. SUFFICES ASSUME worker[w].pc = "delete"
                 PROVE  Picked(w)'
    BY <1>1 DEF Picked
  <2>2. Head(worker[w].todo) \in TablesOf(worker[w].id[1])
    BY <1>0, <2>1, AtWork DEF SchedulesInv
  <2>3. CASE worker[w].pick = Null
    BY <1>1, <1>2, <2>1, <2>2, <2>3 DEF Picked
  <2>4. CASE worker[w].pick # Null
    BY <1>1, <2>1, <2>4 DEF Picked
  <2> QED
    BY <2>3, <2>4
<1> QED
  BY <1>3, <1>4

\* The tables of another run are not those of a run that shares with nobody.
LEMMA OthersApart ==
  ASSUME SchedulesInv, NEW v \in Workers, NEW w \in Workers, v # w,
         worker[v].pc # "wait", worker[w].pc # "wait", ~worker[v].shared
  PROVE  Head(worker[v].todo) # Head(worker[w].todo)
<1>1. /\ worker[v].id[1] \in Names /\ Head(worker[v].todo) \in TablesOf(worker[v].id[1])
      /\ worker[w].id[1] \in Names /\ Head(worker[w].todo) \in TablesOf(worker[w].id[1])
  BY AtWork DEF SchedulesInv
<1>2. worker[v].id[1] # worker[w].id[1]
  BY DEF SchedulesInv, Apart
<1> QED
  BY <1>1, <1>2, TablesApart

LEMMA OthersClean ==
  ASSUME SchedulesInv, CleanInv, NEW v \in Workers, NEW w \in Workers, v # w,
         worker[w].pc # "wait", worker'[v] = worker[v],
         \A t \in Tables : left'[t] \subseteq left[t],
         \A t \in Tables : t # Head(worker[w].todo) => left'[t] = left[t]
  PROVE  (Cleaned(v) /\ Picked(v))'
<1>1. ASSUME worker[v].pc # "wait", ~worker[v].shared
      PROVE  left'[Head(worker[v].todo)] = left[Head(worker[v].todo)]
  <2>1. Head(worker[v].todo) # Head(worker[w].todo)
    BY <1>1, OthersApart
  <2>2. Head(worker[v].todo) \in Tables
    BY <1>1, AtWork DEF SchedulesInv
  <2> QED
    BY <2>1, <2>2
<1> QED
  BY <1>1, CleanStays DEF CleanInv

\* The first table of a list is the only one that its tail may lack.
LEMMA TailRemains ==
  ASSUME NEW S, NEW seq \in Seq(S), seq # <<>>, NEW i \in 1 .. Len(seq), seq[i] # Head(seq)
  PROVE  Len(seq) > 1 /\ \E j \in 1 .. Len(Tail(seq)) : Tail(seq)[j] = seq[i]
<1>1. /\ Len(Tail(seq)) = Len(seq) - 1
      /\ \A k \in 1 .. Len(Tail(seq)) : Tail(seq)[k] = seq[k + 1]
  BY HeadTailProperties
<1>2. i # 1 /\ Len(seq) \in Nat
  OBVIOUS
<1>3. i - 1 \in 1 .. Len(Tail(seq)) /\ (i - 1) + 1 = i /\ Len(seq) > 1
  BY <1>1, <1>2
<1> QED
  BY <1>1, <1>3

\* A statement is done once none of the rows it is to delete is left.
LEMMA AdvanceCleans ==
  ASSUME SchedulesInv, NEW w \in Workers, worker[w].pc # "wait", Cleaned(w),
         NEW limit \in BOOLEAN, Advance(w, limit),
         \A t \in Tables : left'[t] \subseteq left[t],
         ~limit /\ ~worker[w].limit /\ ~worker[w].shared
             /\ Head(worker[w].todo) \notin worker[w].short =>
           \A h \in left'[Head(worker[w].todo)] :
             ~(h < Cutoff(Head(worker[w].todo), worker[w].at))
  PROVE  (Cleaned(w) /\ Picked(w))'
<1> DEFINE r == worker[w]
<1>0. r \in WorkerRecord /\ worker \in [Workers -> WorkerRecord]
  BY DEF SchedulesInv, Types
<1>1. r.todo \in Seq(TablesOf(r.id[1])) /\ r.todo # <<>> /\ TablesOf(r.id[1]) \subseteq Tables
  <2>1. WorkerSound(w) /\ r.id[1] \in Names
    BY AtWork DEF SchedulesInv
  <2> QED
    BY <2>1, StatementLists DEF WorkerSound
<1>2. CASE Len(r.todo) > 1
  <2>1. /\ worker'[w].pc = "select" /\ worker'[w].todo = Tail(r.todo)
        /\ worker'[w].limit = (r.limit \/ limit)
        /\ worker'[w].id = r.id /\ worker'[w].at = r.at /\ worker'[w].shared = r.shared
        /\ worker'[w].short = r.short
    BY <1>0, <1>2 DEF Advance, WorkerRecord
  <2>2. ASSUME ~r.limit, ~limit, ~r.shared, NEW t \in TablesOf(r.id[1]), t \notin r.short,
               t \notin {Tail(r.todo)[i] : i \in 1 .. Len(Tail(r.todo))}
        PROVE  {h \in left'[t] : h < Cutoff(t, r.at)} = {}
    <3>1. CASE t = Head(r.todo)
      BY <2>2, <3>1
    <3>2. CASE t # Head(r.todo)
      <4>1. t \notin Remaining(w)
        <5> SUFFICES ASSUME NEW i \in 1 .. Len(r.todo), t = r.todo[i]
                     PROVE  FALSE
          BY DEF Remaining
        <5> HIDE DEF r
        <5>1. \E j \in 1 .. Len(Tail(r.todo)) : Tail(r.todo)[j] = r.todo[i]
          BY <1>1, <3>2, TailRemains
        <5> QED
          BY <2>2, <5>1
      <4>2. {h \in left[t] : h < Cutoff(t, r.at)} = {}
        BY <2>2, <4>1 DEF Cleaned, Expired
      <4>3. t \in Tables
        BY <1>1
      <4> QED
        BY <4>2, <4>3
    <3> QED
      BY <3>1, <3>2
  <2>3. Cleaned(w)'
    <3>1. SUFFICES ASSUME ~worker'[w].limit, ~worker'[w].shared,
                          NEW t \in TablesOf(r.id[1]), t \notin r.short,
                          t \notin {Tail(r.todo)[i] : i \in 1 .. Len(Tail(r.todo))}
                   PROVE  {h \in left'[t] : h < Cutoff(t, r.at)} = {}
      BY <2>1 DEF Cleaned, Remaining, Expired
    <3>2. ~r.limit /\ ~limit /\ ~r.shared
      BY <2>1, <3>1
    <3> QED
      BY <2>2, <3>1, <3>2
  <2> QED
    BY <2>1, <2>3 DEF Picked
<1>3. CASE ~(Len(r.todo) > 1)
  <2>1. worker'[w] = Waiting
    BY <1>0, <1>3 DEF Advance
  <2> QED
    BY <2>1 DEF Cleaned, Picked, Waiting
<1> QED
  BY <1>2, <1>3

LEMMA FetchCleans ==
  ASSUME SchedulesInv, CleanInv, NEW w \in Workers, NEW id \in Ids, Fetch(w, id)
  PROVE  CleanInv'
<1>1. /\ UNCHANGED left /\ worker[w].pc = "wait"
      /\ \A v \in Workers : v # w => worker'[v] \in {worker[v], [worker[v] EXCEPT !.shared = TRUE]}
  BY DEF Fetch
<1>2. /\ worker'[w].pc = "select" /\ worker'[w].id = id /\ worker'[w].todo = Statements(id[1])
  BY DEF Fetch, Waiting
<1>3. (Cleaned(w) /\ Picked(w))'
  <2>1. TablesOf(id[1]) \subseteq {Statements(id[1])[i] : i \in 1 .. Len(Statements(id[1]))}
    <3>1. Statements(id[1]) \in Seq(TablesOf(id[1]))
      BY IdParts, StatementLists
    <3> QED
      BY <3>1 DEF TablesOf
  <2> QED
    BY <1>2, <2>1 DEF Cleaned, Picked, Remaining
<1>4. ASSUME NEW v \in Workers, v # w PROVE (Cleaned(v) /\ Picked(v))'
  BY <1>1, <1>4, CleanStays DEF CleanInv
<1> QED
  BY <1>3, <1>4 DEF CleanInv

LEMMA SelectBatchCleans ==
  ASSUME SchedulesInv, CleanInv, NEW w \in Workers, SelectBatch(w)
  PROVE  CleanInv'
<1> DEFINE table == Head(worker[w].todo)
           rows == Expired(table, worker[w].at)
           pick == IF rows = {} THEN Null ELSE Min(rows)
<1>0. worker[w] \in WorkerRecord /\ WorkerSound(w)
  BY DEF SchedulesInv, Types
<1>1. /\ worker[w].pc = "select" /\ worker' = [worker EXCEPT ![w].pc = "delete", ![w].pick = pick]
      /\ UNCHANGED left
  BY DEF SelectBatch
<1>2. rows \in SUBSET Nat /\ rows \subseteq left[table]
  <2>1. left[table] \in SUBSET Nat
    BY <1>0, <1>1, AtWork DEF SchedulesInv, Types
  <2> QED
    BY <2>1 DEF Expired
<1>3. pick = Null => rows = {}
  BY <1>2, MinIsIn, ScheduleAssumption
<1>4. pick # Null => pick \in left[table]
  BY <1>2, MinIsIn
<1>5. /\ worker'[w].pc = "delete" /\ worker'[w].pick = pick
      /\ worker'[w].id = worker[w].id /\ worker'[w].at = worker[w].at
      /\ worker'[w].todo = worker[w].todo /\ worker'[w].limit = worker[w].limit
      /\ worker'[w].shared = worker[w].shared /\ worker'[w].short = worker[w].short
  <2> HIDE DEF pick
  <2> QED
    BY <1>0, <1>1 DEF SchedulesInv, Types, WorkerRecord
<1>6. \A v \in Workers : v # w => worker'[v] = worker[v]
  BY <1>1 DEF SchedulesInv, Types
<1>7. Cleaned(w)'
  BY <1>1, <1>5 DEF CleanInv, Cleaned, Remaining, Expired
<1>8. Picked(w)'
  <2>1. rows = {} <=> (Expired(table, worker[w].at))' = {}
    BY <1>1, <1>5 DEF Expired
  <2> HIDE DEF pick
  <2> QED
    BY <1>1, <1>3, <1>4, <1>5 DEF Picked, Expired
<1>9. ASSUME NEW v \in Workers, v # w PROVE (Cleaned(v) /\ Picked(v))'
  BY <1>1, <1>6, <1>9, CleanStays DEF CleanInv
<1> QED
  BY <1>7, <1>8, <1>9 DEF CleanInv

\* A DELETE takes no row that another run, of another job, has selected.
LEMMA DeleteBatchCleans ==
  ASSUME SchedulesInv, CleanInv, NEW w \in Workers, DeleteBatch(w)
  PROVE  CleanInv'
<1> DEFINE r == worker[w]
           full == r.pick \in left[Head(r.todo)] /\ Head(r.todo) \notin r.short
<1>0. /\ r.pc = "delete" /\ r \in WorkerRecord /\ worker \in [Workers -> WorkerRecord]
      /\ left \in [Tables -> SUBSET Nat]
  BY DEF DeleteBatch, SchedulesInv, Types
<1>1. left' = [left EXCEPT ![Head(r.todo)] = @ \ {r.pick}]
  BY DEF DeleteBatch
<1>2. \/ Advance(w, full)
      \/ worker' = [worker EXCEPT ![w].pc = "select", ![w].batch = r.batch + 1]
  BY DEF DeleteBatch
<1>3. /\ \A t \in Tables : left'[t] \subseteq left[t]
      /\ \A t \in Tables : t # Head(r.todo) => left'[t] = left[t]
  BY <1>0, <1>1
<1>4. \A v \in Workers : v # w => worker'[v] = worker[v]
  BY <1>0, <1>2 DEF Advance
<1>5. ASSUME NEW v \in Workers, v # w PROVE (Cleaned(v) /\ Picked(v))'
  BY <1>0, <1>3, <1>4, <1>5, OthersClean
<1>6. (Cleaned(w) /\ Picked(w))'
  <2>1. CASE Advance(w, full)
    <3>1. ASSUME ~full, ~r.shared, Head(r.todo) \notin r.short
          PROVE  \A h \in left'[Head(r.todo)] : ~(h < Cutoff(Head(r.todo), r.at))
      <4>1. Expired(Head(r.todo), r.at) = {}
        BY <1>0, <3>1 DEF CleanInv, Picked
      <4>2. left'[Head(r.todo)] \subseteq left[Head(r.todo)]
        BY <1>0, <1>3, AtWork DEF SchedulesInv
      <4> QED
        BY <4>1, <4>2 DEF Expired
    <3>2. full \in BOOLEAN /\ Cleaned(w) /\ r.pc # "wait"
      BY <1>0 DEF CleanInv
    <3> HIDE DEF full
    <3> QED
      BY <1>3, <2>1, <3>1, <3>2, AdvanceCleans
  <2>2. CASE worker' = [worker EXCEPT ![w].pc = "select", ![w].batch = r.batch + 1]
    <3>1. /\ worker'[w].pc = "select"
          /\ worker'[w].id = r.id /\ worker'[w].at = r.at
          /\ worker'[w].todo = r.todo /\ worker'[w].limit = r.limit
          /\ worker'[w].shared = r.shared /\ worker'[w].short = r.short
      BY <1>0, <2>2 DEF WorkerRecord
    <3>2. \A t \in TablesOf(r.id[1]) : t \in Tables
      BY <1>0, AtWork, StatementLists DEF SchedulesInv
    <3>3. ASSUME ~r.limit, ~r.shared,
                 NEW t \in (TablesOf(r.id[1]) \ Remaining(w)) \ r.short
          PROVE  {h \in left'[t] : h < Cutoff(t, r.at)} = {}
      <4>1. {h \in left[t] : h < Cutoff(t, r.at)} = {}
        BY <1>0, <3>3 DEF CleanInv, Cleaned, Expired
      <4> QED
        BY <4>1, <3>2, <3>3, <1>3
    <3> QED
      BY <3>1, <3>3 DEF Cleaned, Picked, Remaining, Expired
  <2> QED
    BY <1>2, <2>1, <2>2
<1> QED
  BY <1>5, <1>6 DEF CleanInv

\* Rows that others take leave a clean table clean, and make the batches short that
\* they were selected for.
LEMMA EndSessionsCleans ==
  ASSUME SchedulesInv, CleanInv, NEW h, EndSessions(h)
  PROVE  CleanInv'
<1> SUFFICES ASSUME NEW w \in Workers PROVE (Cleaned(w) /\ Picked(w))'
  BY DEF CleanInv
<1> DEFINE r == worker[w]
<1>0. /\ r \in WorkerRecord /\ Cleaned(w) /\ Picked(w)
      /\ left \in [Tables -> SUBSET Nat]
  BY DEF SchedulesInv, CleanInv, Types
<1>1. PICK gone \in {{}, {h}} : left' = [left EXCEPT !["refresh"] = @ \ gone]
  BY DEF EndSessions
<1>2. /\ \A t \in Tables : left'[t] \subseteq left[t]
      /\ \A t \in Tables : t # "refresh" => left'[t] = left[t]
      /\ \A t \in Tables : \A x \in left[t] : x # h => x \in left'[t]
  BY <1>0, <1>1
<1>3. /\ worker'[w].pc = r.pc /\ worker'[w].id = r.id /\ worker'[w].at = r.at
      /\ worker'[w].todo = r.todo /\ worker'[w].pick = r.pick /\ worker'[w].limit = r.limit
      /\ worker'[w].shared = r.shared /\ r.short \subseteq worker'[w].short
  BY EndSessionsWorkers
<1>4. ASSUME r.pc = "delete", Head(r.todo) = "refresh", r.pick = h
      PROVE  "refresh" \in worker'[w].short
  <2>1. worker'[w] = [r EXCEPT !.short = @ \cup {"refresh"}]
    BY <1>4 DEF EndSessions
  <2> QED
    BY <1>0, <2>1 DEF WorkerRecord
<1>5. ASSUME r.pc # "wait", NEW t \in TablesOf(r.id[1]), Expired(t, r.at) = {}
      PROVE  {e \in left'[t] : e < Cutoff(t, r.at)} = {}
  <2>1. t \in Tables
    BY <1>5, AtWork, StatementLists DEF SchedulesInv
  <2>2. {e \in left[t] : e < Cutoff(t, r.at)} = {}
    BY <1>5 DEF Expired
  <2>3. left'[t] \subseteq left[t]
    BY <1>2, <2>1
  <2> QED
    BY <2>2, <2>3
<1>6. Cleaned(w)'
  <2> SUFFICES ASSUME r.pc # "wait", ~r.limit, ~r.shared,
                      NEW t \in TablesOf(r.id[1]), t \notin Remaining(w), t \notin r.short
               PROVE  {e \in left'[t] : e < Cutoff(t, r.at)} = {}
    BY <1>3 DEF Cleaned, Remaining, Expired
  <2> QED
    BY <1>0, <1>5 DEF Cleaned
<1>7. Picked(w)'
  <2>1. SUFFICES ASSUME r.pc = "delete" PROVE Picked(w)'
    BY <1>3 DEF Picked
  <2>2. Head(r.todo) \in TablesOf(r.id[1]) /\ Head(r.todo) \in Tables
    BY <2>1, AtWork DEF SchedulesInv
  <2>3. CASE r.pick = Null
    <3>1. {e \in left'[Head(r.todo)] : e < Cutoff(Head(r.todo), r.at)} = {}
      BY <1>0, <1>5, <2>1, <2>2, <2>3 DEF Picked
    <3> QED
      BY <1>3, <2>1, <2>3, <3>1 DEF Picked, Expired
  <2>4. CASE r.pick # Null
    <3>1. ASSUME ~r.shared, Head(r.todo) \notin worker'[w].short
          PROVE  r.pick \in left'[Head(r.todo)]
      <4>1. r.pick \in left[Head(r.todo)]
        BY <1>0, <1>3, <2>1, <2>4, <3>1 DEF Picked
      <4>2. Head(r.todo) # "refresh" \/ r.pick # h
        BY <1>4, <2>1, <3>1
      <4>3. /\ Head(r.todo) # "refresh" => left'[Head(r.todo)] = left[Head(r.todo)]
            /\ \A x \in left[Head(r.todo)] : x # h => x \in left'[Head(r.todo)]
        BY <1>2, <2>2
      <4> QED
        BY <4>1, <4>2, <4>3, Zenon
    <3> QED
      BY <1>3, <2>1, <2>4, <3>1 DEF Picked
  <2> QED
    BY <2>3, <2>4
<1> QED
  BY <1>6, <1>7

LEMMA DeleteManyCleans ==
  ASSUME SchedulesInv, CleanInv, NEW w \in Workers, DeleteMany(w)
  PROVE  CleanInv'
<1> DEFINE r == worker[w]
<1>0. /\ r.pc = "select" /\ r \in WorkerRecord /\ worker \in [Workers -> WorkerRecord]
      /\ left \in [Tables -> SUBSET Nat]
  BY DEF DeleteMany, SchedulesInv, Types
<1>1. /\ left' = [left EXCEPT ![Head(r.todo)] = @ \ Expired(Head(r.todo), r.at)]
      /\ Advance(w, FALSE)
  BY DEF DeleteMany
<1>2. Head(r.todo) \in Tables
  BY <1>0, AtWork DEF SchedulesInv
<1>3. /\ \A t \in Tables : left'[t] \subseteq left[t]
      /\ \A t \in Tables : t # Head(r.todo) => left'[t] = left[t]
      /\ \A h \in left'[Head(r.todo)] : ~(h < Cutoff(Head(r.todo), r.at))
  BY <1>0, <1>1, <1>2 DEF Expired
<1>4. \A v \in Workers : v # w => worker'[v] = worker[v]
  BY <1>0, <1>1 DEF Advance
<1>5. ASSUME NEW v \in Workers, v # w PROVE (Cleaned(v) /\ Picked(v))'
  BY <1>0, <1>3, <1>4, <1>5, OthersClean
<1>6. (Cleaned(w) /\ Picked(w))'
  BY <1>0, <1>1, <1>3, AdvanceCleans DEF CleanInv
<1> QED
  BY <1>5, <1>6 DEF CleanInv

LEMMA NextCleans == ASSUME SchedulesInv, CleanInv, Next PROVE CleanInv'
<1>1. ASSUME UNCHANGED <<worker, left>> PROVE CleanInv'
  BY <1>1 DEF CleanInv, Cleaned, Picked, Remaining, Expired
<1>2. CASE Pass \/ SetForward
  BY <1>1, <1>2 DEF Pass, SetForward
<1>3. ASSUME NEW s \in Schedulers, Restart(s) \/ \E unit \in Units : Tick(s, unit) PROVE CleanInv'
  BY <1>1, <1>3 DEF Restart, Tick
<1>4. ASSUME NEW s \in Schedulers, NEW t \in cron[s].ticks, Add(s, t) \/ AddFails(s, t)
      PROVE  CleanInv'
  BY <1>1, <1>4 DEF Add, AddFails
<1>5. ASSUME NEW w \in Workers, SelectBatch(w) PROVE CleanInv'
  BY <1>5, SelectBatchCleans
<1>6. ASSUME NEW w \in Workers, DeleteBatch(w) PROVE CleanInv'
  BY <1>6, DeleteBatchCleans
<1>7. ASSUME NEW w \in Workers, DeleteMany(w) PROVE CleanInv'
  BY <1>7, DeleteManyCleans
<1>8. ASSUME NEW w \in Workers, StatementFails(w) PROVE CleanInv'
  <2>1. worker' = [worker EXCEPT ![w] = Waiting] /\ UNCHANGED left
    BY <1>8 DEF StatementFails
  <2>2. worker'[w] = Waiting /\ \A v \in Workers : v # w => worker'[v] = worker[v]
    BY <2>1 DEF SchedulesInv, Types
  <2>3. (Cleaned(w) /\ Picked(w))'
    BY <2>2 DEF Cleaned, Picked, Waiting
  <2>4. ASSUME NEW v \in Workers, v # w PROVE (Cleaned(v) /\ Picked(v))'
    BY <2>1, <2>2, <2>4, CleanStays DEF CleanInv
  <2> QED
    BY <2>3, <2>4 DEF CleanInv
<1>9. ASSUME NEW w \in Workers, NEW id \in Ids, Fetch(w, id) PROVE CleanInv'
  BY <1>9, FetchCleans
<1>10. ASSUME NEW id \in Ids, Forget(id) PROVE CleanInv'
  BY <1>1, <1>10 DEF Forget
<1>11. ASSUME NEW h \in left["refresh"], EndSessions(h) PROVE CleanInv'
  BY <1>11, EndSessionsCleans
<1> QED
  BY <1>2, <1>3, <1>4, <1>5, <1>6, <1>7, <1>8, <1>9, <1>10, <1>11 DEF Next

\* Only a worker's own last statement completes its job.
LEMMA OnlyAdvanceCompletes ==
  ASSUME SchedulesInv, Next, NEW w \in Workers, worker[w].id # Null,
         runs'[worker[w].id] > runs[worker[w].id], worker'[w].id = Null
  PROVE  /\ Len(worker[w].todo) <= 1 /\ worker[w].pc # "wait"
         /\ DeleteBatch(w) \/ DeleteMany(w)
<1>0. /\ worker[w].pc # "wait" /\ worker[w].id \in Ids /\ runs \in [Ids -> Nat]
      /\ worker \in [Workers -> WorkerRecord] /\ Len(worker[w].todo) \in Nat
  BY AtWork DEF SchedulesInv, WorkerSound, Types, Waiting
<1>1. ~UNCHANGED runs
  BY <1>0
<1>2. PICK v \in Workers : DeleteBatch(v) \/ DeleteMany(v)
  BY <1>1 DEF Next, Pass, SetForward, Restart, Tick, Add, AddFails, SelectBatch, StatementFails,
              Fetch, Forget, EndSessions
<1>3. v = w
  <2>1. \A u \in Workers : u # v => worker'[u] = worker[u]
    BY <1>0, <1>2 DEF DeleteBatch, DeleteMany, Advance
  <2> QED
    BY <2>1
<1>4. \E limit : Advance(w, limit)
  BY <1>1, <1>2, <1>3 DEF DeleteBatch, DeleteMany
<1>5. Len(worker[w].todo) <= 1
  BY <1>0, <1>1, <1>4 DEF Advance
<1> QED
  BY <1>0, <1>2, <1>3, <1>5

\* The statement that ends a run, not at its limit, has deleted what it was to.
LEMMA LastStatementCleans ==
  ASSUME SchedulesInv, CleanInv, NEW w \in Workers, worker[w].pc # "wait",
         DeleteBatch(w) \/ DeleteMany(w), worker'[w].id # worker[w].id,
         worker[w].shared = FALSE,
         worker[w].batch + 1 # MaxBatches \/ worker[w].pick = Null
  PROVE  /\ \A t \in Tables : left'[t] \subseteq left[t]
         /\ Head(worker[w].todo) \notin worker[w].short =>
              \A h \in left'[Head(worker[w].todo)] :
                ~(h < Cutoff(Head(worker[w].todo), worker[w].at))
<1> DEFINE r == worker[w]
<1>1. /\ r \in WorkerRecord /\ worker \in [Workers -> WorkerRecord]
      /\ left \in [Tables -> SUBSET Nat]
  BY DEF SchedulesInv, Types
<1>2. Head(r.todo) \in Tables
  BY AtWork DEF SchedulesInv
<1>3. CASE DeleteMany(w)
  <2>1. left' = [left EXCEPT ![Head(r.todo)] = @ \ Expired(Head(r.todo), r.at)]
    BY <1>3 DEF DeleteMany
  <2> QED
    BY <1>1, <1>2, <2>1 DEF Expired
<1>4. CASE DeleteBatch(w)
  <2>1. left' = [left EXCEPT ![Head(r.todo)] = @ \ {r.pick}] /\ r.pc = "delete"
    BY <1>4 DEF DeleteBatch
  <2>2. ASSUME Head(r.todo) \notin r.short
        PROVE  r.pick = Null \/ r.pick \notin left[Head(r.todo)]
    <3>1. ASSUME r.pick \in left[Head(r.todo)], r.pick # Null
          PROVE  worker' = [worker EXCEPT ![w].pc = "select", ![w].batch = r.batch + 1]
      BY <1>4, <2>2, <3>1 DEF DeleteBatch
    <3>2. ASSUME worker' = [worker EXCEPT ![w].pc = "select", ![w].batch = r.batch + 1]
          PROVE  worker'[w].id = r.id
      BY <1>1, <3>2 DEF WorkerRecord
    <3> QED
      BY <3>1, <3>2
  <2>3. Head(r.todo) \notin r.short => Expired(Head(r.todo), r.at) = {}
    BY <2>1, <2>2 DEF CleanInv, Picked
  <2> QED
    BY <1>1, <1>2, <2>1, <2>3 DEF Expired
<1> QED
  BY <1>3, <1>4

LEMMA CompletionCleans ==
  ASSUME SchedulesInv, CleanInv, Next, NEW w \in Workers, worker[w].id # Null,
         runs'[worker[w].id] > runs[worker[w].id], worker'[w].id = Null,
         ~worker[w].limit, ~worker[w].shared,
         worker[w].batch + 1 < MaxBatches \/ worker[w].pick = Null,
         NEW t \in TablesOf(worker[w].id[1]), t \notin worker[w].short, NEW h \in left'[t]
  PROVE  h >= Cutoff(t, worker[w].at)
<1>1. /\ Len(worker[w].todo) <= 1 /\ worker[w].pc # "wait"
      /\ DeleteBatch(w) \/ DeleteMany(w)
  BY OnlyAdvanceCompletes
<1>2. worker[w] \in WorkerRecord /\ WorkerSound(w) /\ Cleaned(w) /\ left \in [Tables -> SUBSET Nat]
  BY DEF SchedulesInv, Types, CleanInv
<1>3. /\ worker[w].shared = FALSE
      /\ worker[w].batch + 1 # MaxBatches \/ worker[w].pick = Null
  BY <1>2, ScheduleAssumption DEF WorkerRecord
<1>4. /\ \A u \in Tables : left'[u] \subseteq left[u]
      /\ t = Head(worker[w].todo) =>
           \A e \in left'[t] : ~(e < Cutoff(t, worker[w].at))
  BY <1>1, <1>3, LastStatementCleans
<1>5. /\ worker[w].at \in Nat /\ worker[w].id[1] \in Names
      /\ worker[w].todo \in Seq(TablesOf(worker[w].id[1])) /\ Len(worker[w].todo) # 0
  <2>1. Len(worker[w].todo) \in Nat \ {0}
    BY <1>1, <1>2, AtWork, Zenon DEF SchedulesInv
  <2>2. /\ worker[w].at \in Nat /\ worker[w].id[1] \in Names
        /\ worker[w].todo \in Seq(TablesOf(worker[w].id[1]))
    BY <1>1, <1>2, AtWork, Zenon DEF SchedulesInv
  <2> QED
    BY <2>1, <2>2
<1>6. t \in Tables
  BY <1>5, StatementLists
<1>7. ~(h < Cutoff(t, worker[w].at))
  <2>1. CASE t = Head(worker[w].todo)
    BY <1>4, <2>1
  <2>2. CASE t # Head(worker[w].todo)
    <3>1. t \notin Remaining(w)
      BY <1>1, <1>5, <2>2, OnlyHead DEF Remaining
    <3>2. Expired(t, worker[w].at) = {}
      BY <1>1, <1>2, <3>1, Zenon DEF Cleaned
    <3> QED
      BY <1>4, <1>6, <3>2 DEF Expired
  <2> QED
    BY <2>1, <2>2
<1>8. h \in Nat
  BY <1>2, <1>4, <1>6
<1>9. Cutoff(t, worker[w].at) \in Int
  BY <1>5, CutoffIsHour
<1> QED
  BY <1>7, <1>8, <1>9

\* A run that completes leaves no row behind that had expired when it started,
\* also after failed attempts, unless it reached the limit of its batches, another
\* run of the same job was at work meanwhile, or, in the table of refresh tokens,
\* another request took rows of a batch that the run had selected.
THEOREM CompletedRunsAreClean == Spec => CompletedIsClean
<1>1. Init => CleanInv
  BY DEF Init, CleanInv, Cleaned, Picked, Waiting
<1>2. CleanInv /\ UNCHANGED vars => CleanInv'
  BY DEF vars, CleanInv, Cleaned, Picked, Remaining, Expired
<1>3. SchedulesInv /\ CleanInv /\ [Next]_vars => CleanInv'
  BY <1>2, NextCleans
<1>4. Spec => []CleanInv
  BY <1>1, <1>3, Invariance, PTL DEF Spec
<1> DEFINE A == \A w \in Workers :
       worker[w].id # Null /\ runs'[worker[w].id] > runs[worker[w].id]
         /\ worker'[w].id = Null /\ ~worker[w].limit /\ ~worker[w].shared
         /\ (worker[w].batch + 1 < MaxBatches \/ worker[w].pick = Null)
         => \A t \in TablesOf(worker[w].id[1]) \ worker[w].short :
              \A h \in left'[t] : h >= Cutoff(t, worker[w].at)
<1>5. SchedulesInv /\ CleanInv /\ [Next]_vars => [A]_vars
  BY CompletionCleans
<1>6. CompletedIsClean <=> [][A]_vars
  BY DEF CompletedIsClean
<1> HIDE DEF A
<1> QED
  BY <1>4, <1>5, <1>6, Invariance, PTL DEF Spec

==============================================================================
