--------------------------- MODULE MailDeliveryProofs ---------------------------
(***************************************************************************)
(* Proofs about MailDelivery, for any number of rows, operators and        *)
(* editors, and whatever an editor sends: a stored template can be sent,   *)
(* so every mail is complete; jobs, letters and stamps go together, so a   *)
(* dead letter is re-driven once.                                          *)
(***************************************************************************)
EXTENDS MailDelivery, FiniteSetTheorems, FunctionTheorems, TLAPS

Fields == {"subject", "body", "isActive"}

Sound(key, t) ==
  /\ DOMAIN t = Fields
  /\ t.subject \subseteq Allowed(key) /\ t.body \subseteq Allowed(key)
  /\ Required(key) \subseteq t.body

\* What an editor is about to write is sound field by field, so that it stays
\* sound whatever the row has become.
SoundEdit(key, data) ==
  /\ "subject" \in DOMAIN data => data.subject \subseteq Allowed(key)
  /\ "body" \in DOMAIN data => data.body \subseteq Allowed(key) /\ Required(key) \subseteq data.body

Seeded == template # Null \/ \E e \in Editors : editor[e] # Null

TemplatesInv ==
  /\ kind \in Kinds
  /\ editor \in [Editors -> {editor[e] : e \in Editors}]
  /\ Seeded => Sound(kind, template)
  /\ \A e \in Editors : editor[e] # Null => SoundEdit(kind, editor[e])

-----------------------------------------------------------------------------
(***************************************************************************)
(* The catalog and the editor.                                             *)
(***************************************************************************)
LEMMA BuiltInSound == \A key \in Kinds : Sound(key, BuiltIn(key))
  BY KindsAssumption DEF Sound, Fields, BuiltIn, Allowed, Variables, Required, GLOBAL_TEMPLATE_VARIABLES

LEMMA AllowedProvided == \A key \in Kinds : Allowed(key) = Provided(key)
  BY KindsAssumption DEF Allowed, Provided, Variables, GLOBAL_TEMPLATE_VARIABLES

LEMMA NoProblems ==
  ASSUME NEW key, NEW t
  PROVE  TemplateProblems(key, t) = {} <=>
           /\ t.subject \subseteq Allowed(key) /\ t.body \subseteq Allowed(key)
           /\ Required(key) \subseteq t.body
  BY DEF TemplateProblems

LEMMA MergedSound ==
  ASSUME NEW key, NEW t, Sound(key, t), NEW data, SoundEdit(key, data)
  PROVE  Sound(key, Merged(t, data))
  BY DEF Sound, SoundEdit, Merged, Fields

LEMMA CheckedSound ==
  ASSUME NEW key, NEW t, Sound(key, t), NEW data, TemplateProblems(key, Merged(t, data)) = {}
  PROVE  SoundEdit(key, data)
<1>1. /\ Merged(t, data).subject \subseteq Allowed(key) /\ Merged(t, data).body \subseteq Allowed(key)
      /\ Required(key) \subseteq Merged(t, data).body
  BY NoProblems
<1>2. "subject" \in DOMAIN data => Merged(t, data).subject = data.subject
  BY DEF Sound, Merged, Fields
<1>3. "body" \in DOMAIN data => Merged(t, data).body = data.body
  BY DEF Sound, Merged, Fields
<1> QED  BY <1>1, <1>2, <1>3 DEF SoundEdit

LEMMA TemplatesStep ==
  ASSUME TemplatesInv, TemplatesNext
  PROVE  TemplatesInv'
<1>1. CASE Seed
  <2>1. Sound(kind, BuiltIn(kind))  BY BuiltInSound DEF TemplatesInv
  <2> QED  BY <1>1, <2>1 DEF Seed, TemplatesInv, Seeded
<1>2. ASSUME NEW e \in Editors, WriteEdit(e)
      PROVE  TemplatesInv'
  <2>1. Sound(kind, template) /\ SoundEdit(kind, editor[e])
    BY <1>2 DEF WriteEdit, TemplatesInv, Seeded
  <2>2. Sound(kind, Merged(template, editor[e]))  BY <2>1, MergedSound
  <2>3. Sound(kind', template')  BY <1>2, <2>1, <2>2 DEF WriteEdit
  <2>4. editor' = [editor EXCEPT ![e] = Null] /\ kind' = kind  BY <1>2 DEF WriteEdit
  <2> QED  BY <2>3, <2>4 DEF TemplatesInv
<1>3. ASSUME NEW e \in Editors, NEW data \in Edits, CheckEdit(e, data)
      PROVE  TemplatesInv'
  <2>1. template' = template /\ kind' = kind  BY <1>3 DEF CheckEdit
  <2>2. CASE editor' = editor  BY <2>1, <2>2 DEF TemplatesInv, Seeded
  <2>3. CASE editor' # editor
    <3>1. /\ template # Null
          /\ TemplateProblems(kind, Merged(template, Sanitized(data))) = {}
          /\ editor' = [editor EXCEPT ![e] = Sanitized(data)]
      BY <1>3, <2>3 DEF CheckEdit
    <3>2. Sound(kind, template)  BY <3>1 DEF TemplatesInv, Seeded
    <3>3. SoundEdit(kind, Sanitized(data))  BY <3>1, <3>2, CheckedSound
    <3> QED  BY <2>1, <3>1, <3>2, <3>3 DEF TemplatesInv
  <2> QED  BY <2>2, <2>3
<1> QED  BY <1>1, <1>2, <1>3 DEF TemplatesNext

-----------------------------------------------------------------------------
(***************************************************************************)
(* The inductive invariant: a sound template and complete mails; rows,     *)
(* jobs, letters and stamps that go together.  Beyond TypeOK it says that  *)
(* only recorded rows are queued, that operators hold letters, that a job  *)
(* removed after a final failure leaves room for the next letter, and that *)
(* no two letters are stamped with the same row.                           *)
(***************************************************************************)
MailInv ==
  /\ fate \in [Rows -> {"none", "open", "published", "failed"}]
  /\ queued \subseteq {r \in Rows : fate[r] # "none"}
  /\ job \in [Rows -> {"none", "wait", "completed", "failed"}]
  /\ marked \subseteq Rows
  /\ letter \in [Letters -> {"none", "kept", "pruned"}]
  /\ redriven \in [Letters -> Rows \cup {Null}]
  /\ op \in [Operators -> Letters \cup {Null}]
  /\ origin \in [Rows -> Rows \cup {Null}]
  /\ fails \in [Rows -> Nat] /\ again \in [Rows -> Nat]
  /\ \A r \in Rows : job[r] = "none" /\ fails[r] > again[r] => again[r] < MaxAgain
  /\ TypeOK

Distinct == \A l, m \in Letters : l # m /\ redriven[l] # Null => redriven[l] # redriven[m]

IInv == TemplatesInv /\ MailInv /\ Distinct /\ flawed = {}

LEMMA LetterIn == \A r \in Rows : <<r, 0>> \in Letters
  BY DeliveryAssumption DEF Letters

LEMMA LetterOf ==
  \A l \in Letters : l[1] \in Rows /\ l[2] \in 0 .. MaxAgain + 1 /\ l = <<l[1], l[2]>>
  BY DEF Letters

\* A job that is not at an end has room for the letter of its next failure.
LEMMA LatestIn ==
  ASSUME MailInv, NEW r \in Rows, job[r] = "wait"
  PROVE  /\ LatestLetter(r) \in Letters /\ LatestLetter(r) = <<r, fails[r] + 1>>
         /\ fails[r] = again[r] /\ fails[r] \in Nat /\ r \in queued
<1>1. /\ fails[r] = again[r] /\ fails[r] \in Nat /\ again[r] <= MaxAgain /\ r \in queued
  BY DEF MailInv, TypeOK
<1> QED  BY <1>1, DeliveryAssumption DEF LatestLetter, Letters

\* A letter that was ever written is about a recorded row.
LEMMA LetterOrigin ==
  ASSUME MailInv, NEW l \in Letters, letter[l] # "none"
  PROVE  l[1] \in Rows /\ fate[l[1]] # "none" /\ origin[l[1]] # Null
<1>1. l[1] \in Rows /\ l[2] \in 0 .. MaxAgain + 1  BY LetterOf
<1>2. CASE l[2] = 0  BY <1>1, <1>2 DEF MailInv, TypeOK
<1>3. CASE l[2] # 0
  <2>1. fails[l[1]] > 0  BY <1>1, <1>3, DeliveryAssumption DEF MailInv, TypeOK
  <2>2. l[1] \in queued  BY <1>1, <2>1 DEF MailInv, TypeOK
  <2> QED  BY <1>1, <2>2 DEF MailInv, TypeOK
<1> QED  BY <1>2, <1>3

LEMMA InitInv == Init => IInv
<1> SUFFICES ASSUME Init PROVE IInv  OBVIOUS
<1>1. TemplatesInv  BY DEF Init, TemplatesInit, TemplatesInv, Seeded
<1>2. MailInv  BY LetterOf, DeliveryAssumption DEF Init, IntentInit, MailInv, TypeOK
<1>3. Distinct  BY DEF Init, Distinct
<1> QED  BY <1>1, <1>2, <1>3 DEF Init, IInv

\* Every mail is rendered from a sound template, with all its variables.
LEMMA NothingFlawed ==
  ASSUME TemplatesInv
  PROVE  ~Flawed(Rendered)
<1> DEFINE source == IF template # Null /\ template.isActive THEN template ELSE BuiltIn(kind)
<1>1. Sound(kind, source)
  <2>1. Sound(kind, BuiltIn(kind))  BY BuiltInSound DEF TemplatesInv
  <2>2. template # Null => Sound(kind, template)  BY DEF TemplatesInv, Seeded
  <2> QED  BY <2>1, <2>2
<1>2. Allowed(kind) = Provided(kind)  BY AllowedProvided DEF TemplatesInv
<1> HIDE DEF source
<1>3. Rendered = [shown |-> source.body \cap Provided(kind),
                  raw |-> (source.subject \ Provided(kind)) \cup (source.body \ Provided(kind))]
  BY DEF Rendered, Substitute, source
<1>4. Rendered.raw = {} /\ Required(kind) \subseteq Rendered.shown
  BY <1>1, <1>2, <1>3 DEF Sound
<1> QED  BY <1>4 DEF Flawed

LEMMA AcceptedWhole ==
  ASSUME IInv, NEW r \in Rows, Accepted(r)
  PROVE  flawed' = {}
  BY NothingFlawed DEF Accepted, IInv

-----------------------------------------------------------------------------
(***************************************************************************)
(* The steps.                                                              *)
(***************************************************************************)
LEMMA OutboxSteps ==
  ASSUME MailInv, NEW r \in Rows,
         Enqueue(r) \/ AddEmailJob(r) \/ MarkPublished(r) \/ MarkFailed(r)
  PROVE  MailInv'
<1>1. CASE Enqueue(r)
  BY <1>1, DeliveryAssumption, LetterIn, LetterOf
     DEF Enqueue, Record, MailInv, TypeOK
<1>2. CASE AddEmailJob(r)
  <2>1. /\ job' = [job EXCEPT ![r] = IF job[r] = "none" THEN "wait" ELSE job[r]]
        /\ again' = IF job[r] = "none" THEN [again EXCEPT ![r] = fails[r]] ELSE again
        /\ fate[r] # "none" /\ queued' = queued \cup {r}
        /\ UNCHANGED <<fate, marked, letter, redriven, op, origin, fails>>
    BY <1>2 DEF AddEmailJob, AddJob
  <2>2. /\ job' \in [Rows -> {"none", "wait", "completed", "failed"}]
        /\ again' \in [Rows -> Nat]
        /\ queued' \subseteq {n \in Rows : fate'[n] # "none"}
    BY <2>1 DEF MailInv
  <2>3. \A n \in Rows : n # r => job'[n] = job[n] /\ again'[n] = again[n]
    BY <2>1 DEF MailInv
  <2>4. CASE job[r] = "none"
    <3>1. job'[r] = "wait" /\ again'[r] = fails[r]  BY <2>1, <2>4 DEF MailInv
    <3>2. fails[r] <= MaxAgain  BY <2>4, DeliveryAssumption DEF MailInv, TypeOK
    <3> QED  BY <2>1, <2>2, <2>3, <3>1, <3>2 DEF MailInv, TypeOK
  <2>5. CASE job[r] # "none"
    <3>1. job' = job /\ again' = again  BY <2>1, <2>5 DEF MailInv
    <3> QED  BY <2>1, <2>2, <3>1 DEF MailInv, TypeOK
  <2> QED  BY <2>4, <2>5
<1>3. CASE MarkPublished(r)
  BY <1>3, LetterOf DEF MarkPublished, Publish, MailInv, TypeOK, dvars, history
<1>4. CASE MarkFailed(r)
  BY <1>4, LetterIn, LetterOf DEF MarkFailed, GiveUp, MailInv, TypeOK, history
<1> QED  BY <1>1, <1>2, <1>3, <1>4

\* A final failure, and the letter it writes or loses.
LEMMA FailureStep ==
  ASSUME MailInv, NEW r \in Rows, job[r] = "wait", FailsForGood(r),
         UNCHANGED <<ivars, marked, redriven, op, origin, again>>
  PROVE  MailInv'
<1>1. /\ LatestLetter(r) \in Letters /\ LatestLetter(r) = <<r, fails[r] + 1>>
      /\ fails[r] = again[r] /\ fails[r] \in Nat /\ r \in queued
  BY LatestIn
<1>2. /\ job' = [job EXCEPT ![r] = "failed"] /\ fails' = [fails EXCEPT ![r] = fails[r] + 1]
      /\ letter' = letter \/ letter' = [letter EXCEPT ![<<r, fails[r] + 1>>] = "kept"]
  BY <1>1 DEF FailsForGood
<1>3. /\ letter' \in [Letters -> {"none", "kept", "pruned"}]
      /\ \A l \in Letters : l # <<r, fails[r] + 1>> => letter'[l] = letter[l]
      /\ \A l \in Letters : letter[l] # "none" => letter'[l] # "none"
  BY <1>1, <1>2 DEF MailInv
<1>4. \A l \in Letters : letter'[l] # "none" =>
        IF l[2] = 0 THEN fate[l[1]] = "failed" ELSE l[2] <= fails'[l[1]]
  <2> SUFFICES ASSUME NEW l \in Letters, letter'[l] # "none"
               PROVE  IF l[2] = 0 THEN fate[l[1]] = "failed" ELSE l[2] <= fails'[l[1]]
    OBVIOUS
  <2>0. l[1] \in Rows /\ l[2] \in 0 .. MaxAgain + 1  BY LetterOf
  <2>1. fails'[l[1]] >= fails[l[1]] /\ fails[l[1]] \in Nat /\ fails'[l[1]] \in Nat
    BY <1>2, <2>0 DEF MailInv
  <2>2. CASE l = <<r, fails[r] + 1>>
    <3>1. l[1] = r /\ l[2] = fails[r] + 1 /\ fails'[r] = fails[r] + 1
      BY <1>2, <2>2 DEF MailInv
    <3> QED  BY <1>1, <3>1
  <2>3. CASE l # <<r, fails[r] + 1>>
    <3>1. IF l[2] = 0 THEN fate[l[1]] = "failed" ELSE l[2] <= fails[l[1]]
      BY <1>3, <2>3 DEF MailInv, TypeOK
    <3> QED  BY <2>0, <2>1, <3>1, DeliveryAssumption
  <2> QED  BY <2>2, <2>3
<1>5. \A n \in Rows :
        /\ job'[n] = IF n = r THEN "failed" ELSE job[n]
        /\ fails'[n] = IF n = r THEN again[r] + 1 ELSE fails[n]
  BY <1>1, <1>2 DEF MailInv
<1>6. /\ job' \in [Rows -> {"none", "wait", "completed", "failed"}] /\ fails' \in [Rows -> Nat]
      /\ UNCHANGED <<fate, queued, marked, redriven, op, origin, again>>
  BY <1>2 DEF MailInv, ivars
<1>7. TypeOK'
  BY <1>1, <1>3, <1>4, <1>5, <1>6, LetterIn DEF MailInv, TypeOK
<1>8. \A n \in Rows : job'[n] = "none" /\ fails'[n] > again'[n] => again'[n] < MaxAgain
  BY <1>5, <1>6 DEF MailInv
<1> QED  BY <1>3, <1>6, <1>7, <1>8 DEF MailInv

LEMMA AttemptStep ==
  ASSUME MailInv, NEW r \in Rows, job[r] = "wait", AttemptFails(r),
         UNCHANGED <<ivars, marked, redriven, op, origin, again>>
  PROVE  MailInv'
<1>1. CASE UNCHANGED <<job, fails, letter>>
  BY <1>1 DEF MailInv, TypeOK, ivars
<1>2. CASE FailsForGood(r)  BY <1>2, FailureStep
<1> QED  BY <1>1, <1>2 DEF AttemptFails

\* A step that changes a job that is queued, and no failures, and the markers of
\* queued jobs.
LEMMA JobStep ==
  ASSUME MailInv, NEW r \in Rows, r \in queued, fails[r] = again[r],
         job' = job \/ job' = [job EXCEPT ![r] = "completed"],
         marked' \in {marked, marked \cup {r}, marked \ {r}},
         UNCHANGED <<ivars, letter, redriven, op, origin, fails, again>>
  PROVE  MailInv'
  BY DEF MailInv, TypeOK, ivars

LEMMA WorkerSteps ==
  ASSUME MailInv, NEW r \in Rows,
         \/ SendMail(r) \/ SkipSent(r) \/ SendFails(r) \/ SendSlips(r)
         \/ StallsOut(r) \/ MarkerGone(r) \/ ForgetJob(r)
  PROVE  MailInv'
<1>1. CASE SendMail(r)
  BY <1>1, LatestIn, JobStep DEF SendMail
<1>2. CASE SkipSent(r)
  BY <1>2, LatestIn, JobStep DEF SkipSent, history
<1>3. CASE SendFails(r)
  BY <1>3, AttemptStep DEF SendFails
<1>4. CASE SendSlips(r)
  <2>1. CASE AttemptFails(r)
    BY <1>4, <2>1, AttemptStep DEF SendSlips
  <2>2. CASE job' = [job EXCEPT ![r] = "completed"] /\ UNCHANGED <<fails, letter>>
    BY <1>4, <2>2, LatestIn, JobStep DEF SendSlips
  <2> QED  BY <1>4, <2>1, <2>2 DEF SendSlips
<1>5. CASE StallsOut(r)
  BY <1>5, FailureStep DEF StallsOut
<1>6. CASE MarkerGone(r)
  BY <1>6 DEF MarkerGone, MailInv, TypeOK, ivars
<1>7. CASE ForgetJob(r)
  BY <1>7 DEF ForgetJob, MailInv, TypeOK, ivars, history
<1> QED  BY <1>1, <1>2, <1>3, <1>4, <1>5, <1>6, <1>7

\* A re-drive that commits stamps a letter that had no stamp, with a row that was
\* never recorded and so with one that no other letter is stamped with.
LEMMA CommitStamps ==
  ASSUME MailInv, NEW o \in Operators, RedriveCommit(o)
  PROVE  \/ UNCHANGED <<ivars, redriven, origin>>
         \/ \E n \in Rows, m \in Letters :
              /\ letter[m] = "kept" /\ redriven[m] = Null
              /\ Record(n)
              /\ origin' = [origin EXCEPT ![n] = origin[m[1]]]
              /\ redriven' = [redriven EXCEPT ![m] = n]
              /\ m[1] \in Rows /\ fate[m[1]] # "none" /\ origin[m[1]] # Null
              /\ origin[n] = Null /\ n # m[1] /\ \A k \in Letters : redriven[k] # n
<1> SUFFICES ASSUME ~UNCHANGED <<ivars, redriven, origin>>
             PROVE  \E n \in Rows, m \in Letters :
                      /\ letter[m] = "kept" /\ redriven[m] = Null
                      /\ Record(n)
                      /\ origin' = [origin EXCEPT ![n] = origin[m[1]]]
                      /\ redriven' = [redriven EXCEPT ![m] = n]
                      /\ m[1] \in Rows /\ fate[m[1]] # "none" /\ origin[m[1]] # Null
                      /\ origin[n] = Null /\ n # m[1] /\ \A k \in Letters : redriven[k] # n
  OBVIOUS
<1> DEFINE m == op[o]
<1>1. PICK n \in Rows : /\ letter[m] = "kept" /\ redriven[m] = Null
                        /\ Record(n)
                        /\ origin' = [origin EXCEPT ![n] = origin[m[1]]]
                        /\ redriven' = [redriven EXCEPT ![m] = n]
  BY DEF RedriveCommit
<1>2. m \in Letters  BY DEF RedriveCommit, MailInv
<1>3. m[1] \in Rows /\ fate[m[1]] # "none" /\ origin[m[1]] # Null
  BY <1>1, <1>2, LetterOrigin
<1>4. origin[n] = Null /\ n # m[1] /\ \A k \in Letters : redriven[k] # n
  BY <1>1, <1>3, DeliveryAssumption DEF Record, MailInv, TypeOK
<1> HIDE DEF m
<1> QED  BY <1>1, <1>2, <1>3, <1>4

LEMMA CommitStep ==
  ASSUME MailInv, NEW o \in Operators, RedriveCommit(o)
  PROVE  MailInv'
<1>1. UNCHANGED <<job, marked, letter, fails, again>> /\ op' = [op EXCEPT ![o] = Null]
  BY DEF RedriveCommit
<1>2. CASE UNCHANGED <<ivars, redriven, origin>>
  BY <1>1, <1>2 DEF MailInv, TypeOK, ivars
<1>3. ASSUME NEW n \in Rows, NEW m \in Letters,
             letter[m] = "kept", redriven[m] = Null, Record(n),
             origin' = [origin EXCEPT ![n] = origin[m[1]]],
             redriven' = [redriven EXCEPT ![m] = n],
             m[1] \in Rows, fate[m[1]] # "none", origin[m[1]] # Null,
             origin[n] = Null, n # m[1], \A k \in Letters : redriven[k] # n
      PROVE  MailInv'
  BY <1>1, <1>3, LetterIn, LetterOf, LetterOrigin, DeliveryAssumption DEF Record, MailInv, TypeOK
<1> QED  BY <1>2, <1>3, CommitStamps

LEMMA LetterSteps ==
  ASSUME MailInv, NEW l \in Letters,
         PruneLetter(l) \/ \E o \in Operators : RedriveRead(o, l)
  PROVE  MailInv'
<1>1. ASSUME NEW o \in Operators, RedriveRead(o, l)  PROVE MailInv'
  BY <1>1 DEF RedriveRead, MailInv, TypeOK, ivars, history
<1>2. CASE PruneLetter(l)
  BY <1>2 DEF PruneLetter, MailInv, TypeOK, ivars, history
<1> QED  BY <1>1, <1>2

\* No two letters have the same stamp, and what is stamped stays so.
StampsKept ==
  /\ \A l \in Letters : redriven[l] # Null => redriven'[l] = redriven[l]
  /\ Distinct => Distinct'

LEMMA StampsStep ==
  ASSUME MailInv, [Next]_vars
  PROVE  StampsKept
<1>1. CASE redriven' = redriven  BY <1>1 DEF StampsKept, Distinct
<1>2. CASE redriven' # redriven
  <2>1. PICK o \in Operators : RedriveCommit(o)
    BY <1>2 DEF Next, vars, dvars, Enqueue, AddEmailJob, MarkPublished, MarkFailed,
                SendMail, SkipSent, SendFails, SendSlips, StallsOut, MarkerGone, ForgetJob,
                RedriveRead, PruneLetter
  <2>2. PICK n \in Rows, m \in Letters :
             /\ redriven[m] = Null /\ redriven' = [redriven EXCEPT ![m] = n]
             /\ \A k \in Letters : redriven[k] # n
    BY <1>2, <2>1, CommitStamps
  <2> QED  BY <2>2 DEF StampsKept, Distinct, MailInv
<1> QED  BY <1>1, <1>2

-----------------------------------------------------------------------------
LEMMA NextInv == IInv /\ [Next]_vars => IInv'
<1> SUFFICES ASSUME IInv, [Next]_vars  PROVE IInv'  OBVIOUS
<1>1. Distinct'  BY StampsStep DEF IInv, StampsKept
<1>2. CASE UNCHANGED <<kind, template, editor>>
  <2>1. TemplatesInv'  BY <1>2 DEF IInv, TemplatesInv, Seeded, Sound, SoundEdit
  <2>2. MailInv' /\ flawed' = {}
    <3>1. ASSUME NEW r \in Rows,
                 Enqueue(r) \/ AddEmailJob(r) \/ MarkPublished(r) \/ MarkFailed(r)
          PROVE  MailInv' /\ flawed' = {}
      <4>1. UNCHANGED flawed
        BY <3>1 DEF Enqueue, AddEmailJob, MarkPublished, MarkFailed, dvars, history
      <4> QED  BY <3>1, <4>1, OutboxSteps DEF IInv
    <3>2. ASSUME NEW r \in Rows,
                 \/ SendMail(r) \/ SkipSent(r) \/ SendFails(r) \/ SendSlips(r)
                 \/ StallsOut(r) \/ MarkerGone(r) \/ ForgetJob(r)
          PROVE  MailInv' /\ flawed' = {}
      <4>1. Accepted(r) \/ UNCHANGED flawed
        BY <3>2 DEF SendMail, SkipSent, SendFails, SendSlips, StallsOut, MarkerGone, ForgetJob,
                    history
      <4> QED  BY <3>2, <4>1, WorkerSteps, AcceptedWhole DEF IInv
    <3>3. ASSUME NEW o \in Operators, RedriveCommit(o)
          PROVE  MailInv' /\ flawed' = {}
      BY <3>3, CommitStep DEF IInv, RedriveCommit
    <3>4. ASSUME NEW l \in Letters, PruneLetter(l) \/ \E o \in Operators : RedriveRead(o, l)
          PROVE  MailInv' /\ flawed' = {}
      BY <3>4, LetterSteps DEF IInv, PruneLetter, RedriveRead, history
    <3>5. CASE UNCHANGED <<ivars, dvars>>
      BY <3>5 DEF IInv, MailInv, TypeOK, ivars, dvars, history
    <3> QED  BY <3>1, <3>2, <3>3, <3>4, <3>5 DEF Next, vars
  <2> QED  BY <1>1, <2>1, <2>2 DEF IInv
<1>3. CASE TemplatesNext /\ UNCHANGED <<ivars, dvars>>
  <2>1. TemplatesInv'  BY <1>3, TemplatesStep DEF IInv
  <2>2. MailInv' /\ flawed' = {}  BY <1>3 DEF IInv, MailInv, TypeOK, ivars, dvars, history
  <2> QED  BY <1>1, <2>1, <2>2 DEF IInv
<1>4. UNCHANGED <<kind, template, editor>> \/ (TemplatesNext /\ UNCHANGED <<ivars, dvars>>)
  BY DEF Next, vars, tvars, Enqueue, AddEmailJob, MarkPublished, MarkFailed, SendMail,
         SkipSent, SendFails, SendSlips, StallsOut, MarkerGone, ForgetJob, RedriveRead,
         RedriveCommit, PruneLetter
<1> QED  BY <1>2, <1>3, <1>4

LEMMA Invariance == Spec => []IInv
  BY InitInv, NextInv, PTL DEF Spec

\* Jobs, letters, stamps and rows go together in every run of the relay, the
\* email worker and the re-drive script.
THEOREM TypeCorrect == Spec => []TypeOK
<1>1. IInv => TypeOK  BY DEF IInv, MailInv
<1> QED  BY <1>1, Invariance, PTL

\* The stored template passes validation in every state, although update checks
\* an edit against a row that another request may change before it is written:
\* what makes an edit acceptable is decided by the fields the edit gives.
THEOREM TemplatesSendable == Spec => []StoredSendable
<1>1. IInv => StoredSendable
  BY NoProblems DEF IInv, TemplatesInv, Seeded, Sound, StoredSendable
<1> QED  BY <1>1, Invariance, PTL

\* No mail leaves without its link or code or with a raw placeholder, whatever
\* was edited between the intent and the attempt that sends it.
THEOREM CompleteMails == Spec => []MailsComplete
<1>1. IInv => MailsComplete  BY DEF IInv, MailsComplete
<1> QED  BY <1>1, Invariance, PTL

\* Any number of concurrent re-drives and of retention runs gives a dead letter
\* at most one new intent.
THEOREM LettersRedrivenOnce == Spec => RedrivenOnce
<1>1. IInv /\ [Next]_vars =>
        [/\ \A l \in Letters : redriven[l] # Null => redriven'[l] = redriven[l]
         /\ \A l, m \in Letters : l # m /\ redriven'[l] # Null => redriven'[l] # redriven'[m]]_vars
  BY StampsStep DEF IInv, StampsKept, Distinct
<1> QED  BY <1>1, Invariance, PTL DEF Spec, RedrivenOnce

-----------------------------------------------------------------------------
(***************************************************************************)
(* How often a business change may be mailed.  A chance is what may still  *)
(* become a mail, or has: a row whose job has not failed for good, or was  *)
(* created again since, and a dead letter that was not re-driven, written  *)
(* or not.  A job that fails passes its chance on to its letter, a letter  *)
(* to the row it is re-driven to, a row that is given up to its letter;    *)
(* only a job created again after a failure, and one added to a given-up   *)
(* row, makes one more.                                                    *)
(***************************************************************************)
Recorded == {n \in Rows : origin[n] # Null}

\* The kinds of chances: the letters of a row, by number, and its own job.
Own == MaxAgain + 2
Chances == 0 .. MaxAgain + 2

Chance(c) ==
  \/ /\ c[2] = Own /\ fails[c[1]] = again[c[1]]
     /\ c[1] \in queued \/ fate[c[1]] # "failed"
  \/ c[2] = 0 /\ fate[c[1]] = "failed" /\ redriven[c] = Null
  \/ c[2] \in 1 .. MaxAgain + 1 /\ c[2] <= fails[c[1]] /\ redriven[c] = Null

ChancesOf(r) == {c \in Family(r) \X Chances : Chance(c)}

\* What made one more chance.
ExtraOf(r) == (LateOf(r) \X {0}) \cup Counted(again, Family(r))

\* Without slips, a mail is told of by the marker of a row whose job has not
\* failed for good since it was created.
SentOrSlipped ==
  /\ sent \in [Rows -> Nat] /\ slips \in [Rows -> Nat]
  /\ \A n \in Rows :
       sent[n] <= slips[n] + (IF n \in marked /\ fails[n] = again[n] THEN 1 ELSE 0)

\* Every row goes back to the row of a business change.
Rooted == \A n \in Recorded : origin[n] \in Recorded /\ origin[origin[n]] = origin[n]

Finite == IsFiniteSet(Recorded) /\ IsFiniteSet(Counted(slips, Rows))

Budget(r) == Cardinality(ChancesOf(r)) <= 1 + Cardinality(ExtraOf(r))

CountInv ==
  /\ MailInv /\ SentOrSlipped /\ Rooted /\ Finite
  /\ \A r \in Rows : origin[r] = r => Budget(r)

\* The chances before and after a step that makes at most as many as it makes
\* reasons for one more.
ChanceStep(r) ==
  /\ ExtraOf(r) \subseteq ExtraOf(r)'
  /\ \/ ChancesOf(r)' \subseteq ChancesOf(r)
     \/ \E c \in ChancesOf(r), d \in Rows \X Chances :
          ChancesOf(r)' \subseteq (ChancesOf(r) \ {c}) \cup {d}
     \/ \E d \in Rows \X Chances, x \in ExtraOf(r)' \ ExtraOf(r) :
          ChancesOf(r)' \subseteq ChancesOf(r) \cup {d}

LEMMA ChanceKinds ==
  /\ Own \in Chances /\ Own # 0 /\ Own \notin 1 .. MaxAgain + 1
  /\ 0 .. MaxAgain + 1 \subseteq Chances /\ Own \notin 0 .. MaxAgain + 1
  /\ Chances = (0 .. MaxAgain + 1) \cup {Own} /\ MaxAgain \in Nat
  BY DeliveryAssumption DEF Own, Chances

LEMMA FamiliesFinite ==
  ASSUME Finite, MailInv, NEW r \in Rows, r # Null
  PROVE  /\ IsFiniteSet(ChancesOf(r)) /\ IsFiniteSet(ExtraOf(r)) /\ IsFiniteSet(LateOf(r))
         /\ IsFiniteSet(Family(r)) /\ IsFiniteSet(Counted(again, Family(r)))
<1>1. IsFiniteSet(Chances) /\ IsFiniteSet(1 .. MaxAgain) /\ IsFiniteSet({0})
  <2>1. 0 \in Int /\ 1 \in Int /\ MaxAgain \in Int /\ MaxAgain + 2 \in Int
    BY DeliveryAssumption
  <2>2. IsFiniteSet(0 .. MaxAgain + 2) /\ IsFiniteSet(1 .. MaxAgain)  BY <2>1, FS_Interval
  <2> QED  BY <2>2, FS_Singleton DEF Chances
<1>2. IsFiniteSet(Recorded \X Chances) /\ IsFiniteSet(Recorded \X (1 .. MaxAgain))
  BY <1>1, FS_Product DEF Finite
<1>3. Family(r) \subseteq Recorded /\ LateOf(r) \subseteq Recorded
  BY DEF LateOf, Family, Recorded
<1>4. ChancesOf(r) \subseteq Recorded \X Chances
  BY <1>3 DEF ChancesOf
<1>5. Counted(again, Family(r)) \subseteq Recorded \X (1 .. MaxAgain)
  <2> SUFFICES ASSUME NEW n \in Family(r), NEW i \in 1 .. again[n]
               PROVE  <<n, i>> \in Recorded \X (1 .. MaxAgain)
    BY DEF Counted
  <2>1. n \in Rows /\ n \in Recorded  BY <1>3 DEF Family
  <2>2. again[n] \in Nat /\ again[n] <= MaxAgain  BY <2>1 DEF MailInv, TypeOK
  <2> QED  BY <2>1, <2>2, DeliveryAssumption
<1>6. IsFiniteSet(Family(r)) /\ IsFiniteSet(LateOf(r))  BY <1>3, FS_Subset DEF Finite
<1>7. IsFiniteSet(ChancesOf(r)) /\ IsFiniteSet(Counted(again, Family(r)))
  BY <1>2, <1>4, <1>5, FS_Subset
<1>8. IsFiniteSet(LateOf(r) \X {0})  BY <1>1, <1>6, FS_Product
<1>9. IsFiniteSet(ExtraOf(r))  BY <1>7, <1>8, FS_Union DEF ExtraOf
<1> QED  BY <1>6, <1>7, <1>9

LEMMA ExtraFinite ==
  Finite /\ MailInv => \A r \in Rows : r # Null => IsFiniteSet(ExtraOf(r))
  BY FamiliesFinite

LEMMA BudgetKept ==
  ASSUME Finite, Finite', MailInv, MailInv', NEW r \in Rows, r # Null, Budget(r), ChanceStep(r)
  PROVE  Budget(r)'
<1> DEFINE C == ChancesOf(r)  D == ChancesOf(r)'  L == ExtraOf(r)  M == ExtraOf(r)'
<1>1. IsFiniteSet(C) /\ IsFiniteSet(L)  BY FamiliesFinite
<1>2. IsFiniteSet(D) /\ IsFiniteSet(M)
  <2>1. Finite' /\ MailInv' /\ r \in Rows /\ r # Null
          => IsFiniteSet(ChancesOf(r)') /\ IsFiniteSet(ExtraOf(r)')
    <3>1. (Finite /\ MailInv /\ r \in Rows /\ r # Null
             => IsFiniteSet(ChancesOf(r)) /\ IsFiniteSet(ExtraOf(r)))'
      BY FamiliesFinite, PTL
    <3> QED  BY <3>1
  <2> QED  BY <2>1
<1>3. Cardinality(C) <= 1 + Cardinality(L)  BY DEF Budget
<1>4. L \subseteq M  BY DEF ChanceStep
<1>5. /\ Cardinality(C) \in Nat /\ Cardinality(D) \in Nat
      /\ Cardinality(L) \in Nat /\ Cardinality(M) \in Nat
  BY <1>1, <1>2, FS_CardinalityType
<1>6. Cardinality(L) <= Cardinality(M)  BY <1>2, <1>4, FS_Subset
<1> HIDE DEF C, D, L, M
<1>7. CASE D \subseteq C
  <2>1. Cardinality(D) <= Cardinality(C)  BY <1>1, <1>7, FS_Subset
  <2> QED  BY <1>3, <1>5, <1>6, <2>1 DEF Budget, D, M
<1>8. ASSUME NEW c \in C, NEW d, D \subseteq (C \ {c}) \cup {d}  PROVE Budget(r)'
  <2>1. IsFiniteSet(C \ {c}) /\ Cardinality(C \ {c}) = Cardinality(C) - 1
    BY <1>1, FS_RemoveElement
  <2>2. /\ IsFiniteSet((C \ {c}) \cup {d})
        /\ Cardinality((C \ {c}) \cup {d}) <= Cardinality(C)
    <3> DEFINE E == C \ {c}
    <3>1. /\ IsFiniteSet(E \cup {d})
          /\ Cardinality(E \cup {d}) = IF d \in E THEN Cardinality(E) ELSE Cardinality(E) + 1
      BY <2>1, FS_AddElement
    <3> QED  BY <1>5, <2>1, <3>1
  <2>3. Cardinality(D) <= Cardinality((C \ {c}) \cup {d})  BY <1>8, <2>2, FS_Subset
  <2>4. Cardinality((C \ {c}) \cup {d}) \in Nat  BY <2>2, FS_CardinalityType
  <2> QED  BY <1>3, <1>5, <1>6, <2>2, <2>3, <2>4 DEF Budget, D, M
<1>9. ASSUME NEW d, NEW n \in M \ L, D \subseteq C \cup {d}  PROVE Budget(r)'
  <2>1. IsFiniteSet(C \cup {d}) /\ Cardinality(C \cup {d}) <= Cardinality(C) + 1
    <3>1. /\ IsFiniteSet(C \cup {d})
          /\ Cardinality(C \cup {d}) = IF d \in C THEN Cardinality(C) ELSE Cardinality(C) + 1
      BY <1>1, FS_AddElement
    <3> QED  BY <1>5, <3>1
  <2>2. Cardinality(D) <= Cardinality(C \cup {d})  BY <1>9, <2>1, FS_Subset
  <2>3. Cardinality(M) # Cardinality(L)
    BY <1>2, <1>4, <1>9, FS_Subset
  <2>4. Cardinality(C \cup {d}) \in Nat  BY <2>1, FS_CardinalityType
  <2> QED  BY <1>3, <1>5, <1>6, <2>1, <2>2, <2>3, <2>4 DEF Budget, D, M
<1> QED  BY <1>7, <1>8, <1>9 DEF ChanceStep, C, D, L, M

\* A step that leaves the rows of a family, their failures and their stamps alone.
LEMMA FamilyUntouched ==
  ASSUME NEW r \in Rows, Family(r)' = Family(r),
         \A n \in Family(r) : /\ fate'[n] = fate[n] /\ (n \in queued' <=> n \in queued)
                              /\ fails'[n] = fails[n] /\ again'[n] = again[n]
                              /\ \A k \in 0 .. MaxAgain + 1 :
                                   redriven'[<<n, k>>] = redriven[<<n, k>>]
  PROVE  ChanceStep(r)
<1>1. ExtraOf(r)' = ExtraOf(r)
  <2>1. LateOf(r)' = LateOf(r)  BY DEF LateOf
  <2>2. Counted(again, Family(r))' = Counted(again, Family(r))  BY DEF Counted
  <2> QED  BY <2>1, <2>2 DEF ExtraOf
<1>2. ASSUME NEW c \in Family(r) \X Chances  PROVE Chance(c)' <=> Chance(c)
  <2>1. PICK n \in Family(r), k \in Chances : c = <<n, k>>  OBVIOUS
  <2>2. k \in 0 .. MaxAgain + 1 => redriven'[c] = redriven[c]  BY <2>1
  <2>3. 0 \in 0 .. MaxAgain + 1 /\ 1 .. MaxAgain + 1 \subseteq 0 .. MaxAgain + 1
    BY DeliveryAssumption
  <2>4. c[1] = n /\ c[2] = k  BY <2>1
  <2> QED  BY <2>1, <2>2, <2>3, <2>4 DEF Chance
<1>3. ChancesOf(r)' = ChancesOf(r)  BY <1>2 DEF ChancesOf
<1> QED  BY <1>1, <1>3 DEF ChanceStep

-----------------------------------------------------------------------------
LEMMA EnqueueCounts ==
  ASSUME CountInv, MailInv', NEW n \in Rows, Enqueue(n)
  PROVE  /\ Rooted' /\ \A r \in Rows : origin[r] = r => ChanceStep(r)
         /\ Finite' => Budget(n)'
<1>1. /\ origin[n] = Null /\ n \notin queued /\ n # Null /\ fails[n] = 0 /\ again[n] = 0
      /\ origin' = [origin EXCEPT ![n] = n] /\ fate' = [fate EXCEPT ![n] = "open"]
      /\ UNCHANGED <<queued, redriven, fails, again>>
  BY DeliveryAssumption DEF Enqueue, Record, CountInv, MailInv, TypeOK
<1>2. \A m \in Rows : origin[m] # n
  BY <1>1 DEF CountInv, Rooted, Recorded
<1>3. Rooted'
  BY <1>1, <1>2, DeliveryAssumption DEF CountInv, Rooted, Recorded, MailInv
<1>4. ASSUME NEW r \in Rows, origin[r] = r  PROVE ChanceStep(r)
  <2>1. r # n /\ Family(r)' = Family(r) /\ n \notin Family(r)
    BY <1>1, <1>4, DeliveryAssumption DEF Family, CountInv, MailInv
  <2> QED  BY <1>1, <2>1, FamilyUntouched DEF CountInv, MailInv, Family
<1>5. ASSUME Finite'  PROVE Budget(n)'
  <2>1. Family(n)' = {n}  BY <1>1, <1>2 DEF Family, CountInv, MailInv
  <2>2. fails'[n] = 0 /\ fate'[n] = "open"  BY <1>1 DEF CountInv, MailInv
  <2>3. ChancesOf(n)' \subseteq {<<n, Own>>}
    BY <2>1, <2>2 DEF ChancesOf, Chance
  <2>4. Cardinality(ChancesOf(n)') <= 1
    <3>1. IsFiniteSet({<<n, Own>>}) /\ Cardinality({<<n, Own>>}) = 1  BY FS_Singleton
    <3> QED  BY <2>3, <3>1, FS_Subset
  <2>5. IsFiniteSet(ExtraOf(n)')
    <3>1. (Finite /\ MailInv => \A r \in Rows : r # Null => IsFiniteSet(ExtraOf(r)))'
      BY ExtraFinite, PTL
    <3> QED  BY <1>1, <1>5, <3>1
  <2>6. Cardinality(ExtraOf(n)') \in Nat  BY <2>5, FS_CardinalityType
  <2>7. IsFiniteSet(ChancesOf(n)')  BY <2>3, FS_Singleton, FS_Subset
  <2>8. Cardinality(ChancesOf(n)') \in Nat  BY <2>7, FS_CardinalityType
  <2> QED  BY <2>4, <2>6, <2>8 DEF Budget
<1> QED  BY <1>3, <1>4, <1>5

\* Steps on row n that leave all origins and stamps alone: what they do to n's
\* chances.
LEMMA RowCounts ==
  ASSUME CountInv, NEW n \in Rows, NEW r \in Rows, origin' = origin, redriven' = redriven,
         \A m \in Rows \ {n} : /\ fate'[m] = fate[m] /\ (m \in queued' <=> m \in queued)
                               /\ fails'[m] = fails[m] /\ again'[m] = again[m],
         n \in queued => n \in queued', fate[n] = "failed" => fate'[n] = "failed",
         again[n] \in Nat, again'[n] \in Nat, again[n] <= again'[n],
         \/ \A k \in Chances : Chance(<<n, k>>)' => Chance(<<n, k>>)
         \/ /\ Chance(<<n, Own>>) /\ ~Chance(<<n, Own>>)'
            /\ \E d \in Chances \ {Own} : \A k \in Chances \ {d} :
                 Chance(<<n, k>>)' => Chance(<<n, k>>)
         \/ /\ \/ fate'[n] = "failed" /\ n \in queued' /\ ~(fate[n] = "failed" /\ n \in queued)
               \/ again'[n] > again[n]
            /\ \E d \in Chances : \A k \in Chances \ {d} :
                 Chance(<<n, k>>)' => Chance(<<n, k>>)
  PROVE  ChanceStep(r)
<1>1. Family(r)' = Family(r)  BY DEF Family
<1>2. CASE n \notin Family(r)
  <2>1. \A m \in Family(r) : m \in Rows \ {n}  BY <1>2 DEF Family
  <2> QED  BY <1>1, <2>1, FamilyUntouched
<1>3. CASE n \in Family(r)
  <2>0. Family(r) \subseteq Rows  BY DEF Family
  <2>1. LateOf(r) \subseteq LateOf(r)'  BY <1>1 DEF LateOf, Family
  <2>2. ASSUME NEW m \in Family(r), NEW k \in Chances, m # n
        PROVE  Chance(<<m, k>>)' <=> Chance(<<m, k>>)
    BY <2>0, <2>2 DEF Chance
  <2>3. ASSUME NEW m \in Family(r), NEW k \in Chances
        PROVE  /\ <<m, k>> \in ChancesOf(r) <=> Chance(<<m, k>>)
               /\ <<m, k>> \in ChancesOf(r)' <=> Chance(<<m, k>>)'
    BY <1>1 DEF ChancesOf
  <2>4. /\ \A c \in ChancesOf(r)' : \E m \in Family(r), k \in Chances : c = <<m, k>>
        /\ \A m \in Family(r), k \in Chances : <<m, k>> \in Rows \X Chances
    BY <1>1, <2>0 DEF ChancesOf
  <2>5. Counted(again, Family(r)) \subseteq Counted(again, Family(r))'
    <3> SUFFICES ASSUME NEW m \in Family(r), NEW i \in 1 .. again[m]
                 PROVE  <<m, i>> \in Counted(again, Family(r))'
      BY DEF Counted
    <3>1. CASE m = n
      <4>1. i \in 1 .. again'[m]  BY <3>1
      <4> QED  BY <1>1, <4>1 DEF Counted
    <3>2. CASE m # n
      <4>1. again'[m] = again[m]  BY <2>0, <3>2
      <4> QED  BY <1>1, <4>1 DEF Counted
    <3> QED  BY <3>1, <3>2
  <2>6. ExtraOf(r) \subseteq ExtraOf(r)'  BY <2>1, <2>5 DEF ExtraOf
  <2>7. CASE \A k \in Chances : Chance(<<n, k>>)' => Chance(<<n, k>>)
    <3>1. ChancesOf(r)' \subseteq ChancesOf(r)
      BY <2>2, <2>3, <2>4, <2>7
    <3> QED  BY <2>6, <3>1 DEF ChanceStep
  <2>8. ASSUME Chance(<<n, Own>>), ~Chance(<<n, Own>>)', NEW d \in Chances \ {Own},
               \A k \in Chances \ {d} : Chance(<<n, k>>)' => Chance(<<n, k>>)
        PROVE  ChanceStep(r)
    <3>1. ChancesOf(r)' \subseteq (ChancesOf(r) \ {<<n, Own>>}) \cup {<<n, d>>}
      <4> SUFFICES ASSUME NEW c \in ChancesOf(r)', c # <<n, d>>
                   PROVE  c \in ChancesOf(r) \ {<<n, Own>>}
        OBVIOUS
      <4>0. PICK m \in Family(r), k \in Chances : c = <<m, k>>  BY <2>4
      <4>1. Chance(<<m, k>>)'  BY <2>3, <4>0
      <4>2. Chance(<<m, k>>) /\ ~(m = n /\ k = Own)
        BY <2>2, <2>8, <4>0, <4>1
      <4> QED  BY <2>3, <4>0, <4>2
    <3>2. <<n, Own>> \in ChancesOf(r) /\ <<n, d>> \in Rows \X Chances
      BY <1>3, <2>3, <2>8, ChanceKinds
    <3> QED  BY <2>6, <3>1, <3>2 DEF ChanceStep
  <2>9. ASSUME \/ fate'[n] = "failed" /\ n \in queued' /\ ~(fate[n] = "failed" /\ n \in queued)
               \/ again'[n] > again[n],
               NEW d \in Chances, \A k \in Chances \ {d} : Chance(<<n, k>>)' => Chance(<<n, k>>)
        PROVE  ChanceStep(r)
    <3>1. ChancesOf(r)' \subseteq ChancesOf(r) \cup {<<n, d>>}
      <4> SUFFICES ASSUME NEW c \in ChancesOf(r)', c # <<n, d>>
                   PROVE  c \in ChancesOf(r)
        OBVIOUS
      <4>0. PICK m \in Family(r), k \in Chances : c = <<m, k>>  BY <2>4
      <4>1. Chance(<<m, k>>)'  BY <2>3, <4>0
      <4>2. Chance(<<m, k>>)  BY <2>2, <2>9, <4>0, <4>1
      <4> QED  BY <2>3, <4>0, <4>2
    <3>2. \E x \in ExtraOf(r)' : x \notin ExtraOf(r)
      <4>1. \A m, i : <<m, i>> \in Counted(again, Family(r))
                        <=> m \in Family(r) /\ i \in 1 .. again[m]
        BY DEF Counted
      <4>2. \A m, i : <<m, i>> \in Counted(again, Family(r))'
                        <=> m \in Family(r) /\ i \in 1 .. again'[m]
        BY <1>1 DEF Counted
      <4>3. CASE fate'[n] = "failed" /\ n \in queued' /\ ~(fate[n] = "failed" /\ n \in queued)
        <5>1. n \in LateOf(r)' /\ n \notin LateOf(r)  BY <1>1, <1>3, <4>3 DEF LateOf
        <5>2. 0 \notin 1 .. again[n]  OBVIOUS
        <5>3. <<n, 0>> \in ExtraOf(r)' /\ <<n, 0>> \notin ExtraOf(r)
          BY <4>1, <5>1, <5>2 DEF ExtraOf
        <5> QED  BY <5>3
      <4>4. CASE again'[n] > again[n]
        <5>1. /\ again'[n] \in 1 .. again'[n] /\ again'[n] \notin 1 .. again[n] /\ again'[n] # 0
          BY <4>4
        <5>2. <<n, again'[n]>> \in ExtraOf(r)' /\ <<n, again'[n]>> \notin ExtraOf(r)
          BY <1>3, <4>1, <4>2, <5>1 DEF ExtraOf
        <5> QED  BY <5>2
      <4> QED  BY <2>9, <4>3, <4>4
    <3>3. <<n, d>> \in Rows \X Chances  OBVIOUS
    <3> QED  BY <2>6, <3>1, <3>2, <3>3 DEF ChanceStep
  <2> QED  BY <2>7, <2>8, <2>9
<1> QED  BY <1>2, <1>3

\* A final failure: the chance of the job goes to its letter.
LEMMA FailureCounts ==
  ASSUME CountInv, NEW n \in Rows, job[n] = "wait", FailsForGood(n),
         UNCHANGED <<fate, queued, redriven, origin, again>>, NEW r \in Rows
  PROVE  ChanceStep(r)
<1>1. /\ fails[n] = again[n] /\ fails[n] \in Nat /\ n \in queued /\ again[n] <= MaxAgain
      /\ fails \in [Rows -> Nat] /\ again \in [Rows -> Nat]
  BY LatestIn DEF CountInv, MailInv, TypeOK
<1>2. fails' = [fails EXCEPT ![n] = fails[n] + 1]  BY DEF FailsForGood
<1>3. fails'[n] = fails[n] + 1 /\ \A m \in Rows \ {n} : fails'[m] = fails[m]
  BY <1>1, <1>2
<1>4. Chance(<<n, Own>>) /\ ~Chance(<<n, Own>>)'
  BY <1>1, <1>3, ChanceKinds DEF Chance
<1>5. ASSUME NEW k \in Chances \ {fails[n] + 1}  PROVE Chance(<<n, k>>)' => Chance(<<n, k>>)
  <2>1. k \in 1 .. MaxAgain + 1 /\ k <= fails'[n] => k <= fails[n]
    BY <1>1, <1>3, DeliveryAssumption
  <2> QED  BY <1>4, <1>5, <2>1 DEF Chance
<1>6. fails[n] + 1 \in Chances \ {Own}
  BY <1>1, DeliveryAssumption DEF Chances, Own
<1> QED  BY <1>1, <1>3, <1>4, <1>5, <1>6, RowCounts

\* Every step of the outbox or the email worker on row n.
LEMMA RowSteps ==
  ASSUME CountInv, NEW n \in Rows,
         \/ AddEmailJob(n) \/ MarkPublished(n) \/ MarkFailed(n)
         \/ SendMail(n) \/ SkipSent(n) \/ SendFails(n) \/ SendSlips(n)
         \/ StallsOut(n) \/ MarkerGone(n) \/ ForgetJob(n)
  PROVE  \A r \in Rows : ChanceStep(r)
<1> SUFFICES ASSUME NEW r \in Rows  PROVE ChanceStep(r)  OBVIOUS
<1>0. /\ fate \in [Rows -> {"none", "open", "published", "failed"}]
      /\ fails \in [Rows -> Nat] /\ again \in [Rows -> Nat]
      /\ fails[n] \in {again[n], again[n] + 1}
      /\ job[n] # "none" \/ fails[n] > 0 => n \in queued
      /\ queued \subseteq Rows
  BY DEF CountInv, MailInv, TypeOK
<1>1. CASE AddEmailJob(n)
  <2>1. /\ queued' = queued \cup {n} /\ UNCHANGED <<fate, redriven, origin, fails>>
        /\ again' = IF job[n] = "none" THEN [again EXCEPT ![n] = fails[n]] ELSE again
    BY <1>1 DEF AddEmailJob, AddJob
  <2>2. /\ \A m \in Rows \ {n} : again'[m] = again[m]
        /\ again'[n] = (IF job[n] = "none" THEN fails[n] ELSE again[n])
    BY <1>0, <2>1
  <2>3. again'[n] \in Nat /\ again[n] <= again'[n]  BY <1>0, <2>2
  <2>4. \A k \in Chances \ {Own} : Chance(<<n, k>>)' => Chance(<<n, k>>)
    BY <2>1 DEF Chance
  <2>5. CASE again'[n] > again[n]
    BY <1>0, <2>1, <2>2, <2>3, <2>4, <2>5, ChanceKinds, RowCounts
  <2>6. CASE again'[n] = again[n] /\ n \notin queued /\ fate[n] = "failed"
    BY <1>0, <2>1, <2>2, <2>3, <2>4, <2>6, ChanceKinds, RowCounts
  <2>7. CASE again'[n] = again[n] /\ ~(n \notin queued /\ fate[n] = "failed")
    <3>1. Chance(<<n, Own>>)' => Chance(<<n, Own>>)
      BY <2>1, <2>7, ChanceKinds DEF Chance
    <3> QED  BY <1>0, <2>1, <2>2, <2>3, <2>4, <3>1, RowCounts
  <2> QED  BY <1>0, <2>3, <2>5, <2>6, <2>7
<1>2. CASE MarkPublished(n)
  <2>1. /\ fate[n] = "open" /\ fate' = [fate EXCEPT ![n] = "published"]
        /\ UNCHANGED <<queued, redriven, origin, fails, again>>
    BY <1>2 DEF MarkPublished, Publish, dvars, history
  <2>2. fate'[n] = "published" /\ \A m \in Rows \ {n} : fate'[m] = fate[m]  BY <1>0, <2>1
  <2>3. \A k \in Chances : Chance(<<n, k>>)' => Chance(<<n, k>>)
    BY <2>1, <2>2 DEF Chance
  <2>4. again[n] \in Nat /\ again'[n] = again[n] /\ again[n] <= again'[n]  BY <1>0, <2>1
  <2> QED  BY <2>1, <2>2, <2>3, <2>4, RowCounts
<1>3. CASE MarkFailed(n)
  <2>1. /\ fate[n] = "open" /\ fate' = [fate EXCEPT ![n] = "failed"]
        /\ UNCHANGED <<queued, redriven, origin, fails, again>>
    BY <1>3 DEF MarkFailed, GiveUp, history
  <2>2. fate'[n] = "failed" /\ \A m \in Rows \ {n} : fate'[m] = fate[m]  BY <1>0, <2>1
  <2>3. \A k \in Chances \ {0} : Chance(<<n, k>>)' => Chance(<<n, k>>)
    BY <2>1, <2>2 DEF Chance
  <2>4. 0 \in Chances \ {Own}  BY ChanceKinds, DeliveryAssumption
  <2>5. again[n] \in Nat /\ again'[n] = again[n] /\ again[n] <= again'[n]  BY <1>0, <2>1
  <2>6. CASE n \in queued
    <3>1. fate'[n] = "failed" /\ n \in queued' /\ ~(fate[n] = "failed" /\ n \in queued)
      BY <2>1, <2>2, <2>6
    <3> QED  BY <2>1, <2>2, <2>3, <2>4, <2>5, <3>1, RowCounts
  <2>7. CASE n \notin queued
    <3>1. fails[n] = again[n]  BY <1>0, <2>7
    <3>2. Chance(<<n, Own>>) /\ ~Chance(<<n, Own>>)'
      BY <2>1, <2>2, <2>7, <3>1, ChanceKinds DEF Chance
    <3> QED  BY <2>1, <2>2, <2>3, <2>4, <2>7, <2>5, <3>2, RowCounts
  <2> QED  BY <2>6, <2>7
<1>4. ASSUME UNCHANGED <<fate, queued, redriven, origin, fails, again>>  PROVE ChanceStep(r)
  <2>1. Family(r)' = Family(r)  BY <1>4 DEF Family
  <2> QED  BY <1>4, <2>1, FamilyUntouched
<1>5. CASE SendMail(n) \/ SkipSent(n) \/ MarkerGone(n) \/ ForgetJob(n)
  BY <1>4, <1>5 DEF SendMail, SkipSent, MarkerGone, ForgetJob, ivars, history
<1>6. CASE SendFails(n) \/ SendSlips(n) \/ StallsOut(n)
  <2>1. job[n] = "wait" /\ UNCHANGED <<fate, queued, redriven, origin, again>>
    BY <1>6 DEF SendFails, SendSlips, StallsOut, ivars
  <2>2. FailsForGood(n) \/ fails' = fails
    BY <1>6 DEF SendFails, SendSlips, StallsOut, AttemptFails
  <2>3. CASE FailsForGood(n)  BY <2>1, <2>3, FailureCounts
  <2>4. CASE fails' = fails  BY <1>4, <2>1, <2>4
  <2> QED  BY <2>2, <2>3, <2>4
<1> QED  BY <1>1, <1>2, <1>3, <1>5, <1>6

\* The letter gives its chance to the new row, of the same family.
LEMMA RedriveCounts ==
  ASSUME CountInv, NEW o \in Operators, RedriveCommit(o)
  PROVE  Rooted' /\ \A r \in Rows : origin[r] = r => ChanceStep(r)
<1>0. UNCHANGED <<letter, fails, again>>  BY DEF RedriveCommit
<1>1. CASE UNCHANGED <<ivars, redriven, origin>>
  <2>1. Rooted'  BY <1>1 DEF CountInv, Rooted, Recorded
  <2>2. \A r \in Rows : Family(r)' = Family(r)  BY <1>1 DEF Family
  <2> QED  BY <1>0, <1>1, <2>1, <2>2, FamilyUntouched DEF ivars
<1>2. ASSUME NEW n \in Rows, NEW m \in Letters,
             letter[m] = "kept", redriven[m] = Null, Record(n),
             origin' = [origin EXCEPT ![n] = origin[m[1]]],
             redriven' = [redriven EXCEPT ![m] = n],
             m[1] \in Rows, fate[m[1]] # "none", origin[m[1]] # Null,
             origin[n] = Null, n # m[1], \A k \in Letters : redriven[k] # n
      PROVE  Rooted' /\ \A r \in Rows : origin[r] = r => ChanceStep(r)
  <2>1. /\ fate \in [Rows -> {"none", "open", "published", "failed"}]
        /\ redriven \in [Letters -> Rows \cup {Null}] /\ origin \in [Rows -> Rows \cup {Null}]
    BY DEF CountInv, MailInv
  <2>2. /\ fate[n] = "none" /\ fate' = [fate EXCEPT ![n] = "open"] /\ queued' = queued
        /\ n \notin queued /\ fails[n] = 0
    BY <1>2 DEF Record, CountInv, MailInv, TypeOK
  <2>3. \A k \in Rows : origin[k] # n  BY <1>2 DEF CountInv, Rooted, Recorded
  <2>4. Rooted'  BY <1>2, <2>1, <2>3, DeliveryAssumption DEF CountInv, Rooted, Recorded
  <2>5. m \in Rows \X Chances /\ Chance(m) /\ m[2] # Own
    <3>1. m[1] \in Rows /\ m[2] \in 0 .. MaxAgain + 1 /\ m = <<m[1], m[2]>>  BY LetterOf
    <3>2. IF m[2] = 0 THEN fate[m[1]] = "failed" ELSE m[2] <= fails[m[1]]
      BY <1>2 DEF CountInv, MailInv, TypeOK
    <3>3. m[2] # 0 => m[2] \in 1 .. MaxAgain + 1  BY <3>1, DeliveryAssumption
    <3> QED  BY <1>2, <3>1, <3>2, <3>3, ChanceKinds DEF Chance
  <2>6. ASSUME NEW r \in Rows, origin[r] = r, origin[m[1]] # r  PROVE ChanceStep(r)
    <3>1. Family(r)' = Family(r) /\ n \notin Family(r) /\ m[1] \notin Family(r)
      BY <1>2, <2>1, <2>6, DeliveryAssumption DEF Family
    <3>2. \A k \in Family(r) :
            /\ fate'[k] = fate[k]
            /\ \A j \in 0 .. MaxAgain + 1 : redriven'[<<k, j>>] = redriven[<<k, j>>]
      <4> SUFFICES ASSUME NEW k \in Family(r)
                   PROVE  /\ fate'[k] = fate[k]
                          /\ \A j \in 0 .. MaxAgain + 1 : redriven'[<<k, j>>] = redriven[<<k, j>>]
        OBVIOUS
      <4>1. k \in Rows /\ k # n /\ k # m[1]  BY <3>1 DEF Family
      <4>2. fate'[k] = fate[k]  BY <2>1, <2>2, <4>1
      <4>3. ASSUME NEW j \in 0 .. MaxAgain + 1
            PROVE  redriven'[<<k, j>>] = redriven[<<k, j>>]
        <5>1. <<k, j>> # m /\ <<k, j>> \in Letters  BY <4>1 DEF Letters
        <5> QED  BY <1>2, <2>1, <5>1
      <4> QED  BY <4>2, <4>3
    <3>3. \A k \in Family(r) : (k \in queued' <=> k \in queued)
                               /\ fails'[k] = fails[k] /\ again'[k] = again[k]
      BY <1>0, <2>2
    <3> QED  BY <3>1, <3>2, <3>3, FamilyUntouched
  <2>7. ASSUME NEW r \in Rows, origin[r] = r, origin[m[1]] = r  PROVE ChanceStep(r)
    <3>1. /\ Family(r)' = Family(r) \cup {n} /\ n \notin Family(r) /\ m[1] \in Family(r)
      BY <1>2, <2>1, <2>7, DeliveryAssumption DEF Family
    <3>2. ExtraOf(r) \subseteq ExtraOf(r)'
      <4>1. LateOf(r) \subseteq LateOf(r)'
        BY <2>1, <2>2, <3>1 DEF LateOf, Family
      <4>2. Counted(again, Family(r)) \subseteq Counted(again, Family(r))'
        BY <1>0, <3>1 DEF Counted
      <4> QED  BY <4>1, <4>2 DEF ExtraOf
    <3>3. m \in ChancesOf(r)
      <4>1. m = <<m[1], m[2]>>  BY <2>5
      <4> QED  BY <2>5, <3>1, <4>1 DEF ChancesOf
    <3>4. ASSUME NEW k \in Family(r), NEW j \in Chances, Chance(<<k, j>>)'
          PROVE  <<k, j>> \in ChancesOf(r) \ {m}
      <4>1. k # n /\ k \in Rows  BY <3>1 DEF Family
      <4>2. fate'[k] = fate[k] /\ fails'[k] = fails[k] /\ again'[k] = again[k]
        BY <1>0, <2>1, <2>2, <4>1
      <4>3. <<k, j>> # m
        <5>1. redriven'[m] # Null  BY <1>2, <2>1, DeliveryAssumption
        <5> QED  BY <2>5, <3>4, <5>1 DEF Chance
      <4>4. <<k, j>> \in Letters => redriven'[<<k, j>>] = redriven[<<k, j>>]
        BY <1>2, <2>1, <4>3
      <4>5. j # Own => <<k, j>> \in Letters  BY <4>1, ChanceKinds DEF Letters
      <4>6. Chance(<<k, j>>)
        <5>1. CASE j = Own  BY <2>2, <3>4, <4>2, <5>1, ChanceKinds DEF Chance
        <5>2. CASE j # Own
          <6>1. redriven'[<<k, j>>] = redriven[<<k, j>>]  BY <4>4, <4>5, <5>2
          <6> QED  BY <3>4, <4>2, <5>2, <6>1 DEF Chance
        <5> QED  BY <5>1, <5>2
      <4> QED  BY <4>3, <4>6 DEF ChancesOf
    <3>5. ASSUME NEW j \in Chances, j # Own  PROVE ~Chance(<<n, j>>)'
      <4>1. fate'[n] = "open" /\ fails'[n] = 0  BY <1>0, <2>1, <2>2
      <4> QED  BY <3>5, <4>1 DEF Chance
    <3>6. ChancesOf(r)' \subseteq (ChancesOf(r) \ {m}) \cup {<<n, Own>>}
      <4> SUFFICES ASSUME NEW c \in ChancesOf(r)', c # <<n, Own>>
                   PROVE  c \in ChancesOf(r) \ {m}
        OBVIOUS
      <4>1. PICK k \in Family(r)', j \in Chances : c = <<k, j>>
        BY DEF ChancesOf
      <4>2. Chance(<<k, j>>)'  BY <4>1 DEF ChancesOf
      <4>3. k # n  BY <3>5, <4>1, <4>2
      <4> QED  BY <3>1, <3>4, <4>1, <4>2, <4>3
    <3>7. <<n, Own>> \in Rows \X Chances  BY ChanceKinds
    <3> QED  BY <3>2, <3>3, <3>6, <3>7 DEF ChanceStep
  <2> QED  BY <2>4, <2>6, <2>7
<1> QED  BY <1>1, <1>2, CommitStamps DEF CountInv

-----------------------------------------------------------------------------
\* One more row, and one more slip.
LEMMA FiniteKept ==
  ASSUME Finite, SentOrSlipped, NEW n \in Rows,
         \A m \in Rows \ {n} : origin'[m] = origin[m],
         slips' = slips \/ slips' = [slips EXCEPT ![n] = @ + 1]
  PROVE  Finite'
<1>1. Recorded' \subseteq Recorded \cup {n}  BY DEF Recorded
<1>2. IsFiniteSet(Recorded \cup {n})  BY FS_AddElement DEF Finite
<1>3. Counted(slips', Rows) \subseteq Counted(slips, Rows) \cup {<<n, slips[n] + 1>>}
  <2>1. CASE slips' = slips  BY <2>1 DEF Counted
  <2>2. CASE slips' = [slips EXCEPT ![n] = @ + 1]
    <3> SUFFICES ASSUME NEW x \in Counted(slips', Rows), x # <<n, slips[n] + 1>>
                 PROVE  x \in Counted(slips, Rows)
      OBVIOUS
    <3>1. PICK m \in Rows : \E i \in 1 .. slips'[m] : x = <<m, i>>  BY DEF Counted
    <3>2. slips[m] \in Nat /\ slips'[m] = IF m = n THEN slips[m] + 1 ELSE slips[m]
      BY <2>2 DEF SentOrSlipped
    <3>3. PICK i \in 1 .. slips'[m] : x = <<m, i>>  BY <3>1
    <3>4. i \in 1 .. slips[m]  BY <3>2, <3>3
    <3> QED  BY <3>3, <3>4 DEF Counted
  <2> QED  BY <2>1, <2>2
<1>4. IsFiniteSet(Counted(slips, Rows) \cup {<<n, slips[n] + 1>>})
  BY FS_AddElement DEF Finite
<1>5. IsFiniteSet(Recorded') /\ IsFiniteSet(Counted(slips', Rows))
  BY <1>1, <1>2, <1>3, <1>4, FS_Subset
<1> QED  BY <1>5 DEF Finite, Counted

\* A mail is marked, or slips; a marker that is gone has slipped too.
LEMMA SentStep ==
  ASSUME CountInv, NEW n \in Rows,
         \/ SendMail(n) \/ SkipSent(n) \/ SendFails(n) \/ SendSlips(n)
         \/ StallsOut(n) \/ MarkerGone(n) \/ ForgetJob(n)
  PROVE  SentOrSlipped' /\ (slips' = slips \/ slips' = [slips EXCEPT ![n] = @ + 1])
<1>0. /\ sent \in [Rows -> Nat] /\ slips \in [Rows -> Nat]
      /\ fails \in [Rows -> Nat] /\ again \in [Rows -> Nat]
      /\ \A m \in Rows :
           sent[m] <= slips[m] + (IF m \in marked /\ fails[m] = again[m] THEN 1 ELSE 0)
  BY DEF CountInv, SentOrSlipped, MailInv
<1>1. CASE SendMail(n)
  <2>1. /\ n \notin marked /\ marked' = marked \cup {n} /\ sent' = [sent EXCEPT ![n] = @ + 1]
        /\ slips' = slips /\ fails' = fails /\ again' = again /\ job[n] = "wait"
    BY <1>1 DEF SendMail, Accepted
  <2>2. fails[n] = again[n]  BY <2>1, LatestIn DEF CountInv
  <2> QED  BY <1>0, <2>1, <2>2 DEF SentOrSlipped
<1>2. CASE SendFails(n)
  <2>1. /\ n \notin marked /\ UNCHANGED <<marked, sent, slips, again>> /\ job[n] = "wait"
        /\ fails' = fails \/ fails' = [fails EXCEPT ![n] = @ + 1]
    BY <1>2 DEF SendFails, AttemptFails, FailsForGood
  <2> QED  BY <1>0, <2>1 DEF SentOrSlipped
<1>3. CASE SendSlips(n)
  <2>1. /\ n \notin marked /\ UNCHANGED <<marked, again>>
        /\ sent' = [sent EXCEPT ![n] = @ + 1] /\ slips' = [slips EXCEPT ![n] = @ + 1]
        /\ fails' = fails \/ fails' = [fails EXCEPT ![n] = @ + 1]
    BY <1>3 DEF SendSlips, Accepted, AttemptFails, FailsForGood
  <2> QED  BY <1>0, <2>1 DEF SentOrSlipped
<1>4. CASE StallsOut(n)
  <2>1. /\ UNCHANGED <<marked, sent, again>> /\ slips' = [slips EXCEPT ![n] = @ + 1]
        /\ fails' = [fails EXCEPT ![n] = @ + 1]
    BY <1>4 DEF StallsOut, FailsForGood
  <2> QED  BY <1>0, <2>1 DEF SentOrSlipped
<1>5. CASE MarkerGone(n)
  <2>1. /\ UNCHANGED <<sent, fails, again>> /\ slips' = [slips EXCEPT ![n] = @ + 1]
        /\ marked' = marked \ {n}
    BY <1>5 DEF MarkerGone
  <2> QED  BY <1>0, <2>1 DEF SentOrSlipped
<1>6. CASE SkipSent(n) \/ ForgetJob(n)
  BY <1>0, <1>6 DEF SkipSent, ForgetJob, history, SentOrSlipped
<1> QED  BY <1>1, <1>2, <1>3, <1>4, <1>5, <1>6

LEMMA InitCount == Init => CountInv
<1> SUFFICES ASSUME Init  PROVE CountInv  OBVIOUS
<1>1. MailInv  BY InitInv DEF IInv
<1>2. SentOrSlipped  BY DEF Init, SentOrSlipped
<1>3. Recorded = {}  BY DEF Init, Recorded
<1>4. Rooted  BY <1>3 DEF Rooted
<1>5. Counted(slips, Rows) = {}  BY DEF Counted, Init
<1>6. Finite  BY <1>3, <1>5, FS_EmptySet DEF Finite
<1>7. \A r \in Rows : origin[r] # r  BY DeliveryAssumption DEF Init
<1> QED  BY <1>1, <1>2, <1>4, <1>6, <1>7 DEF CountInv

LEMMA NextCount == IInv /\ CountInv /\ [Next]_vars => CountInv'
<1> SUFFICES ASSUME IInv, CountInv, [Next]_vars  PROVE CountInv'  OBVIOUS
<1>0. MailInv'  BY NextInv DEF IInv
<1>1. /\ SentOrSlipped /\ Rooted /\ Finite /\ \A r \in Rows : origin[r] = r => Budget(r)
      /\ \A r \in Rows : origin[r] = r => r # Null
      /\ origin \in [Rows -> Rows \cup {Null}]
  BY DeliveryAssumption DEF CountInv, MailInv
<1>2. ASSUME NEW n \in Rows, Enqueue(n)  PROVE CountInv'
  <2>1. /\ origin' = [origin EXCEPT ![n] = n] /\ UNCHANGED <<marked, fails, again, sent, slips>>
    BY <1>2 DEF Enqueue
  <2>2. SentOrSlipped'  BY <1>1, <2>1 DEF SentOrSlipped
  <2>3. Finite'  BY <1>1, <2>1, FiniteKept
  <2>4. /\ Rooted' /\ Budget(n)' /\ \A r \in Rows : origin[r] = r => ChanceStep(r)
    BY <1>0, <1>2, <2>3, EnqueueCounts
  <2>5. \A r \in Rows : origin[r] = r => Budget(r)'
    BY <1>0, <1>1, <2>3, <2>4, BudgetKept DEF CountInv
  <2>6. \A r \in Rows : origin'[r] = r => r = n \/ origin[r] = r  BY <1>1, <2>1
  <2> QED  BY <1>0, <2>2, <2>3, <2>4, <2>5, <2>6 DEF CountInv
<1>3. ASSUME NEW n \in Rows,
             \/ AddEmailJob(n) \/ MarkPublished(n) \/ MarkFailed(n)
             \/ SendMail(n) \/ SkipSent(n) \/ SendFails(n) \/ SendSlips(n)
             \/ StallsOut(n) \/ MarkerGone(n) \/ ForgetJob(n)
      PROVE  CountInv'
  <2>1. origin' = origin
    BY <1>3 DEF AddEmailJob, MarkPublished, MarkFailed, SendMail, SkipSent, SendFails,
                SendSlips, StallsOut, MarkerGone, ForgetJob, dvars, history
  <2>2. SentOrSlipped' /\ (slips' = slips \/ slips' = [slips EXCEPT ![n] = @ + 1])
    <3>1. CASE \/ SendMail(n) \/ SkipSent(n) \/ SendFails(n) \/ SendSlips(n)
               \/ StallsOut(n) \/ MarkerGone(n) \/ ForgetJob(n)
      BY <3>1, SentStep
    <3>2. CASE MarkPublished(n) \/ MarkFailed(n)
      BY <1>1, <3>2 DEF MarkPublished, MarkFailed, dvars, history, SentOrSlipped
    <3>3. CASE AddEmailJob(n)
      <4>1. /\ UNCHANGED <<marked, sent, slips, fails>>
            /\ again' = again \/ again' = [again EXCEPT ![n] = fails[n]]
        BY <3>3 DEF AddEmailJob
      <4>2. fails \in [Rows -> Nat] /\ again \in [Rows -> Nat]
        BY DEF CountInv, MailInv
      <4> QED  BY <1>1, <4>1, <4>2 DEF SentOrSlipped
    <3> QED  BY <1>3, <3>1, <3>2, <3>3
  <2>3. Finite'  BY <1>1, <2>1, <2>2, FiniteKept
  <2>4. Rooted'  BY <1>1, <2>1 DEF Rooted, Recorded
  <2>5. \A r \in Rows : origin[r] = r => Budget(r)'
    BY <1>0, <1>1, <1>3, <2>3, RowSteps, BudgetKept DEF CountInv
  <2> QED  BY <1>0, <2>1, <2>2, <2>3, <2>4, <2>5 DEF CountInv
<1>4. ASSUME NEW o \in Operators, RedriveCommit(o)  PROVE CountInv'
  <2>1. UNCHANGED <<marked, fails, again, sent, slips>>  BY <1>4 DEF RedriveCommit
  <2>2. \/ origin' = origin
        \/ \E n, k \in Rows : origin[n] = Null /\ n # k /\ origin' = [origin EXCEPT ![n] = origin[k]]
    BY <1>4, CommitStamps DEF CountInv, ivars
  <2>3. SentOrSlipped'  BY <1>1, <2>1 DEF SentOrSlipped
  <2>4. Finite'
    <3>1. CASE origin' = origin  BY <1>1, <2>1, <3>1 DEF Finite, Recorded, Counted
    <3>2. CASE origin' # origin  BY <1>1, <2>1, <2>2, <3>2, FiniteKept
    <3> QED  BY <3>1, <3>2
  <2>5. Rooted' /\ \A r \in Rows : origin[r] = r => ChanceStep(r)
    BY <1>4, RedriveCounts
  <2>6. \A r \in Rows : origin[r] = r => Budget(r)'
    BY <1>0, <1>1, <2>4, <2>5, BudgetKept DEF CountInv
  <2>7. \A r \in Rows : origin'[r] = r => origin[r] = r
    <3> SUFFICES ASSUME NEW r \in Rows, origin'[r] = r, origin[r] # r  PROVE FALSE
      OBVIOUS
    <3>1. PICK n, k \in Rows : origin[n] = Null /\ origin' = [origin EXCEPT ![n] = origin[k]]
      BY <2>2
    <3>2. r = n /\ origin[k] = r  BY <1>1, <3>1
    <3> QED  BY <1>1, <3>1, <3>2, DeliveryAssumption DEF Rooted, Recorded
  <2> QED  BY <1>0, <2>3, <2>4, <2>5, <2>6, <2>7 DEF CountInv
<1>5. CASE UNCHANGED <<fate, queued, marked, redriven, origin, sent, slips, fails, again>>
  <2>1. \A r \in Rows : Budget(r)' <=> Budget(r)
    BY <1>5 DEF Budget, ChancesOf, ExtraOf, LateOf, Counted, Family, Chance
  <2>2. SentOrSlipped' /\ Rooted' /\ Finite'
    BY <1>1, <1>5 DEF SentOrSlipped, Rooted, Finite, Recorded, Counted
  <2> QED  BY <1>0, <1>1, <1>5, <2>1, <2>2 DEF CountInv
<1>6. \/ \E n \in Rows : \/ Enqueue(n) \/ AddEmailJob(n) \/ MarkPublished(n) \/ MarkFailed(n)
                         \/ SendMail(n) \/ SkipSent(n) \/ SendFails(n) \/ SendSlips(n)
                         \/ StallsOut(n) \/ MarkerGone(n) \/ ForgetJob(n)
      \/ \E o \in Operators : RedriveCommit(o)
      \/ UNCHANGED <<fate, queued, marked, redriven, origin, sent, slips, fails, again>>
  BY DEF Next, vars, dvars, history, ivars, RedriveRead, PruneLetter
<1> QED  BY <1>2, <1>3, <1>4, <1>5, <1>6

\* A business change is mailed at most once more than the slips of its rows, the
\* jobs created again after a failure and the jobs added to rows that were given
\* up: for any number of rows, operators and re-drives.
THEOREM MailedOncePerChange == Spec => []MailedOnce
<1>1. CountInv => MailedOnce
  <2> SUFFICES ASSUME CountInv, NEW r \in Rows, origin[r] = r
               PROVE  Cardinality(Counted(sent, Family(r)))
                        <= 1 + Cardinality(Counted(slips, Family(r)))
                             + Cardinality(Counted(again, Family(r))) + Cardinality(LateOf(r))
    BY DEF MailedOnce
  <2> DEFINE F == Family(r)
             done == {n \in F : sent[n] > slips[n]}
             last == {<<n, sent[n]>> : n \in done}
             S == Counted(slips, F)
             A == Counted(again, F)
             T == LateOf(r) \X {0}
  <2>0. /\ F \subseteq Rows /\ Finite /\ MailInv /\ r # Null
        /\ \A n \in Rows : sent[n] \in Nat /\ slips[n] \in Nat
        /\ \A n \in Rows :
             sent[n] <= slips[n] + (IF n \in marked /\ fails[n] = again[n] THEN 1 ELSE 0)
    BY DeliveryAssumption DEF CountInv, SentOrSlipped, Family
  <2>1. IsFiniteSet(ChancesOf(r)) /\ IsFiniteSet(LateOf(r)) /\ IsFiniteSet(A)
    BY <2>0, FamiliesFinite
  <2>2. IsFiniteSet(S)
    <3>1. S \subseteq Counted(slips, Rows)  BY <2>0 DEF Counted
    <3> QED  BY <2>0, <3>1, FS_Subset DEF Finite
  <2>3. IsFiniteSet(last) /\ Cardinality(last) <= Cardinality(ChancesOf(r))
    <3> DEFINE g == [x \in last |-> <<x[1], Own>>]
    <3>1. \A n \in done : <<n, Own>> \in ChancesOf(r)
      <4> SUFFICES ASSUME NEW n \in done  PROVE <<n, Own>> \in ChancesOf(r)  OBVIOUS
      <4>1. n \in marked /\ fails[n] = again[n]  BY <2>0
      <4>2. n \in queued  BY <2>0, <4>1 DEF MailInv, TypeOK
      <4> QED  BY <4>1, <4>2, ChanceKinds DEF ChancesOf, Chance
    <3>2. g \in [last -> ChancesOf(r)]  BY <3>1
    <3>3. \A x, y \in last : g[x] = g[y] => x = y  OBVIOUS
    <3>4. g \in Injection(last, ChancesOf(r))  BY <3>2, <3>3, Fun_IsInj
    <3> QED  BY <2>1, <3>4, FS_Injection
  <2>4. Counted(sent, F) \subseteq S \cup last
    <3> SUFFICES ASSUME NEW n \in F, NEW i \in 1 .. sent[n], <<n, i>> \notin S
                 PROVE  <<n, i>> \in last
      BY DEF Counted
    <3>1. ~(i \in 1 .. slips[n])  BY DEF Counted
    <3>2. n \in done /\ i = sent[n]  BY <2>0, <3>1
    <3> QED  BY <3>2
  <2>5. /\ IsFiniteSet(S \cup last)
        /\ Cardinality(S \cup last) <= Cardinality(S) + Cardinality(last)
    <3>1. /\ IsFiniteSet(S \cup last)
          /\ Cardinality(S \cup last) = Cardinality(S) + Cardinality(last) - Cardinality(S \cap last)
      BY <2>2, <2>3, FS_Union
    <3>2. IsFiniteSet(S \cap last)  BY <2>2, FS_Intersection
    <3>3. /\ Cardinality(S) \in Nat /\ Cardinality(last) \in Nat
          /\ Cardinality(S \cap last) \in Nat
      BY <2>2, <2>3, <3>2, FS_CardinalityType
    <3> QED  BY <3>1, <3>3
  <2>6. Cardinality(Counted(sent, F)) <= Cardinality(S \cup last) /\ IsFiniteSet(Counted(sent, F))
    BY <2>4, <2>5, FS_Subset
  <2>7. /\ IsFiniteSet(ExtraOf(r))
        /\ Cardinality(ExtraOf(r)) <= Cardinality(LateOf(r)) + Cardinality(A)
    <3>1. IsFiniteSet(T) /\ Cardinality(T) = Cardinality(LateOf(r))
      <4>1. IsFiniteSet({0}) /\ Cardinality({0}) = 1  BY FS_Singleton
      <4>2. IsFiniteSet(T) /\ Cardinality(T) = Cardinality(LateOf(r)) * Cardinality({0})
        BY <2>1, <4>1, FS_Product
      <4>3. Cardinality(LateOf(r)) \in Nat  BY <2>1, FS_CardinalityType
      <4> QED  BY <4>1, <4>2, <4>3
    <3>2. /\ IsFiniteSet(T \cup A) /\ IsFiniteSet(T \cap A)
          /\ Cardinality(T \cup A) = Cardinality(T) + Cardinality(A) - Cardinality(T \cap A)
      BY <2>1, <3>1, FS_Union, FS_Intersection
    <3>3. Cardinality(T) \in Nat /\ Cardinality(A) \in Nat /\ Cardinality(T \cap A) \in Nat
      BY <2>1, <3>1, <3>2, FS_CardinalityType
    <3>4. ExtraOf(r) = T \cup A  BY DEF ExtraOf
    <3> QED  BY <3>1, <3>2, <3>3, <3>4
  <2>8. /\ Cardinality(Counted(sent, F)) \in Nat /\ Cardinality(S \cup last) \in Nat
        /\ Cardinality(S) \in Nat /\ Cardinality(last) \in Nat /\ Cardinality(A) \in Nat
        /\ Cardinality(ChancesOf(r)) \in Nat /\ Cardinality(LateOf(r)) \in Nat
        /\ Cardinality(ExtraOf(r)) \in Nat
    BY <2>1, <2>2, <2>3, <2>5, <2>6, <2>7, FS_CardinalityType
  <2>9. Cardinality(ChancesOf(r)) <= 1 + Cardinality(ExtraOf(r))  BY DEF CountInv, Budget
  <2> HIDE DEF F, S, A, T, last
  <2>10. Cardinality(Counted(sent, F))
           <= 1 + Cardinality(S) + Cardinality(A) + Cardinality(LateOf(r))
    BY <2>3, <2>5, <2>6, <2>7, <2>8, <2>9
  <2> QED  BY <2>10 DEF F, S, A
<1> QED  BY <1>1, InitCount, NextCount, InitInv, NextInv, PTL DEF Spec
=============================================================================
