------------------------------ MODULE MailDelivery ------------------------------
(***************************************************************************)
(* From an intent to a mail: the outbox by its promise (OutboxIntent), the *)
(* email jobs, the templates they are rendered with, the dead letters of   *)
(* both the relay and the workers, and their re-driving.                   *)
(*                                                                         *)
(* Which failure of a job is its last one, and what a worker process may   *)
(* lose, is the subject of JobWorkers: here every failure may be the last, *)
(* and every dead letter of a job may be lost.  Edits, re-drives, removed *)
(* jobs and letters, lost markers and mailed jobs that fail share one      *)
(* bound, MaxEvents.                                                       *)
(***************************************************************************)
EXTENDS OutboxIntent, EmailTemplates

CONSTANTS
  Operators,   \* concurrent runs of the redrive script
  MaxIntents,  \* bound on the business changes
  MaxAgain     \* bound on how often a row's failed job leaves Redis

ASSUME DeliveryAssumption ==
  Null \notin Rows /\ MaxEvents \in Nat /\ MaxIntents \in Nat /\ MaxAgain \in Nat

VARIABLES
  job,        \* Redis: the email job outbox-<id> of each row
  marked,     \* Redis: rows with a key email:sent:outbox-<id>
  letter,     \* dead_letter_jobs: each letter, by its row and who wrote it
  redriven,   \* redrive_outbox_id: the row created by re-driving a letter
  op,         \* the letter each operator is re-driving
  origin,     \* history: the row of the business change a row goes back to
  sent,       \* history: mails of each row
  flawed,     \* history: rows with a mail that was not fit to be sent
  slips,      \* history: mails of each row that neither marker nor job tells of
  fails,      \* history: how often each row's job failed for good
  again       \* history: how often it was created again after that

history == <<origin, sent, flawed, slips, fails, again>>
dvars == <<job, marked, letter, redriven, op, history>>
vars == <<ivars, tvars, dvars>>

\* Letter 0 of a row is the relay's, letter i the one of its job's i-th failure.
Letters == Rows \X (0 .. MaxAgain + 1)

LatestLetter(r) == <<r, fails[r] + 1>>

Init ==
  /\ IntentInit /\ TemplatesInit
  /\ job = [r \in Rows |-> "none"]
  /\ marked = {}
  /\ letter = [l \in Letters |-> "none"]
  /\ redriven = [l \in Letters |-> Null]
  /\ op = [o \in Operators |-> Null]
  /\ origin = [r \in Rows |-> Null]
  /\ sent = [r \in Rows |-> 0]
  /\ flawed = {}
  /\ slips = [r \in Rows |-> 0]
  /\ fails = [r \in Rows |-> 0]
  /\ again = [r \in Rows |-> 0]

-----------------------------------------------------------------------------
(***************************************************************************)
(* The outbox, as promised by OutboxIntent.                                *)
(***************************************************************************)
Enqueue(r) ==
  /\ Cardinality({n \in Rows : origin[n] = n}) < MaxIntents
  /\ Record(r)
  /\ origin' = [origin EXCEPT ![r] = r]
  /\ UNCHANGED <<tvars, job, marked, letter, redriven, op, sent, flawed, slips, fails, again>>

\* Mutant: the job is added without an id, so that every publish makes another,
\* with an id and a marker of its own.
AddAnonymous(r) ==
  /\ AddJob(r)
  /\ job' = [job EXCEPT ![r] = "wait"]
  /\ marked' = marked \ {r}
  /\ again' = [again EXCEPT ![r] = fails[r]]
  /\ UNCHANGED <<tvars, letter, redriven, op, origin, sent, flawed, slips, fails>>

\* The job is added, in time or late, under an id of the row: nothing happens
\* while Redis has a job of that id, but one that it no longer has is created
\* again, even if it has failed for good.
AddEmailJob(r) ==
  /\ AddJob(r)
  /\ job' = [job EXCEPT ![r] = IF @ = "none" THEN "wait" ELSE @]
  /\ again' = IF job[r] = "none" THEN [again EXCEPT ![r] = fails[r]] ELSE again
  /\ UNCHANGED <<tvars, marked, letter, redriven, op, origin, sent, flawed, slips, fails>>

MarkPublished(r) ==
  /\ Publish(r)
  /\ UNCHANGED <<tvars, dvars>>

\* markFailed copies the intent to the dead letters.
MarkFailed(r) ==
  /\ GiveUp(r)
  /\ letter' = [letter EXCEPT ![<<r, 0>>] = "kept"]
  /\ UNCHANGED <<tvars, job, marked, redriven, op, history>>

-----------------------------------------------------------------------------
(***************************************************************************)
(* The email worker.                                                       *)
(***************************************************************************)
\* A mail without the link or code it is about, or with a raw placeholder.
Flawed(mail) == mail.raw # {} \/ ~(Required(kind) \subseteq mail.shown)

\* The mail server has the mail of r, as it was rendered for this attempt.  No
\* step sees the time between rendering and sending.
Accepted(r) ==
  /\ sent' = [sent EXCEPT ![r] = @ + 1]
  /\ flawed' = IF Flawed(Rendered) THEN flawed \cup {r} ELSE flawed

\* No marker, sendMail, and the marker after it.  The process may be lost before
\* the job completes.
SendMail(r) ==
  /\ job[r] = "wait" /\ r \notin marked
  /\ Accepted(r)
  /\ marked' = marked \cup {r}
  /\ job' \in {job, [job EXCEPT ![r] = "completed"]}
  /\ UNCHANGED <<ivars, tvars, letter, redriven, op, origin, slips, fails, again>>

\* The job was mailed before, and its marker is found.
SkipSent(r) ==
  /\ job[r] = "wait" /\ r \in marked
  /\ job' = [job EXCEPT ![r] = "completed"]
  /\ UNCHANGED <<ivars, tvars, marked, letter, redriven, op, history>>

\* The job has failed for good: its dead letter is written or lost.
FailsForGood(r) ==
  /\ job' = [job EXCEPT ![r] = "failed"]
  /\ fails' = [fails EXCEPT ![r] = @ + 1]
  /\ letter' \in {letter, [letter EXCEPT ![LatestLetter(r)] = "kept"]}

\* Mutant: every failed attempt is recorded as a dead letter.
LetterPerAttempt(r) ==
  \/ /\ letter' = [letter EXCEPT ![LatestLetter(r)] = "kept"]
     /\ UNCHANGED <<job, fails>>
  \/ FailsForGood(r)

\* The attempt failed, and there is another one or not.
AttemptFails(r) == UNCHANGED <<job, fails, letter>> \/ FailsForGood(r)

\* The mail is refused, or was never offered.
SendFails(r) ==
  /\ job[r] = "wait" /\ r \notin marked
  /\ AttemptFails(r)
  /\ UNCHANGED <<ivars, tvars, marked, redriven, op, origin, sent, flawed, slips, again>>

\* The mail is accepted, but the answer or the marker is lost, so that the attempt
\* fails or the job completes without a marker.
SendSlips(r) ==
  /\ job[r] = "wait" /\ r \notin marked /\ Event
  /\ Accepted(r)
  /\ slips' = [slips EXCEPT ![r] = @ + 1]
  /\ \/ AttemptFails(r)
     \/ job' = [job EXCEPT ![r] = "completed"] /\ UNCHANGED <<fails, letter>>
  /\ UNCHANGED <<ivars, kind, template, editor, marked, redriven, op, origin, again>>

\* A job that was mailed fails for good all the same: it stalled once too often.
StallsOut(r) ==
  /\ job[r] = "wait" /\ r \in marked /\ Event
  /\ slips' = [slips EXCEPT ![r] = @ + 1]
  /\ FailsForGood(r)
  /\ UNCHANGED <<ivars, kind, template, editor, marked, redriven, op, origin, sent, flawed, again>>

\* The marker expires, or Redis loses it.
MarkerGone(r) ==
  /\ r \in marked /\ Event
  /\ marked' = marked \ {r}
  /\ slips' = [slips EXCEPT ![r] = @ + 1]
  /\ UNCHANGED <<ivars, kind, template, editor, job, letter, redriven, op, origin, sent, flawed,
                 fails, again>>

\* removeOnComplete, removeOnFail: other jobs push an ended one out of Redis.
ForgetJob(r) ==
  /\ job[r] \in {"completed", "failed"} /\ Event
  /\ job[r] = "failed" => again[r] < MaxAgain
  /\ job' = [job EXCEPT ![r] = "none"]
  /\ UNCHANGED <<ivars, kind, template, editor, marked, letter, redriven, op, history>>

-----------------------------------------------------------------------------
(***************************************************************************)
(* redrive: read the letter and check that it may be replayed, then insert *)
(* a new intent and stamp the letter if no one else has.                   *)
(***************************************************************************)
RedriveRead(o, l) ==
  /\ op[o] = Null /\ Event
  /\ letter[l] = "kept" /\ redriven[l] = Null
  /\ op' = [op EXCEPT ![o] = l]
  /\ UNCHANGED <<ivars, kind, template, editor, job, marked, letter, redriven, history>>

\* Mutant: the stamp is not conditional.
RedriveStampAlways(o) ==
  /\ op[o] # Null
  /\ \/ \E n \in Rows :
          /\ Record(n)
          /\ origin' = [origin EXCEPT ![n] = origin[op[o][1]]]
          /\ redriven' = [redriven EXCEPT ![op[o]] = n]
     \/ UNCHANGED <<ivars, redriven, origin>>
  /\ op' = [op EXCEPT ![o] = Null]
  /\ UNCHANGED <<tvars, job, marked, letter, sent, flawed, slips, fails, again>>

\* Either the transaction commits, or it rolls back: the record was stamped or
\* pruned meanwhile, its token is no longer valid, or the database failed.
RedriveCommit(o) ==
  /\ op[o] # Null
  /\ \/ \E n \in Rows :
          /\ letter[op[o]] = "kept" /\ redriven[op[o]] = Null
          /\ Record(n)
          /\ origin' = [origin EXCEPT ![n] = origin[op[o][1]]]
          /\ redriven' = [redriven EXCEPT ![op[o]] = n]
     \/ UNCHANGED <<ivars, redriven, origin>>
  /\ op' = [op EXCEPT ![o] = Null]
  /\ UNCHANGED <<tvars, job, marked, letter, sent, flawed, slips, fails, again>>

\* prune, stamped or not.
PruneLetter(l) ==
  /\ letter[l] = "kept" /\ Event
  /\ letter' = [letter EXCEPT ![l] = "pruned"]
  /\ UNCHANGED <<ivars, kind, template, editor, job, marked, redriven, op, history>>

-----------------------------------------------------------------------------
Next ==
  \/ \E r \in Rows : \/ Enqueue(r) \/ AddEmailJob(r) \/ MarkPublished(r) \/ MarkFailed(r)
                     \/ SendMail(r) \/ SkipSent(r) \/ SendFails(r) \/ SendSlips(r)
                     \/ StallsOut(r) \/ MarkerGone(r) \/ ForgetJob(r)
  \/ \E o \in Operators : RedriveCommit(o) \/ \E l \in Letters : RedriveRead(o, l)
  \/ \E l \in Letters : PruneLetter(l)
  \/ TemplatesNext /\ UNCHANGED <<ivars, dvars>>

Spec == Init /\ [][Next]_vars

-----------------------------------------------------------------------------
(***************************************************************************)
(* Properties.                                                             *)
(***************************************************************************)
\* Type invariant: jobs, markers, letters and rows go together: a job in Redis
\* belongs to a row that was recorded, a letter to a row that was given up or to
\* a final failure of its job, which has one more of them than it was created
\* again exactly if it failed or was removed after that; a stamp names a row of
\* the same origin.
TypeOK ==
  /\ \A r \in Rows : /\ job[r] \in {"none", "wait", "completed", "failed"}
                     /\ job[r] # "none" \/ r \in marked \/ fails[r] > 0 => r \in queued
                     /\ fate[r] = "none" <=> origin[r] = Null
                     /\ fails[r] \in {again[r], again[r] + 1} /\ again[r] <= MaxAgain
                     /\ job[r] \in {"wait", "completed"} => fails[r] = again[r]
                     /\ job[r] = "failed" => fails[r] > again[r]
  /\ \A l \in Letters : letter[l] # "none" =>
       IF l[2] = 0 THEN fate[l[1]] = "failed" ELSE l[2] <= fails[l[1]]
  /\ \A r \in Rows : fate[r] = "failed" => letter[<<r, 0>>] # "none"
  /\ \A l \in Letters : redriven[l] # Null =>
       /\ letter[l] # "none"
       /\ origin[redriven[l]] = origin[l[1]] /\ origin[l[1]] # Null

\* A dead letter is re-driven at most once, whatever the operators' races and
\* retention do: no two rows come from one letter, and a stamp never changes
\* (redrive: "a concurrent re-drive of the same row ... matches nothing").
RedrivenOnce ==
  [][/\ \A l \in Letters : redriven[l] # Null => redriven'[l] = redriven[l]
     /\ \A l, m \in Letters : l # m /\ redriven'[l] # Null => redriven'[l] # redriven'[m]]_vars

Family(r) == {n \in Rows : origin[n] = r}

\* What was counted for the rows of S, one by one.
Counted(count, S) == UNION {{n} \X (1 .. count[n]) : n \in S}

\* Rows that were given up although their job was added.
LateOf(r) == {n \in Family(r) : fate[n] = "failed" /\ n \in queued}

\* A business change is mailed once, through any number of re-drives, but for
\* the mails that neither marker nor job told of, the jobs that were created again
\* after they had failed for good, and the rows that the relay gave up although
\* their job was added after all.  Re-driving the dead letter of such a job or row
\* may mail the change again: the new row has a new job id, and so a new marker.
MailedOnce ==
  \A r \in Rows :
    origin[r] = r =>
      Cardinality(Counted(sent, Family(r)))
        <= 1 + Cardinality(Counted(slips, Family(r)))
             + Cardinality(Counted(again, Family(r))) + Cardinality(LateOf(r))

\* Every mail that was sent has the link or code it is about and a value for each
\* placeholder, whatever was edited between the intent and the attempt.
MailsComplete == flawed = {}
=============================================================================
