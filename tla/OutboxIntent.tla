------------------------------ MODULE OutboxIntent ------------------------------
(***************************************************************************)
(* What the transactional outbox promises of one email intent: it is       *)
(* recorded with its business change, then either handed to the queue or   *)
(* given up with exactly one dead letter, never both and never undone; an  *)
(* intent only counts as handed over once its job is in the queue.         *)
(***************************************************************************)
EXTENDS Naturals

CONSTANT Rows

VARIABLES
  fate,     \* of each intent: none, open, published, failed
  queued    \* intents whose job was added to the queue

ivars == <<fate, queued>>

IntentInit ==
  /\ fate = [r \in Rows |-> "none"]
  /\ queued = {}

Record(r) ==
  /\ fate[r] = "none"
  /\ fate' = [fate EXCEPT ![r] = "open"]
  /\ UNCHANGED queued

\* Adding its job, for the first time or again, leaves an intent's fate alone; a
\* late addition is possible in every fate.
AddJob(r) ==
  /\ fate[r] # "none"
  /\ queued' = queued \cup {r}
  /\ UNCHANGED fate

Publish(r) ==
  /\ fate[r] = "open" /\ r \in queued
  /\ fate' = [fate EXCEPT ![r] = "published"]
  /\ UNCHANGED queued

GiveUp(r) ==
  /\ fate[r] = "open"
  /\ fate' = [fate EXCEPT ![r] = "failed"]
  /\ UNCHANGED queued

IntentNext == \E r \in Rows : Record(r) \/ AddJob(r) \/ Publish(r) \/ GiveUp(r)

IntentSpec == IntentInit /\ [][IntentNext]_ivars
=============================================================================
