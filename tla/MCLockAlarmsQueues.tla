------------------------- MODULE MCLockAlarmsQueues -------------------------
(***************************************************************************)
(* Three parts that share no state, in one run: the lock of a Durable      *)
(* Object's storage, the alarms, and the queues.  A behaviour is of one of *)
(* them, and the others stay as they began, where nothing is bound to      *)
(* happen but that a queue gets its consumer.                              *)
(*                                                                         *)
(* Lock: four calls that read or write over and over; two can hold the     *)
(* read lock while a writer and one more are queued.  Alarms: the check    *)
(* runs every second unit of time; an alarm can be set for now, for before *)
(* the next check, for the overlap and for beyond.  Queues: one with a     *)
(* dead letter queue, which has a consumer of its own, and three messages  *)
(* for batches of two: a partial batch can be under way while a full one   *)
(* gathers.  One reload can come at any time.                              *)
(***************************************************************************)
EXTENDS ReadWriteMutex, AlarmStore, QueueBroker, TLC

CONSTANTS main, letters  \* the queue and its dead letter queue

MCConsumer ==
  main    :> [maxBatchSize |-> 2, maxRetries |-> 1, deadLetterQueue |-> letters] @@
  letters :> [maxBatchSize |-> 1, maxRetries |-> 0, deadLetterQueue |-> None]

VARIABLE part   \* which of them a behaviour is of

MCInit == part \in {"lock", "alarms", "queues"} /\ MutexInit /\ AlarmInit /\ Init

\* The lock can always be asked for again; the others may come to rest.
AtRest == part # "lock" /\ UNCHANGED <<mutexVars, alarmVars, vars>>

MCNext ==
  /\ UNCHANGED part
  /\ \/ part = "lock" /\ MutexNext /\ UNCHANGED <<alarmVars, vars>>
     \/ part = "alarms" /\ AlarmNext /\ UNCHANGED <<mutexVars, vars>>
     \/ part = "queues" /\ Next /\ UNCHANGED <<mutexVars, alarmVars>>
     \/ AtRest

MCSpec ==
  /\ MCInit /\ [][MCNext]_<<part, mutexVars, alarmVars, vars>>
  /\ MutexFairness /\ AlarmFairness /\ FlushFairness
  /\ \A q \in Queues : WF_vars(part = "queues" /\ SetConsumer(q))
=============================================================================
