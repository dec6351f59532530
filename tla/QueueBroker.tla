---------------------------- MODULE QueueBroker ----------------------------
(***************************************************************************)
(* packages/queues/src/broker.ts: queues that collect messages and flush   *)
(* them in batches to the consumer that the current worker registered.     *)
(*                                                                         *)
(* A flush is under way from the timer that starts it to the end of the    *)
(* consumer's queue() handler; meanwhile messages are sent, timers fire    *)
(* and reloads take the consumer away and put it back.  How long timers    *)
(* wait is left open.  A message is its body: the dead letter queue gets a *)
(* new Message with the same body and no failed attempts.                  *)
(***************************************************************************)
EXTENDS Naturals, FiniteSets, SequencesExt, Nothing

CONSTANTS
  Queues, Messages,
  Consumer,    \* for every queue: its maxBatchSize, maxRetries, deadLetterQueue
  MaxReloads   \* bound: how often the worker is reloaded

ASSUME QueuesFinite == IsFiniteSet(Queues) /\ IsFiniteSet(Messages)
ASSUME ConsumerType ==
  Consumer \in [Queues -> [maxBatchSize : Nat \ {0}, maxRetries : Nat,
                           deadLetterQueue : Queues \union {None}]]
ASSUME NoneIsNoQueue == None \notin Queues

VARIABLES
  queue,     \* for every queue:
             \*   messages      #messages
             \*   consumer      whether there is a #consumer
             \*   pendingFlush  #pendingFlush
             \*   timeout       whether #timeout is a timer that has not fired
             \*   orphans       timers that are set but no longer in #timeout
             \*   batches       the batches whose handler runs
  failedAttempts,
  status,    \* whether a message is with the queues, and how it left them
  reloads    \* reloads so far

vars == <<queue, failedAttempts, status, reloads>>

Init ==
  /\ queue = [q \in Queues |->
                [messages |-> << >>, consumer |-> FALSE, pendingFlush |-> "NONE",
                 timeout |-> FALSE, orphans |-> 0, batches |-> << >>]]
  /\ failedAttempts = [m \in Messages |-> 0]
  /\ status = [m \in Messages |-> "unsent"]
  /\ reloads = 0

-----------------------------------------------------------------------------
(***************************************************************************)
(* Operations on the state Q of one queue q.                               *)
(***************************************************************************)
BatchIsFull(q, Q) == Len(Q.messages) >= Consumer[q].maxBatchSize

\* setTimeout: a timer that was in #timeout is forgotten, not cleared.
SetTimer(Q, flush) ==
  [Q EXCEPT !.pendingFlush = flush, !.timeout = TRUE,
            !.orphans = IF Q.timeout THEN @ + 1 ELSE @]

ClearTimer(Q) == [Q EXCEPT !.timeout = FALSE]

\* #ensurePendingFlush: a full batch is flushed at once, and replaces a
\* delayed flush; otherwise the flush is delayed.
ensurePendingFlush(q, Q) ==
  CASE ~Q.consumer \/ Q.pendingFlush = "IMMEDIATE" -> Q
    [] Q.consumer /\ Q.pendingFlush # "IMMEDIATE" /\ BatchIsFull(q, Q) ->
         SetTimer(IF Q.pendingFlush = "DELAYED" THEN ClearTimer(Q) ELSE Q, "IMMEDIATE")
    [] Q.consumer /\ Q.pendingFlush = "NONE" /\ ~BatchIsFull(q, Q) ->
         SetTimer(Q, "DELAYED")
    [] OTHER -> Q

\* #enqueue of messages ms, one after the other: the last call decides.
enqueue(q, Q, ms) ==
  IF ms = << >> THEN Q
  ELSE ensurePendingFlush(q, [Q EXCEPT !.messages = @ \o ms])

-----------------------------------------------------------------------------
Send(q, m) ==
  /\ status[m] = "unsent"
  /\ status' = [status EXCEPT ![m] = "sent"]
  /\ queue' = [queue EXCEPT ![q] = enqueue(q, @, <<m>>)]
  /\ UNCHANGED <<failedAttempts, reloads>>

\* Mutant of SetConsumer: messages that wait for a consumer are not flushed.
SetConsumerOnly(q) ==
  /\ ~queue[q].consumer
  /\ queue' = [queue EXCEPT ![q].consumer = TRUE]
  /\ UNCHANGED <<failedAttempts, status, reloads>>

\* [kSetConsumer](consumer), in beforeReload().
SetConsumer(q) ==
  /\ ~queue[q].consumer
  /\ LET Q == [queue[q] EXCEPT !.consumer = TRUE]
     IN  queue' = [queue EXCEPT ![q] =
                     IF Q.messages = << >> THEN Q ELSE ensurePendingFlush(q, Q)]
  /\ UNCHANGED <<failedAttempts, status, reloads>>

\* Mutant of Reload: the cleared timer's flush is still noted as pending.
ReloadKeepsPending ==
  /\ reloads < MaxReloads
  /\ reloads' = reloads + 1
  /\ queue' = [q \in Queues |-> [queue[q] EXCEPT !.timeout = FALSE, !.consumer = FALSE]]
  /\ UNCHANGED <<failedAttempts, status>>

\* #reload() of the core: resetConsumers(), [kSetConsumer](undefined) of all.
Reload ==
  /\ reloads < MaxReloads
  /\ reloads' = reloads + 1
  /\ queue' = [q \in Queues |->
                 [queue[q] EXCEPT !.timeout = FALSE, !.pendingFlush = "NONE",
                                  !.consumer = FALSE]]
  /\ UNCHANGED <<failedAttempts, status>>

\* Mutant of StartBatch: the batch stays in #messages.
StartBatchKeeps(q, Q) ==
  LET size == IF BatchIsFull(q, Q) THEN Consumer[q].maxBatchSize ELSE Len(Q.messages)
  IN  [Q EXCEPT !.batches = Append(@, SubSeq(Q.messages, 1, size))]

\* #flush() up to its await: at most maxBatchSize messages leave the queue.
\* There may be none, and the handler is called all the same.
StartBatch(q, Q) ==
  LET size == IF BatchIsFull(q, Q) THEN Consumer[q].maxBatchSize ELSE Len(Q.messages)
  IN  [Q EXCEPT !.batches = Append(@, SubSeq(Q.messages, 1, size)),
                !.messages = SubSeq(@, size + 1, Len(@))]

Flush(q, Q) ==
  queue' = [queue EXCEPT ![q] = IF Q.consumer THEN StartBatch(q, Q) ELSE Q]

\* A timer fires, the one in #timeout or one that was forgotten.
TimerFires(q) ==
  /\ \/ queue[q].timeout /\ Flush(q, [queue[q] EXCEPT !.timeout = FALSE])
     \/ queue[q].orphans > 0 /\ Flush(q, [queue[q] EXCEPT !.orphans = @ - 1])
  /\ UNCHANGED <<failedAttempts, status, reloads>>

\* Mutant of Exhausted: one attempt too many.
ExhaustedLate(q, m) == failedAttempts[m] + 1 > Consumer[q].maxRetries + 1

\* The last attempt a message has, maxRetries + 1, failed as well.
Exhausted(q, m) == failedAttempts[m] + 1 >= Consumer[q].maxRetries + 1

\* #flush() after its await, when batch i is done and ms are to be retried:
\* it takes the pending flush for its own and starts another if needed.
Requeue(q, i, ms) ==
  LET Q == [queue[q] EXCEPT !.batches = RemoveAt(@, i),
                            !.pendingFlush = "NONE", !.timeout = FALSE,
                            !.orphans = IF queue[q].timeout THEN @ + 1 ELSE @,
                            !.messages = @ \o ms]
  IN  IF Q.messages = << >> THEN Q ELSE ensurePendingFlush(q, Q)

\* The messages of a batch that are in S, in their order.
Those(batch, S) ==
  LET those[n \in 0 .. Len(batch)] ==
        IF n = 0 THEN << >>
        ELSE IF batch[n] \in S THEN Append(those[n - 1], batch[n]) ELSE those[n - 1]
  IN  those[Len(batch)]

\* The handler of batch i settles: it asked to retry the messages in F, by
\* retry(), retryAll() or by throwing.
FlushDone(q, i, F) ==
  LET batch == queue[q].batches[i]
      dlq   == Consumer[q].deadLetterQueue
      last  == {m \in F : Exhausted(q, m)}
      again == Those(batch, F \ last)
      dead  == Those(batch, last)
      rest  == [queue EXCEPT ![q] = Requeue(q, i, again)]
  IN
  /\ queue' = IF dlq = None THEN rest
              ELSE [rest EXCEPT ![dlq] = enqueue(dlq, @, dead)]
  /\ failedAttempts' = [m \in Messages |->
                          IF m \in last THEN 0
                          ELSE failedAttempts[m] + Cardinality(F \intersect {m})]
  /\ status' = [m \in Messages |->
                  CASE m \in ToSet(batch) \ F    -> "acked"
                    [] m \in last /\ dlq = None -> "dropped"
                    [] OTHER                     -> status[m]]
  /\ UNCHANGED reloads

HandlerReturns(q) ==
  \E i \in DOMAIN queue[q].batches :
    \E F \in SUBSET ToSet(queue[q].batches[i]) : FlushDone(q, i, F)

-----------------------------------------------------------------------------
Next ==
  \/ Reload
  \/ \E q \in Queues :
       \/ SetConsumer(q) \/ TimerFires(q) \/ HandlerReturns(q)
       \/ \E m \in Messages : Send(q, m)

Spec == Init /\ [][Next]_vars

\* Timers fire, handlers settle, and a reload registers the consumers anew.
FlushFairness == \A q \in Queues : WF_vars(TimerFires(q)) /\ WF_vars(HandlerReturns(q))
Fairness == FlushFairness /\ \A q \in Queues : WF_vars(SetConsumer(q))

FairSpec == Spec /\ Fairness

-----------------------------------------------------------------------------
(***************************************************************************)
(* Properties.                                                             *)
(***************************************************************************)
QueueState ==
  [messages : Seq(Messages), consumer : BOOLEAN,
   pendingFlush : {"NONE", "DELAYED", "IMMEDIATE"}, timeout : BOOLEAN,
   orphans : Nat, batches : Seq(Seq(Messages))]

\* Type correctness.
TypeOK ==
  /\ queue \in [Queues -> QueueState]
  /\ failedAttempts \in [Messages -> Nat]
  /\ status \in [Messages -> {"unsent", "sent", "acked", "dropped"}]
  /\ reloads \in Nat

\* The messages are spread over queues and batches without a duplicate, and
\* they are those that were sent and are not settled: no message is lost or
\* delivered by two flushes at once, whatever flushes and reloads overlap.
Waiting(q) == queue[q].messages
InBatches(q) == FlattenSeq(queue[q].batches)
NoneLostNoneTwice ==
  /\ \A q \in Queues : IsInjective(Waiting(q) \o InBatches(q))
  /\ \A q, r \in Queues :
       q # r => ToSet(Waiting(q) \o InBatches(q)) \intersect ToSet(Waiting(r) \o InBatches(r)) = {}
  /\ {m \in Messages : status[m] = "sent"} =
       UNION {ToSet(Waiting(q) \o InBatches(q)) : q \in Queues}

\* A queue with a consumer and messages has a flush to come: a timer is set,
\* or a flush is under way that will look at the messages when it ends.
FlushToCome ==
  \A q \in Queues :
    queue[q].consumer /\ queue[q].messages # << >> =>
      queue[q].timeout \/ queue[q].orphans > 0 \/ queue[q].batches # << >>

\* Every message is acknowledged or dropped in the end, through retries, the
\* dead letter queue and reloads.
EveryMessageSettles ==
  \A m \in Messages : status[m] = "sent" ~> status[m] \in {"acked", "dropped"}

\* Batches, retries and dead letters implement the abstract delivery.
Place(m) ==
  CASE status[m] # "sent" -> [at |-> status[m], queue |-> None]
    [] status[m] = "sent" /\ \E q \in Queues : m \in ToSet(Waiting(q)) ->
         [at |-> "queued", queue |-> CHOOSE q \in Queues : m \in ToSet(Waiting(q))]
    [] OTHER ->
         [at |-> "delivering", queue |-> CHOOSE q \in Queues : m \in ToSet(InBatches(q))]

Delivery == INSTANCE QueueDelivery WITH
  place    <- [m \in Messages |-> Place(m)],
  failures <- failedAttempts
ImplementsDelivery == Delivery!Spec
=============================================================================
