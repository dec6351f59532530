--------------------------- MODULE QueueDelivery ---------------------------
(***************************************************************************)
(* What queues promise their producers and consumers: every message is in  *)
(* one place, is delivered in batches of bounded size, and leaves its      *)
(* queue only when a delivery of it succeeded or it failed as often as its *)
(* consumer allows, after which it starts afresh in the dead letter queue  *)
(* or, without one, is dropped.  No timers, no flush states, no consumers  *)
(* that come and go: QueueBroker implements it.                            *)
(***************************************************************************)
EXTENDS Naturals, FiniteSets

CONSTANTS
  Queues, Messages,
  Consumer,   \* for every queue: its maxBatchSize, maxRetries, deadLetterQueue
  None        \* no queue

VARIABLES
  place,      \* where each message is: in a queue, in a delivery, or settled
  failures    \* how many deliveries of it by its queue have failed

vars == <<place, failures>>

Queued(q) == [at |-> "queued", queue |-> q]
Delivering(q) == [at |-> "delivering", queue |-> q]
Settled(how) == [at |-> how, queue |-> None]

Init ==
  /\ place = [m \in Messages |-> Settled("unsent")]
  /\ failures = [m \in Messages |-> 0]

Send(q, m) ==
  /\ place[m] = Settled("unsent")
  /\ place' = [place EXCEPT ![m] = Queued(q)]
  /\ UNCHANGED failures

Deliver(q, S) ==
  /\ \A m \in S : place[m] = Queued(q)
  /\ Cardinality(S) <= Consumer[q].maxBatchSize
  /\ place' = [m \in Messages |-> IF m \in S THEN Delivering(q) ELSE place[m]]
  /\ UNCHANGED failures

\* Where a failed message goes, given how often it has failed by now.
Failed(q, n) ==
  CASE n <= Consumer[q].maxRetries -> Queued(q)
    [] n > Consumer[q].maxRetries /\ Consumer[q].deadLetterQueue # None ->
         Queued(Consumer[q].deadLetterQueue)
    [] OTHER -> Settled("dropped")

\* A delivery ends; the messages in F are to be retried.
Finish(q, S, F) ==
  /\ F \subseteq S
  /\ \A m \in S : place[m] = Delivering(q)
  /\ place' = [m \in Messages |->
                 CASE m \in F     -> Failed(q, failures[m] + 1)
                   [] m \in S \ F -> Settled("acked")
                   [] OTHER       -> place[m]]
  /\ failures' = [m \in Messages |->
                    CASE m \in F /\ failures[m] + 1 <= Consumer[q].maxRetries -> failures[m] + 1
                      [] m \in F /\ failures[m] + 1 > Consumer[q].maxRetries  -> 0
                      [] OTHER                                                -> failures[m]]

Next ==
  \E q \in Queues :
    \/ \E m \in Messages : Send(q, m)
    \/ \E S \in SUBSET Messages : Deliver(q, S) \/ \E F \in SUBSET S : Finish(q, S, F)

Spec == Init /\ [][Next]_vars
=============================================================================
