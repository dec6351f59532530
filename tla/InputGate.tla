------------------------------ MODULE InputGate ------------------------------
(***************************************************************************)
(* packages/shared/src/sync/gate.ts: the input gates of a Durable Object.  *)
(* Events (requests, alarms, answers of I/O) are let in when their gate is *)
(* open; storage operations and blockConcurrencyWhile run with it closed,  *)
(* in a child gate of their own.                                           *)
(*                                                                         *)
(* JavaScript runs to its next await.  What an await continues with in the *)
(* same turn of the event loop (a microtask) comes before the callbacks of *)
(* setImmediate, which run one by one, first in first out.  The order of   *)
(* microtasks is left open.  A storage operation may take no time or any   *)
(* number of turns.                                                        *)
(***************************************************************************)
EXTENDS Naturals, SequencesExt

CONSTANTS
  Events,      \* pieces of JavaScript that wait for a gate before they run
  MaxOps       \* bound: how often runWithClosed is called

ASSUME MaxOpsIsNatural == MaxOps \in Nat

VARIABLES
  path,          \* for every gate: itself, its #parent, ..., the object's gate 1
  lockCount,     \* for every gate: #lockCount
  resolveQueue,  \* for every gate: the events in #resolveQueue
  at,            \* where each event is
  context,       \* the gates that each event runs under, the innermost last
  ops,           \* the calls of runWithClosed so far:
                 \*   by, gate  the event that called, and this
                 \*   kind      "io" is awaited, "background" is not,
                 \*             "block" runs more of the event under a child gate
                 \*   at        "locked" (its lock is set), "closure", "returned"
                 \*   held      the gates that it has locked and not unlocked
  immediates     \* the callbacks of setImmediate in order

vars == <<path, lockCount, resolveQueue, at, context, ops, immediates>>
gateVars == <<path, lockCount, resolveQueue>>

Gates == DOMAIN path
Root == 1

Init ==
  /\ path = << <<Root>> >>
  /\ lockCount = <<0>>
  /\ resolveQueue = << << >> >>
  /\ at = [e \in Events |-> "outside"]
  /\ context = [e \in Events |-> << >>]
  /\ ops = << >>
  /\ immediates = << >>

\* What a callback of setImmediate does.
Arrive(e)   == [do |-> "arrive", event |-> e]
Unlock(i)   == [do |-> "unlock", op |-> i]
Drain(i, g) == [do |-> "drain", op |-> i, gate |-> g]

Goto(e, l) == at' = [at EXCEPT ![e] = l]

\* No JavaScript is to run before the next callback of setImmediate.
TurnIsOver ==
  /\ \A e \in Events : at[e] # "running"
  /\ \A i \in DOMAIN ops : ops[i].at # "locked"

\* The turn of one callback.
ItsTurn(callback) == TurnIsOver /\ immediates # << >> /\ Head(immediates) = callback

-----------------------------------------------------------------------------
(***************************************************************************)
(* waitForOpen                                                             *)
(***************************************************************************)

\* An event whose handler belongs to gate g comes in.
Deliver(e, g) ==
  /\ at[e] = "outside"
  /\ Goto(e, "arriving")
  /\ context' = [context EXCEPT ![e] = <<g>>]
  /\ immediates' = Append(immediates, Arrive(e))
  /\ UNCHANGED <<gateVars, ops>>

\* The event runs on if the gate is open, otherwise it waits.
ArriveAt(e, g) ==
  /\ ItsTurn(Arrive(e))
  /\ immediates' = Tail(immediates)
  /\ \/ /\ lockCount[g] = 0
        /\ Goto(e, "running")
        /\ UNCHANGED resolveQueue
     \/ /\ lockCount[g] > 0
        /\ Goto(e, "waiting")
        /\ resolveQueue' = [resolveQueue EXCEPT ![g] = Append(@, e)]
  /\ UNCHANGED <<path, lockCount, context, ops>>

\* The event awaits other I/O (fetch, KV, a timer) and comes back through the
\* gate it runs under.
Leave(e) ==
  /\ at[e] = "running"
  /\ Goto(e, "away")
  /\ UNCHANGED <<gateVars, context, ops, immediates>>

ComeBack(e) ==
  /\ at[e] = "away"
  /\ Goto(e, "arriving")
  /\ immediates' = Append(immediates, Arrive(e))
  /\ UNCHANGED <<gateVars, context, ops>>

\* The handler has returned.
Finish(e) ==
  /\ at[e] = "running" /\ Len(context[e]) = 1
  /\ Goto(e, "finished")
  /\ UNCHANGED <<gateVars, context, ops, immediates>>

-----------------------------------------------------------------------------
(***************************************************************************)
(* runWithClosed                                                           *)
(***************************************************************************)

\* #lock: the gate and its parents.
locked(g) == [h \in Gates |-> IF h \in Range(path[g]) THEN lockCount[h] + 1 ELSE lockCount[h]]

\* runWithClosed up to its await.
Call(e, kind) ==
  LET g == Last(context[e])
  IN
  /\ at[e] = "running" /\ Len(ops) < MaxOps
  /\ lockCount' = locked(g)
  /\ ops' = Append(ops, [by |-> e, gate |-> g, kind |-> kind, at |-> "locked", held |-> path[g]])
  /\ Goto(e, IF kind = "background" THEN "running" ELSE "awaiting")
  /\ UNCHANGED <<path, resolveQueue, context, immediates>>

\* The closure starts under a new child gate.  Nothing waits at the child
\* gate of a storage operation, so that only a block's is represented.
Closure(i) ==
  /\ ops[i].at = "locked"
  /\ ops' = [ops EXCEPT ![i].at = "closure"]
  /\ IF ops[i].kind = "block"
     THEN LET e == ops[i].by
              child == Len(path) + 1
          IN  /\ path' = Append(path, <<child>> \o path[ops[i].gate])
              /\ lockCount' = Append(lockCount, 0)
              /\ resolveQueue' = Append(resolveQueue, << >>)
              /\ context' = [context EXCEPT ![e] = Append(@, child)]
              /\ Goto(e, "running")
     ELSE UNCHANGED <<gateVars, context, at>>
  /\ UNCHANGED immediates

\* The closure settles: the gate is unlocked later, so that the caller can
\* close it again before anybody is let in.
Return(i) ==
  LET e == ops[i].by
  IN
  /\ ops[i].at = "closure"
  /\ \/ ops[i].kind # "block" /\ UNCHANGED context
     \/ /\ ops[i].kind = "block" /\ at[e] = "running"
        /\ Len(context[e]) > 1 /\ context[e][Len(context[e]) - 1] = ops[i].gate
        /\ context' = [context EXCEPT ![e] = Front(@)]
  /\ ops' = [ops EXCEPT ![i].at = "returned"]
  /\ immediates' = Append(immediates, Unlock(i))
  /\ Goto(e, IF ops[i].kind = "background" THEN at[e] ELSE "running")
  /\ UNCHANGED gateVars

-----------------------------------------------------------------------------
(***************************************************************************)
(* #unlock                                                                 *)
(***************************************************************************)

\* Mutant of LetIn: all waiters are let in at once.
LetInAll(i, g) ==
  /\ at' = [e \in Events |-> IF e \in Range(resolveQueue[g]) THEN "running" ELSE at[e]]
  /\ resolveQueue' = [resolveQueue EXCEPT ![g] = << >>]
  /\ immediates' = Append(Tail(immediates), Drain(i, g))

\* The first waiter of gate g is let in, and op i looks again when it has run.
LetIn(i, g) ==
  /\ Goto(Head(resolveQueue[g]), "running")
  /\ resolveQueue' = [resolveQueue EXCEPT ![g] = Tail(@)]
  /\ immediates' = Append(Tail(immediates), Drain(i, g))

\* Mutant of UnlockNext: the parents are unlocked before waiters are let in.
UnlockAllFirst(i) ==
  LET held == ops[i].held
      wake == {j \in DOMAIN held : lockCount[held[j]] = 1 /\ resolveQueue[held[j]] # << >>}
  IN
  /\ lockCount' = [h \in Gates |-> IF h \in Range(held) THEN lockCount[h] - 1 ELSE lockCount[h]]
  /\ ops' = [ops EXCEPT ![i].held = << >>]
  /\ IF wake = {}
     THEN UNCHANGED <<resolveQueue, at>> /\ immediates' = Tail(immediates)
     ELSE LetIn(i, held[Min(wake)])

\* Mutant of UnlockNext: the parents' counts are forgotten.
UnlockOnlyOwn(i) ==
  LET held == ops[i].held
  IN
  /\ lockCount' = [h \in Gates |->
                     IF held # << >> /\ h = Head(held) THEN lockCount[h] - 1 ELSE lockCount[h]]
  /\ ops' = [ops EXCEPT ![i].held = << >>]
  /\ IF held # << >> /\ lockCount[Head(held)] = 1 /\ resolveQueue[Head(held)] # << >>
     THEN LetIn(i, Head(held))
     ELSE UNCHANGED <<resolveQueue, at>> /\ immediates' = Tail(immediates)

\* Op i unlocks the gates it holds, from the inside out, up to the first that
\* is open now and has a waiter.
UnlockNext(i) ==
  LET held == ops[i].held
      wake == {j \in DOMAIN held : lockCount[held[j]] = 1 /\ resolveQueue[held[j]] # << >>}
      last == IF wake = {} THEN Len(held) ELSE Min(wake)
  IN
  /\ lockCount' = [h \in Gates |->
                     IF \E j \in 1..last : held[j] = h THEN lockCount[h] - 1 ELSE lockCount[h]]
  /\ ops' = [ops EXCEPT ![i].held = SubSeq(held, last + 1, Len(held))]
  /\ IF wake = {}
     THEN UNCHANGED <<resolveQueue, at>> /\ immediates' = Tail(immediates)
     ELSE LetIn(i, held[last])

StartUnlock(i) ==
  /\ ItsTurn(Unlock(i))
  /\ UnlockNext(i)
  /\ UNCHANGED <<path, context>>

\* Mutant of ResumeUnlock: one waiter is let in, not as many as can be.
ResumeUnlockOnce(i, g) ==
  /\ ItsTurn(Drain(i, g))
  /\ UnlockNext(i)
  /\ UNCHANGED <<path, context>>

\* Resolved waiters have run: unless one closed the gate, the next is let in,
\* and when none is left it is the parents' turn.
ResumeUnlock(i, g) ==
  /\ ItsTurn(Drain(i, g))
  /\ \/ /\ lockCount[g] = 0 /\ resolveQueue[g] # << >>
        /\ LetIn(i, g)
        /\ UNCHANGED <<lockCount, ops>>
     \/ /\ lockCount[g] > 0 \/ resolveQueue[g] = << >>
        /\ UnlockNext(i)
  /\ UNCHANGED <<path, context>>

-----------------------------------------------------------------------------
\* What an event does next is up to its handler.
Handler(e) == Leave(e) \/ Finish(e) \/ \E kind \in {"io", "background", "block"} : Call(e, kind)

Immediate ==
  \/ \E e \in Events : at[e] = "arriving" /\ ArriveAt(e, Last(context[e]))
  \/ \E i \in DOMAIN ops : StartUnlock(i) \/ \E g \in Gates : ResumeUnlock(i, g)

Next ==
  \/ \E e \in Events : Handler(e) \/ ComeBack(e) \/ \E g \in Gates : Deliver(e, g)
  \/ \E i \in DOMAIN ops : Closure(i) \/ Return(i)
  \/ Immediate

Spec == Init /\ [][Next]_vars

\* Callbacks run, I/O is answered, handlers go on, and what is called with the
\* gate closed settles, however often it waits for something in between.
Fairness ==
  /\ WF_vars(Immediate)
  /\ \A e \in Events : WF_vars(Handler(e)) /\ WF_vars(ComeBack(e))
  /\ \A i \in 1..MaxOps : /\ WF_vars(i \in DOMAIN ops /\ Closure(i))
                          /\ SF_vars(i \in DOMAIN ops /\ Return(i))

FairSpec == Spec /\ Fairness

-----------------------------------------------------------------------------
(***************************************************************************)
(* Properties.                                                             *)
(***************************************************************************)
Callbacks ==
  [do : {"arrive"}, event : Events] \union [do : {"unlock"}, op : DOMAIN ops]
    \union [do : {"drain"}, op : DOMAIN ops, gate : Gates]

\* Type correctness; above all #lockCount is never negative, as the assertion
\* of #unlock demands.
TypeOK ==
  /\ path \in Seq(Seq(Gates)) /\ path # << >>
  /\ lockCount \in [Gates -> Nat]
  /\ resolveQueue \in [Gates -> Seq(Events)]
  /\ at \in [Events -> {"outside", "arriving", "waiting", "running", "awaiting", "away",
                        "finished"}]
  /\ context \in [Events -> Seq(Gates)]
  /\ ops \in Seq([by : Events, gate : Gates, kind : {"io", "background", "block"},
                  at : {"locked", "closure", "returned"}, held : Seq(Gates)])
  /\ immediates \in Seq(Callbacks)

\* "Every increment of lockCount is eventually followed by a call to unlock":
\* a gate's count is the number of calls that closed it, or a gate inside it,
\* and have not opened it again; a call that returned and still holds gates
\* has a callback to come.
LocksAccounted ==
  /\ \A g \in Gates : lockCount[g] = Cardinality({i \in DOMAIN ops : g \in Range(ops[i].held)})
  /\ \A i \in DOMAIN ops :
       ops[i].at = "returned" /\ ops[i].held # << >> =>
         \E c \in Range(immediates) : c.do \in {"unlock", "drain"} /\ c.op = i

\* "This ensures the 2nd is blocked until after the 1st's runWithClosed
\* completes": while an event runs under a gate, no other event has an
\* operation of that gate under way, so that it can read, and write what it
\* read plus one, undisturbed.
OneAtATime ==
  \A e \in Events : \A i \in DOMAIN ops :
    at[e] = "running" /\ Last(context[e]) = ops[i].gate /\ ops[i].by # e =>
      ops[i].at = "returned"

\* "Do this before unlocking parent (if any) so they have priority": a gate is
\* not open as long as anybody waits at a gate inside it.
InnerFirst ==
  \A g, c \in Gates :
    lockCount[g] = 0 /\ c # g /\ g \in Range(path[c]) => resolveQueue[c] = << >>

\* Every event that waits is let in, whatever others do with the gates.
EventsLetIn == \A e \in Events : at[e] = "waiting" ~> at[e] = "running"
=============================================================================
