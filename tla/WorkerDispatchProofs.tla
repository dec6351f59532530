------------------------ MODULE WorkerDispatchProofs ------------------------
(***************************************************************************)
(* Proofs about dispatch, for any number of calls and promises and any two *)
(* limits.  What handlers do to a call is the same in most of them: the    *)
(* call moves on and may have given promises to waitUntil().  That this    *)
(* keeps the invariant is proved once (MovedInvariant); each action is     *)
(* shown to be such a move.                                                *)
(***************************************************************************)
EXTENDS WorkerDispatch, WellFoundedInduction, FiniteSetTheorems, TLAPS

-----------------------------------------------------------------------------
(***************************************************************************)
(* The inductive invariant.                                                *)
(***************************************************************************)

\* Calls are nested in the order they come: one that is used is nested in the
\* one before, the first in none.
NestedInOrder ==
  \A c \in Calls :
    /\ At(c, "unused") => calls[c] = NoCall
    /\ ~At(c, "unused") /\ c = First => calls[c].parent = None
    /\ ~At(c, "unused") /\ c # First => /\ c - 1 \in Calls /\ ~At(c - 1, "unused")
                                        /\ calls[c].parent = c - 1

\* A call of these depths is the n-th at most.
AtMost(n, requestDepth, pipelineDepth) ==
  n <= (requestDepth - 1) * MaxPipelineDepth + pipelineDepth

DeepCall(c) == TooDeep(<<calls[c].requestDepth, calls[c].pipelineDepth>>)

\* A call is nested in no more calls than its depths have counted, and one that
\* is too deep has thrown before its code could give a promise to waitUntil().
DepthsCount ==
  \A c \in Calls :
    /\ ~At(c, "unused") => AtMost(c, calls[c].requestDepth, calls[c].pipelineDepth)
    /\ DeepCall(c) => At(c, "threw") /\ \A p \in Promises : promises[p].call # c

\* The event of a call knows the promises that its code has given; nothing is
\* awaited before the call has returned or gone upstream, and what has been
\* awaited for good is fulfilled.
PromisesKnown ==
  /\ \A p \in Promises : promises[p].call = None <=> promises[p].state = "unused"
  /\ \A c \in Calls :
       /\ calls[c].event.waitUntil = {p \in Promises : promises[p].call = c}
       /\ calls[c].event.awaited \subseteq calls[c].event.waitUntil
       /\ At(c, "unused") \/ At(c, "dispatching") => calls[c].event = NoEvent
       /\ At(c, "responding") => calls[c].event.waiting = "no"
       /\ calls[c].event.waiting = "fulfilled" =>
            \A p \in calls[c].event.waitUntil : promises[p].state = "fulfilled"

IInv == TypeOK /\ NestedInOrder /\ DepthsCount /\ PromisesKnown

-----------------------------------------------------------------------------
(***************************************************************************)
(* Calls that move on.                                                     *)
(***************************************************************************)

\* The event of a new call: nothing given, nothing awaited.
LEMMA NoEventType ==
  /\ NoEvent \in EventState /\ NoEvent.waitUntil = {} /\ NoEvent.awaited = {}
  /\ NoEvent.waiting = "no"
BY DEF NoEvent, EventState

\* A call that nobody has made.
LEMMA NoCallType ==
  /\ NoCall \in CallState /\ NoCall.at = "unused" /\ NoCall.event = NoEvent
  /\ NoCall.requestDepth = 0 /\ NoCall.pipelineDepth = 0
BY NoEventType DEF NoCall, CallState

\* Calls are numbered from one.
LEMMA CallsAreNumbers ==
  /\ Calls \subseteq Nat \ {0} /\ First \in Calls
  /\ \A c \in Calls : 1 .. c \subseteq Calls
<1>1. Cardinality(Calls) \in Nat
  BY DispatchAssumption, FS_CardinalityType
<1> QED
  BY <1>1, DispatchAssumption DEF First

\* What call c may become while its code runs and gives P to waitUntil(): not
\* deeper, with P among what it has given, and with nothing awaited yet.
Ready(c, call, P) ==
  /\ call \in CallState
  /\ call.parent = calls[c].parent
  /\ call.requestDepth = calls[c].requestDepth /\ call.pipelineDepth = calls[c].pipelineDepth
  /\ call.event.waitUntil = calls[c].event.waitUntil \union P
  /\ call.event.awaited \subseteq call.event.waitUntil
  /\ call.event.waiting = "no"

\* What call c may become in a step that gives P to waitUntil().
Moved(c, call, P) ==
  /\ call \in CallState
  /\ call.at \notin {"unused", "dispatching"}
  /\ call.parent = calls[c].parent
  /\ call.requestDepth = calls[c].requestDepth /\ call.pipelineDepth = calls[c].pipelineDepth
  /\ call.event.waitUntil = calls[c].event.waitUntil \union P
  /\ call.event.awaited \subseteq call.event.waitUntil
  /\ call.at = "responding" => call.event.waiting = "no"
  /\ call.event.waiting = "fulfilled" =>
       \A p \in call.event.waitUntil : p \notin P /\ promises[p].state = "fulfilled"
  /\ DeepCall(c) => call.at = "threw" /\ P = {}

\* waitUntilAll awaits what has been given; with nothing given it is done.
LEMMA StartWaitingState ==
  ASSUME NEW event \in EventState
  PROVE  /\ StartWaiting(event) \in EventState
         /\ StartWaiting(event).waitUntil = event.waitUntil
         /\ StartWaiting(event).awaited = event.waitUntil
         /\ StartWaiting(event).waiting \in {"waiting", "fulfilled"}
         /\ StartWaiting(event).waiting = "fulfilled" => event.waitUntil = {}
BY DEF StartWaiting, EventState, Settling

\* End changes where a call is, its kind and its flag alone.
LEMMA EndState ==
  ASSUME NEW call \in CallState, NEW place \in {"returned", "threw"}
  PROVE  /\ End(call, place) \in CallState /\ End(call, place).at = place
         /\ End(call, place).parent = call.parent
         /\ End(call, place).requestDepth = call.requestDepth
         /\ End(call, place).pipelineDepth = call.pipelineDepth
         /\ End(call, place).event.waitUntil = call.event.waitUntil
         /\ End(call, place).event.awaited = call.event.awaited
         /\ End(call, place).event.waiting = call.event.waiting
BY DEF End, CallState, EventState

\* A call that throws: what it has given is not awaited.
LEMMA ThrowMoves ==
  ASSUME NEW c \in Calls, NEW call, NEW P, Ready(c, call, P), ~ DeepCall(c)
  PROVE  Moved(c, Throw(call), P)
BY EndState DEF Ready, Moved, Throw

\* A call that begins to await what it has given, where it has no response.
LEMMA AwaitingMoves ==
  ASSUME NEW c \in Calls, NEW call, NEW P, Ready(c, call, P), ~ DeepCall(c)
  PROVE  /\ Moved(c, Return(call), P)
         /\ Moved(c, [call EXCEPT !.at = "upstream", !.event = StartWaiting(@)], P)
<1> DEFINE event == StartWaiting(call.event)
           waits == [call EXCEPT !.event = event]
           up == [call EXCEPT !.at = "upstream", !.event = event]
<1>1. /\ event \in EventState /\ event.waitUntil = call.event.waitUntil
      /\ event.awaited = call.event.waitUntil /\ event.waiting # "no"
      /\ event.waiting = "fulfilled" => call.event.waitUntil = {}
  BY StartWaitingState DEF Ready, CallState
<1> HIDE DEF event
<1>2. /\ waits \in CallState /\ waits.event = event /\ waits.parent = call.parent
      /\ waits.requestDepth = call.requestDepth /\ waits.pipelineDepth = call.pipelineDepth
  BY <1>1 DEF Ready, CallState
<1>3. /\ up \in CallState /\ up.event = event /\ up.parent = call.parent /\ up.at = "upstream"
      /\ up.requestDepth = call.requestDepth /\ up.pipelineDepth = call.pipelineDepth
  BY <1>1 DEF Ready, CallState
<1>4. Moved(c, up, P)
  <2> HIDE DEF up
  <2> QED
    BY <1>1, <1>3 DEF Ready, Moved
<1>5. Moved(c, End(waits, "returned"), P)
  <2> HIDE DEF waits
  <2> QED
    BY <1>1, <1>2, EndState DEF Ready, Moved
<1> QED
  BY <1>4, <1>5 DEF event, Return

\* A call whose code has not responded, or has thrown.
LEMMA NoResponseMoves ==
  ASSUME NEW c \in Calls, NEW call, NEW P, Ready(c, call, P), ~ DeepCall(c)
  PROVE  Moved(c, NoResponse(call), P) /\ Moved(c, Thrown(call), P)
BY ThrowMoves, AwaitingMoves DEF NoResponse, Thrown

-----------------------------------------------------------------------------
(***************************************************************************)
(* Moves keep the invariant.                                               *)
(***************************************************************************)

\* Initially no call has been made and no promise given.
LEMMA InitInvariant == Init => IInv
<1> SUFFICES ASSUME Init
             PROVE  IInv
  OBVIOUS
<1>1. TypeOK
  BY NoCallType DEF Init, TypeOK
<1>2. NestedInOrder
  BY NoCallType DEF Init, NestedInOrder, At
<1>3. DepthsCount
  BY NoCallType, DispatchAssumption DEF Init, DepthsCount, At, DeepCall, TooDeep
<1>4. PromisesKnown
  BY NoCallType, NoEventType, DispatchAssumption DEF Init, PromisesKnown, At
<1> QED
  BY <1>1, <1>2, <1>3, <1>4 DEF IInv

\* A call that is made moves, and gives the promises in P.
LEMMA MovedInvariant ==
  ASSUME IInv, NEW c \in Calls, NEW call, NEW P \in SUBSET Promises,
         ~ At(c, "unused"), Moved(c, call, P),
         \A p \in P : promises[p].state = "unused",
         calls' = [calls EXCEPT ![c] = call],
         Push(c, P),
         answer' \in
           [to : {"nobody", "request", "upgrade", "scheduled"},
            got : {"nothing", "head", "part", "response", "101", "200", "500"},
            listener : {"idle", "dispatching", "writing", "upgrading", "logging", "returned", "rejected"}]
  PROVE  IInv'
<1>1. TypeOK
  BY DEF IInv
<1>2. /\ calls' \in [Calls -> CallState] /\ calls'[c] = call
      /\ \A d \in Calls \ {c} : calls'[d] = calls[d]
  BY <1>1 DEF TypeOK, Moved
<1>3. /\ promises' \in [Promises -> [call : Calls \union {None}, state : {"unused", "pending"} \union Settling]]
      /\ \A p \in Promises : /\ p \in P => promises'[p].call = c /\ promises'[p].state = "pending"
                             /\ p \notin P => promises'[p] = promises[p]
  BY <1>1 DEF TypeOK, Push
<1>4. \A p \in P : promises[p].call = None
  BY DEF IInv, PromisesKnown
<1>5. TypeOK'
  BY <1>2, <1>3 DEF TypeOK
<1>6. NestedInOrder'
  BY <1>2 DEF IInv, NestedInOrder, At, Moved
<1>7. DepthsCount'
  <2> SUFFICES ASSUME NEW d \in Calls
               PROVE  /\ ~At(d, "unused")' => AtMost(d, calls'[d].requestDepth, calls'[d].pipelineDepth)
                      /\ DeepCall(d)' => At(d, "threw")' /\ \A p \in Promises : promises'[p].call # d
    BY DEF DepthsCount
  <2>1. /\ calls'[d].requestDepth = calls[d].requestDepth
        /\ calls'[d].pipelineDepth = calls[d].pipelineDepth
        /\ At(d, "unused") => At(d, "unused")'
    BY <1>2 DEF Moved, At
  <2>2. DeepCall(d)' <=> DeepCall(d)
    BY <2>1 DEF DeepCall, TooDeep
  <2>3. DeepCall(d) => At(d, "threw")' /\ \A p \in Promises : promises'[p].call # d
    BY <1>2, <1>3 DEF IInv, DepthsCount, Moved, At
  <2> QED
    BY <2>1, <2>2, <2>3 DEF IInv, DepthsCount
<1>8. PromisesKnown'
  <2>1. \A p \in Promises : promises'[p].call = None <=> promises'[p].state = "unused"
    BY <1>3, DispatchAssumption DEF IInv, PromisesKnown
  <2> SUFFICES ASSUME NEW d \in Calls
               PROVE  /\ calls'[d].event.waitUntil = {p \in Promises : promises'[p].call = d}
                      /\ calls'[d].event.awaited \subseteq calls'[d].event.waitUntil
                      /\ At(d, "unused")' \/ At(d, "dispatching")' => calls'[d].event = NoEvent
                      /\ At(d, "responding")' => calls'[d].event.waiting = "no"
                      /\ calls'[d].event.waiting = "fulfilled" =>
                           \A p \in calls'[d].event.waitUntil : promises'[p].state = "fulfilled"
    BY <2>1 DEF PromisesKnown
  <2>2. CASE d = c
    <3>1. call.event.waitUntil = {p \in Promises : promises'[p].call = d}
      BY <1>3, <2>2 DEF IInv, PromisesKnown, Moved
    <3> QED
      BY <1>2, <1>3, <2>2, <3>1 DEF Moved, At
  <2>3. CASE d # c
    <3>1. calls'[d] = calls[d]
      BY <1>2, <2>3
    <3>2. {p \in Promises : promises'[p].call = d} = {p \in Promises : promises[p].call = d}
      BY <1>3, <1>4, <2>3, DispatchAssumption
    <3>3. \A p \in Promises : promises[p].call = d => promises'[p] = promises[p]
      BY <1>3, <1>4, <2>3, DispatchAssumption
    <3> QED
      BY <3>1, <3>2, <3>3 DEF IInv, PromisesKnown, At
  <2> QED
    BY <2>2, <2>3
<1> QED
  BY <1>5, <1>6, <1>7, <1>8 DEF IInv

\* A call moves and gives nothing.
LEMMA MovedAlone ==
  ASSUME IInv, NEW c \in Calls, NEW call, ~ At(c, "unused"), Moved(c, call, {}),
         calls' = [calls EXCEPT ![c] = call], UNCHANGED <<promises, answer>>
  PROVE  IInv'
<1>1. Push(c, {})
  BY DEF IInv, TypeOK, Push
<1> QED
  BY <1>1, MovedInvariant DEF IInv, TypeOK

-----------------------------------------------------------------------------
(***************************************************************************)
(* New calls.                                                              *)
(***************************************************************************)

\* The listener's state, what the client is and what it has got.
AnswerState ==
  [to : {"nobody", "request", "upgrade", "scheduled"},
   got : {"nothing", "head", "part", "response", "101", "200", "500"},
   listener : {"idle", "dispatching", "writing", "upgrading", "logging", "returned", "rejected"}]

\* A new call has the depths of its kind, and has thrown if they are too deep.
LEMMA NewCallState ==
  ASSUME NEW kind \in {"request", "upgrade", "scheduled", "loop", "service", "object"},
         NEW parent \in Calls \union {None}, NEW r \in Nat, NEW n \in Nat,
         DepthsOf(kind, parent) = <<r, n>>
  PROVE  /\ NewCall(kind, parent) \in CallState
         /\ NewCall(kind, parent).at = IF TooDeep(<<r, n>>) THEN "threw" ELSE "dispatching"
         /\ NewCall(kind, parent).parent = parent /\ NewCall(kind, parent).event = NoEvent
         /\ NewCall(kind, parent).requestDepth = r /\ NewCall(kind, parent).pipelineDepth = n
<1>1. NoEvent \in EventState
  BY NoEventType
<1> DEFINE place == IF TooDeep(<<r, n>>) THEN "threw" ELSE "dispatching"
<1>2. NewCall(kind, parent) =
        [NoCall EXCEPT !.at = place, !.kind = kind, !.parent = parent, !.requestDepth = r,
                       !.pipelineDepth = n]
  BY DEF NewCall
<1>3. place \in {"threw", "dispatching"}
  OBVIOUS
<1> HIDE DEF place
<1>4. NewCall(kind, parent) =
        [at |-> place, kind |-> kind, parent |-> parent, requestDepth |-> r, pipelineDepth |-> n,
         event |-> NoEvent]
  BY <1>2 DEF NoCall
<1>5. NewCall(kind, parent) \in CallState
  BY <1>1, <1>3, <1>4 DEF CallState
<1>6. /\ NewCall(kind, parent).requestDepth = r /\ NewCall(kind, parent).pipelineDepth = n
      /\ NewCall(kind, parent).event = NoEvent /\ NewCall(kind, parent).parent = parent
      /\ NewCall(kind, parent).at = place
  BY <1>4
<1> QED
  BY <1>5, <1>6 DEF place

\* A call is made by the one before it, or is the first one.
LEMMA MadeInvariant ==
  ASSUME IInv, NEW c \in Calls, NEW parent \in Calls \union {None},
         NEW kind \in {"request", "upgrade", "scheduled", "loop", "service", "object"},
         NEW r \in Nat, NEW n \in Nat, DepthsOf(kind, parent) = <<r, n>>,
         At(c, "unused"), AtMost(c, r, n),
         IF c = First THEN parent = None
         ELSE c - 1 \in Calls /\ parent = c - 1 /\ ~ At(c - 1, "unused"),
         calls' = [calls EXCEPT ![c] = NewCall(kind, parent)],
         promises' = promises, answer' \in AnswerState
  PROVE  IInv'
<1> DEFINE call == NewCall(kind, parent)
<1>1. /\ call \in CallState /\ call.at = (IF TooDeep(<<r, n>>) THEN "threw" ELSE "dispatching")
      /\ call.parent = parent /\ call.event = NoEvent
      /\ call.requestDepth = r /\ call.pipelineDepth = n
  BY NewCallState
<1> HIDE DEF call
<1>2. /\ calls' \in [Calls -> CallState] /\ calls'[c] = call
      /\ \A d \in Calls \ {c} : calls'[d] = calls[d]
  BY <1>1 DEF IInv, TypeOK, call
<1>3. call.at # "unused" /\ call.at # "responding"
  BY <1>1
<1>4. calls[c].event = NoEvent /\ \A p \in Promises : promises[p].call # c
  BY NoEventType DEF IInv, PromisesKnown
<1>5. TypeOK'
  BY <1>2 DEF IInv, TypeOK, AnswerState
<1>6. NestedInOrder'
  <2> SUFFICES ASSUME NEW d \in Calls
               PROVE  /\ At(d, "unused")' => calls'[d] = NoCall
                      /\ ~At(d, "unused")' /\ d = First => calls'[d].parent = None
                      /\ ~At(d, "unused")' /\ d # First => /\ d - 1 \in Calls /\ ~At(d - 1, "unused")'
                                                          /\ calls'[d].parent = d - 1
    BY DEF NestedInOrder
  <2>1. \A e \in Calls : ~At(e, "unused") => ~At(e, "unused")'
    BY <1>2, <1>3 DEF At
  <2>2. CASE d = c
    BY <1>1, <1>2, <1>3, <2>1, <2>2 DEF At
  <2>3. CASE d # c
    <3>1. calls'[d] = calls[d]
      BY <1>2, <2>3
    <3> QED
      BY <2>1, <3>1 DEF IInv, NestedInOrder, At
  <2> QED
    BY <2>2, <2>3
<1>7. DepthsCount'
  <2> SUFFICES ASSUME NEW d \in Calls
               PROVE  /\ ~At(d, "unused")' => AtMost(d, calls'[d].requestDepth, calls'[d].pipelineDepth)
                      /\ DeepCall(d)' => At(d, "threw")' /\ \A p \in Promises : promises'[p].call # d
    BY DEF DepthsCount
  <2>1. CASE d = c
    BY <1>1, <1>2, <1>4, <2>1 DEF At, DeepCall, TooDeep
  <2>2. CASE d # c
    <3>1. calls'[d] = calls[d]
      BY <1>2, <2>2
    <3> QED
      BY <3>1 DEF IInv, DepthsCount, At, DeepCall, TooDeep
  <2> QED
    BY <2>1, <2>2
<1>8. PromisesKnown'
  BY <1>1, <1>2, <1>3, <1>4, NoEventType DEF IInv, PromisesKnown, At
<1> QED
  BY <1>5, <1>6, <1>7, <1>8 DEF IInv

\* The first event comes from the network and is nested in nothing.
LEMMA IncomingInvariant ==
  ASSUME IInv, IncomingRequest \/ IncomingScheduled
  PROVE  IInv'
<1>1. PICK kind \in {"request", "upgrade", "scheduled"} :
        /\ At(First, "unused") /\ calls' = [calls EXCEPT ![First] = NewCall(kind, None)]
        /\ answer' \in AnswerState /\ promises' = promises
  <2>1. answer \in AnswerState
    BY DEF IInv, TypeOK, AnswerState
  <2>2. CASE IncomingRequest
    BY <2>1, <2>2 DEF IncomingRequest, AnswerState
  <2>3. CASE IncomingScheduled
    BY <2>3 DEF IncomingScheduled, AnswerState
  <2> QED
    BY <2>2, <2>3
<1>2. DepthsOf(kind, None) = <<1, 1>>
  BY <1>1 DEF DepthsOf
<1>3. AtMost(First, 1, 1)
  BY DispatchAssumption DEF First, AtMost
<1> QED
  BY <1>1, <1>2, <1>3, MadeInvariant, CallsAreNumbers

\* A step down costs one pipeline step or, where it starts a pipeline, one
\* request that had MaxPipelineDepth of them.
LEMMA SubrequestInvariant ==
  ASSUME IInv, NEW c \in Calls, NEW parent \in Calls, Subrequest(c, parent)
  PROVE  IInv'
<1> DEFINE r == calls[parent].requestDepth
           n == calls[parent].pipelineDepth
<1>1. PICK kind \in {"loop", "service", "object"} : calls' = [calls EXCEPT ![c] = NewCall(kind, parent)]
  BY DEF Subrequest
<1>2. /\ At(c, "unused") /\ c = parent + 1 /\ parent \in Nat /\ parent # 0
      /\ UNCHANGED <<promises, answer>>
  BY CallsAreNumbers DEF Subrequest, Nested
<1>3. ~ At(parent, "unused") /\ ~ DeepCall(parent)
  <2>1. At(parent, "responding") \/ \E p \in Promises : promises[p].call = parent
    BY DEF Subrequest, Nested, CodeRuns
  <2>2. CASE At(parent, "responding")
    BY <2>2 DEF IInv, DepthsCount, At
  <2>3. CASE \E p \in Promises : promises[p].call = parent
    BY <2>3, NoEventType DEF IInv, DepthsCount, PromisesKnown
  <2> QED
    BY <2>1, <2>2, <2>3
<1>4. r \in Nat /\ n \in Nat
  BY DEF IInv, TypeOK, CallState
<1>5. AtMost(parent, r, n) /\ r <= MaxRequestDepth /\ n <= MaxPipelineDepth
  BY <1>3, <1>4, DispatchAssumption DEF IInv, DepthsCount, DeepCall, TooDeep
<1>6. c # First /\ c - 1 = parent
  BY <1>2 DEF First
<1>7. answer' \in AnswerState
  BY <1>2 DEF IInv, TypeOK, AnswerState
<1>8. IF c = First THEN parent = None ELSE c - 1 \in Calls /\ parent = c - 1 /\ ~ At(c - 1, "unused")
  BY <1>3, <1>6
<1> HIDE DEF r, n
<1>9. CASE kind = "service"
  <2>1. DepthsOf(kind, parent) = <<r, n + 1>>
    BY <1>9 DEF DepthsOf, ServiceDepths, r, n
  <2>2. AtMost(c, r, n + 1)
    BY <1>2, <1>4, <1>5, DispatchAssumption DEF AtMost
  <2>3. n + 1 \in Nat
    BY <1>4
  <2> QED
    BY <1>1, <1>2, <1>4, <1>7, <1>8, <2>1, <2>2, <2>3, MadeInvariant
<1>10. CASE kind \in {"loop", "object"}
  <2>1. DepthsOf(kind, parent) = <<r + 1, 1>>
    BY <1>10 DEF DepthsOf, LoopDepths, ObjectDepths, r, n
  <2>2. AtMost(c, r + 1, 1)
    <3>1. ((r + 1) - 1) * MaxPipelineDepth = (r - 1) * MaxPipelineDepth + MaxPipelineDepth
      BY <1>4, DispatchAssumption
    <3> DEFINE product == (r - 1) * MaxPipelineDepth
    <3>2. product \in Int
      BY <1>4, DispatchAssumption
    <3>3. parent <= product + n
      BY <1>5 DEF AtMost
    <3> HIDE DEF product
    <3>4. c <= product + MaxPipelineDepth + 1
      BY <1>2, <1>4, <1>5, <3>2, <3>3, DispatchAssumption
    <3> QED
      BY <3>1, <3>4 DEF product, AtMost
  <2>3. r + 1 \in Nat /\ 1 \in Nat
    BY <1>4
  <2> QED
    BY <1>1, <1>2, <1>7, <1>8, <2>1, <2>2, <2>3, MadeInvariant
<1> QED
  BY <1>9, <1>10

-----------------------------------------------------------------------------
(***************************************************************************)
(* The actions.                                                            *)
(***************************************************************************)

\* A call whose code may run, or that goes on without it, is not too deep,
\* unless it has thrown.
LEMMA NotDeep ==
  ASSUME IInv, NEW c \in Calls, ~ At(c, "threw")
  PROVE  ~ DeepCall(c)
BY DEF IInv, DepthsCount

\* A listener gives one promise at most, one that nobody has given.
LEMMA PushesAreNew ==
  ASSUME NEW c \in Calls, NEW P \in Pushes(c)
  PROVE  P \in SUBSET Promises /\ \A p \in P : promises[p].state = "unused"
<1>1. Promises \subseteq Int
  BY DispatchAssumption, FS_CardinalityType
<1>2. \A p \in NewPromises : p \in Promises /\ (promises[p].state = "unused") = (p >= p)
  BY DEF NewPromises
<1>3. \A p \in NewPromises : p \in Promises /\ promises[p].state = "unused"
  <2> SUFFICES ASSUME NEW p \in NewPromises PROVE p \in Promises /\ promises[p].state = "unused"
    OBVIOUS
  <2>1. p \in Promises /\ (promises[p].state = "unused") = (p >= p)
    BY <1>2, Zenon
  <2>2. p \in Int
    BY <1>1, <2>1, Zenon
  <2>3. p >= p
    BY <2>2
  <2> QED
    BY <2>1, <2>3, Zenon
<1>4. P \subseteq NewPromises
  BY DEF Pushes
<1> QED
  BY <1>3, <1>4

\* A call that is being dispatched or responds has nothing awaited.
LEMMA RunningReady ==
  ASSUME IInv, NEW c \in Calls, At(c, "responding")
  PROVE  Ready(c, calls[c], {})
BY DEF IInv, TypeOK, PromisesKnown, Ready, At

\* The listeners of a fetch event give promises, and one responds, one throws
\* or none does either.
LEMMA DispatchFetchInvariant ==
  ASSUME IInv, NEW c \in Calls, DispatchFetch(c)
  PROVE  IInv'
<1>1. PICK P \in Pushes(c), passes \in BOOLEAN, ends \in {"responds", "throws", "returns"} :
        LET call == [calls[c] EXCEPT !.event.waitUntil = P, !.event.passThrough = passes]
        IN  /\ Push(c, P)
            /\ calls' = [calls EXCEPT ![c] =
                           CASE ends = "responds" -> [call EXCEPT !.at = "responding"]
                             [] ends = "throws" -> Thrown(call)
                             [] ends = "returns" -> NoResponse(call)]
  BY DEF DispatchFetch
<1> DEFINE call == [calls[c] EXCEPT !.event.waitUntil = P, !.event.passThrough = passes]
<1>2. P \in SUBSET Promises /\ \A p \in P : promises[p].state = "unused"
  BY PushesAreNew
<1>3. At(c, "dispatching") /\ ~ At(c, "unused") /\ ~ At(c, "threw") /\ answer' = answer
  BY DEF DispatchFetch, At
<1>4. calls[c] \in CallState /\ calls[c].event = NoEvent
  BY <1>3 DEF IInv, TypeOK, PromisesKnown
<1>5. Ready(c, call, P)
  BY <1>2, <1>4, NoEventType DEF Ready, CallState, EventState
<1>6. ~ DeepCall(c)
  BY <1>3, NotDeep
<1>7. Moved(c, [call EXCEPT !.at = "responding"], P)
  <2> HIDE DEF call
  <2> QED
    BY <1>5, <1>6 DEF Ready, Moved, CallState
<1>8. PICK moved : Moved(c, moved, P) /\ calls' = [calls EXCEPT ![c] = moved]
  <2>1. CASE ends = "responds"
    BY <1>1, <1>7, <2>1
  <2>2. CASE ends = "throws"
    <3> HIDE DEF call
    <3>1. Moved(c, Thrown(call), P)
      BY <1>5, <1>6, NoResponseMoves
    <3> QED
      BY <1>1, <2>2, <3>1 DEF call
  <2>3. CASE ends = "returns"
    <3> HIDE DEF call
    <3>1. Moved(c, NoResponse(call), P)
      BY <1>5, <1>6, NoResponseMoves
    <3> QED
      BY <1>1, <2>3, <3>1 DEF call
  <2> QED
    BY <2>1, <2>2, <2>3
<1> HIDE DEF call
<1>9. Push(c, P)
  BY <1>1
<1> QED
  BY <1>2, <1>3, <1>8, <1>9, MovedInvariant DEF IInv, TypeOK

\* The listeners of a scheduled event give promises, or one throws.
LEMMA DispatchScheduledInvariant ==
  ASSUME IInv, NEW c \in Calls, DispatchScheduled(c)
  PROVE  IInv'
<1>1. At(c, "dispatching") /\ ~ At(c, "unused") /\ ~ At(c, "threw") /\ answer' = answer
  BY DEF DispatchScheduled, At
<1>2. calls[c] \in CallState /\ calls[c].event = NoEvent
  BY <1>1 DEF IInv, TypeOK, PromisesKnown
<1>3. ~ DeepCall(c)
  BY <1>1, NotDeep
<1>4. CASE \E P \in Pushes(c) :
             /\ Push(c, P)
             /\ calls' = [calls EXCEPT ![c] = Return([@ EXCEPT !.event.waitUntil = P])]
  <2>1. PICK P \in Pushes(c) :
          /\ Push(c, P)
          /\ calls' = [calls EXCEPT ![c] = Return([@ EXCEPT !.event.waitUntil = P])]
    BY <1>4
  <2> DEFINE call == [calls[c] EXCEPT !.event.waitUntil = P]
  <2>2. P \in SUBSET Promises /\ \A p \in P : promises[p].state = "unused"
    BY PushesAreNew
  <2>3. Ready(c, call, P)
    BY <1>2, <2>2, NoEventType DEF Ready, CallState, EventState
  <2>4. calls' = [calls EXCEPT ![c] = Return(call)]
    BY <2>1
  <2> HIDE DEF call
  <2>5. Moved(c, Return(call), P)
    BY <1>3, <2>3, AwaitingMoves
  <2> QED
    BY <1>1, <2>1, <2>2, <2>4, <2>5, MovedInvariant DEF IInv, TypeOK
<1>5. CASE calls' = [calls EXCEPT ![c] = Throw(@)] /\ UNCHANGED promises
  <2>1. Ready(c, calls[c], {})
    BY <1>2, NoEventType DEF Ready
  <2>2. Moved(c, Throw(calls[c]), {})
    BY <1>3, <2>1, ThrowMoves
  <2> QED
    BY <1>1, <1>5, <2>2, MovedAlone
<1> QED
  BY <1>4, <1>5 DEF DispatchScheduled

\* An object's fetch() is called; it has given nothing.
LEMMA DispatchObjectInvariant ==
  ASSUME IInv, NEW c \in Calls, DispatchObject(c)
  PROVE  IInv'
<1> DEFINE call == [calls[c] EXCEPT !.at = "responding"]
<1>1. At(c, "dispatching") /\ ~ At(c, "unused") /\ ~ At(c, "threw") /\ UNCHANGED <<promises, answer>>
  BY DEF DispatchObject, At
<1>2. calls[c] \in CallState /\ calls[c].event = NoEvent
  BY <1>1 DEF IInv, TypeOK, PromisesKnown
<1>3. ~ DeepCall(c)
  BY <1>1, NotDeep
<1>4. Moved(c, call, {})
  BY <1>2, <1>3, NoEventType DEF Moved, CallState
<1>5. calls' = [calls EXCEPT ![c] = call]
  BY DEF DispatchObject
<1> HIDE DEF call
<1> QED
  BY <1>1, <1>4, <1>5, MovedAlone

\* The promise of the response settles.
LEMMA RespondInvariant ==
  ASSUME IInv, NEW c \in Calls, Respond(c)
  PROVE  IInv'
<1>1. At(c, "responding") /\ ~ At(c, "unused") /\ ~ At(c, "threw") /\ UNCHANGED <<promises, answer>>
  BY DEF Respond, At
<1>2. Ready(c, calls[c], {}) /\ ~ DeepCall(c)
  BY <1>1, RunningReady, NotDeep
<1>3. /\ Moved(c, Return(calls[c]), {}) /\ Moved(c, Throw(calls[c]), {})
      /\ Moved(c, NoResponse(calls[c]), {}) /\ Moved(c, Thrown(calls[c]), {})
  BY <1>2, AwaitingMoves, ThrowMoves, NoResponseMoves
<1>4. PICK moved : Moved(c, moved, {}) /\ calls' = [calls EXCEPT ![c] = moved]
  <2>1. PICK outcome \in {"response", "other", "undefined", "error"} :
          calls' = [calls EXCEPT ![c] =
                      CASE outcome = "response" -> Return(@)
                        [] outcome = "other" -> Throw(@)
                        [] outcome = "undefined" -> NoResponse(@)
                        [] outcome = "error" -> Thrown(@)]
    BY DEF Respond
  <2> QED
    BY <1>3, <2>1
<1> QED
  BY <1>1, <1>4, MovedAlone

\* An object's code or the upstream answers, or does not.
LEMMA EndInvariant ==
  ASSUME IInv, NEW c \in Calls, RespondObject(c) \/ UpstreamFetch(c)
  PROVE  IInv'
<1>1. At(c, "responding") \/ At(c, "upstream")
  BY DEF RespondObject, UpstreamFetch
<1>2. PICK place \in {"returned", "threw"} : calls' = [calls EXCEPT ![c] = End(@, place)]
  BY DEF RespondObject, UpstreamFetch
<1>3. ~ At(c, "unused") /\ ~ At(c, "threw")
  BY <1>1 DEF At
<1>4. calls[c] \in CallState /\ ~ DeepCall(c)
  BY <1>3, NotDeep DEF IInv, TypeOK
<1>5. Moved(c, End(calls[c], place), {})
  BY <1>4, EndState DEF IInv, PromisesKnown, Moved
<1> QED
  BY <1>2, <1>3, <1>5, MovedAlone DEF RespondObject, UpstreamFetch

\* Code that runs gives another promise; no promise of a call that has awaited
\* all for good is pending, so that its code does not run any more.
LEMMA WaitUntilInvariant ==
  ASSUME IInv, NEW c \in Calls, NEW p \in Promises, WaitUntil(c, p)
  PROVE  IInv'
<1> DEFINE call == [calls[c] EXCEPT !.event.waitUntil = @ \union {p}]
<1>1. /\ {p} \in SUBSET Promises /\ \A q \in {p} : promises[q].state = "unused"
      /\ Push(c, {p}) /\ answer' = answer /\ calls' = [calls EXCEPT ![c] = call]
  BY PushesAreNew DEF WaitUntil
<1>2. At(c, "responding") \/ \E q \in calls[c].event.waitUntil : promises[q].state = "pending"
  BY DEF WaitUntil, CodeRuns, IInv, PromisesKnown
<1>3. /\ ~ At(c, "unused") /\ ~ At(c, "dispatching") /\ ~ DeepCall(c)
      /\ calls[c].event.waiting # "fulfilled"
  <2>1. CASE At(c, "responding")
    BY <2>1 DEF IInv, PromisesKnown, DepthsCount, At
  <2>2. CASE \E q \in calls[c].event.waitUntil : promises[q].state = "pending"
    BY <2>2, NoEventType DEF IInv, PromisesKnown, DepthsCount
  <2> QED
    BY <1>2, <2>1, <2>2
<1>4. calls[c] \in CallState
  BY DEF IInv, TypeOK
<1>5. /\ call \in CallState /\ call.at = calls[c].at /\ call.parent = calls[c].parent
      /\ call.requestDepth = calls[c].requestDepth /\ call.pipelineDepth = calls[c].pipelineDepth
      /\ call.event.waitUntil = calls[c].event.waitUntil \union {p}
      /\ call.event.awaited = calls[c].event.awaited /\ call.event.waiting = calls[c].event.waiting
  BY <1>4 DEF CallState, EventState
<1> HIDE DEF call
<1>6. Moved(c, call, {p})
  BY <1>3, <1>5 DEF IInv, PromisesKnown, Moved, At
<1> QED
  BY <1>1, <1>3, <1>6, MovedInvariant DEF IInv, TypeOK

\* A promise settles; it was pending, so that it has not been awaited for good.
LEMMA SettleInvariant ==
  ASSUME IInv, NEW p \in Promises, Settle(p)
  PROVE  IInv'
<1>1. PICK state \in {"fulfilled", "rejected"} : promises' = [promises EXCEPT ![p].state = state]
  BY DEF Settle
<1>2. promises[p].state = "pending" /\ UNCHANGED <<calls, answer>>
  BY DEF Settle
<1>3. /\ promises' \in [Promises -> [call : Calls \union {None}, state : {"unused", "pending"} \union Settling]]
      /\ promises'[p].state \in Settling
      /\ \A q \in Promises : /\ promises'[q].call = promises[q].call
                             /\ q # p => promises'[q] = promises[q]
  BY <1>1 DEF IInv, TypeOK, Settling
<1>4. TypeOK' /\ NestedInOrder'
  BY <1>2, <1>3 DEF IInv, TypeOK, NestedInOrder, At
<1>5. DepthsCount'
  BY <1>2, <1>3 DEF IInv, DepthsCount, At, DeepCall
<1>6. PromisesKnown'
  BY <1>2, <1>3 DEF IInv, PromisesKnown, At, Settling
<1> QED
  BY <1>4, <1>5, <1>6 DEF IInv

\* A round of waitUntilAll ends it or begins the next.
LEMMA WaitUntilAllInvariant ==
  ASSUME IInv, NEW c \in Calls, WaitUntilAll(c)
  PROVE  IInv'
<1> DEFINE event == calls[c].event
<1>1. event.waiting = "waiting" /\ UNCHANGED <<promises, answer>>
  BY DEF WaitUntilAll
<1>2. /\ calls[c] \in CallState /\ event \in EventState
      /\ event.waitUntil = {p \in Promises : promises[p].call = c}
      /\ event.awaited \subseteq event.waitUntil
  BY DEF IInv, TypeOK, CallState, PromisesKnown
<1>3. ~ At(c, "unused") /\ ~ At(c, "dispatching") /\ ~ At(c, "responding")
  BY <1>1, NoEventType DEF IInv, PromisesKnown
<1>4. PICK next \in EventState :
        /\ calls' = [calls EXCEPT ![c].event = next]
        /\ next.waitUntil = event.waitUntil /\ next.awaited \subseteq next.waitUntil
        /\ next.waiting = "fulfilled" => \A p \in event.waitUntil : promises[p].state = "fulfilled"
  <2>1. CASE calls' = [calls EXCEPT ![c].event.waiting = "rejected"]
    <3> DEFINE rejected == [event EXCEPT !.waiting = "rejected"]
    <3>1. /\ rejected \in EventState /\ rejected.waitUntil = event.waitUntil
          /\ rejected.awaited = event.awaited /\ rejected.waiting = "rejected"
      BY <1>2 DEF EventState, Settling
    <3>2. calls' = [calls EXCEPT ![c].event = rejected]
      BY <2>1
    <3> HIDE DEF rejected
    <3> QED
      BY <1>2, <3>1, <3>2
  <2>2. CASE /\ \A p \in event.awaited : promises[p].state = "fulfilled"
             /\ calls' = [calls EXCEPT ![c].event =
                            IF event.waitUntil = event.awaited THEN [@ EXCEPT !.waiting = "fulfilled"]
                            ELSE StartWaiting(@)]
    <3>1. CASE event.waitUntil = event.awaited
      <4> DEFINE done == [event EXCEPT !.waiting = "fulfilled"]
      <4>1. /\ done \in EventState /\ done.waitUntil = event.waitUntil
            /\ done.awaited = event.awaited
        BY <1>2 DEF EventState, Settling
      <4>2. calls' = [calls EXCEPT ![c].event = done]
        BY <2>2, <3>1
      <4> HIDE DEF done
      <4> QED
        BY <1>2, <2>2, <3>1, <4>1, <4>2
    <3>2. CASE event.waitUntil # event.awaited
      <4>1. calls' = [calls EXCEPT ![c].event = StartWaiting(event)]
        BY <2>2, <3>2
      <4> QED
        BY <1>2, <4>1, StartWaitingState
    <3> QED
      BY <3>1, <3>2
  <2> QED
    BY <2>1, <2>2 DEF WaitUntilAll
<1> DEFINE call == [calls[c] EXCEPT !.event = next]
<1>5. /\ call \in CallState /\ call.at = calls[c].at /\ call.parent = calls[c].parent
      /\ call.requestDepth = calls[c].requestDepth /\ call.pipelineDepth = calls[c].pipelineDepth
      /\ call.event = next
  BY <1>2 DEF CallState
<1>6. calls' = [calls EXCEPT ![c] = call]
  BY <1>4
<1>7. DeepCall(c) => calls[c].at = "threw"
  BY DEF IInv, DepthsCount, At
<1> HIDE DEF call
<1>8. Moved(c, call, {})
  BY <1>3, <1>4, <1>5, <1>7 DEF Moved, At
<1> QED
  BY <1>1, <1>3, <1>6, <1>8, MovedAlone

\* The listener answers, without touching calls or promises.
LEMMA ListenerInvariant ==
  ASSUME IInv, WriteHead \/ WriteBody \/ Upgrade \/ ErrorPage \/ LogResponse
  PROVE  IInv'
<1>1. UNCHANGED <<calls, promises>>
  BY DEF WriteHead, WriteBody, Upgrade, ErrorPage, LogResponse
<1>2. answer \in AnswerState
  BY DEF IInv, TypeOK, AnswerState
<1>3. PICK got, place : Answer(got, place) /\ got \in {answer.got, "nothing", "head", "part", "response", "101", "500"}
                        /\ place \in {"writing", "upgrading", "logging", "returned", "rejected"}
  BY DEF WriteHead, WriteBody, Upgrade, ErrorPage, LogResponse
<1>4. answer' \in AnswerState
  <2>1. answer' = [answer EXCEPT !.got = got, !.listener = place]
    BY <1>3 DEF Answer
  <2>2. got \in {"nothing", "head", "part", "response", "101", "200", "500"}
    BY <1>2, <1>3 DEF AnswerState
  <2>3. place \in {"idle", "dispatching", "writing", "upgrading", "logging", "returned", "rejected"}
    BY <1>3
  <2> QED
    BY <1>2, <2>1, <2>2, <2>3 DEF AnswerState
<1>5. TypeOK'
  BY <1>1, <1>4 DEF IInv, TypeOK, AnswerState
<1>6. NestedInOrder' /\ DepthsCount' /\ PromisesKnown'
  BY <1>1 DEF IInv, NestedInOrder, DepthsCount, PromisesKnown, At, DeepCall
<1> QED
  BY <1>5, <1>6 DEF IInv

\* One step of anybody.
LEMMA StepInvariant == IInv /\ [Next]_vars => IInv'
<1> SUFFICES ASSUME IInv, [Next]_vars
             PROVE  IInv'
  OBVIOUS
<1>1. CASE UNCHANGED vars
  BY <1>1 DEF vars, IInv, TypeOK, NestedInOrder, DepthsCount, PromisesKnown, At, DeepCall
<1>2. CASE IncomingRequest \/ IncomingScheduled
  BY <1>2, IncomingInvariant
<1>3. ASSUME NEW c \in Calls, NEW parent \in Calls, Subrequest(c, parent)
      PROVE  IInv'
  BY <1>3, SubrequestInvariant
<1>4. ASSUME NEW c \in Calls, DispatchFetch(c) \/ DispatchScheduled(c) \/ DispatchObject(c)
      PROVE  IInv'
  BY <1>4, DispatchFetchInvariant, DispatchScheduledInvariant, DispatchObjectInvariant
<1>5. ASSUME NEW c \in Calls, Respond(c) \/ RespondObject(c) \/ UpstreamFetch(c)
      PROVE  IInv'
  BY <1>5, RespondInvariant, EndInvariant
<1>6. ASSUME NEW c \in Calls, WaitUntilAll(c) \/ \E p \in Promises : WaitUntil(c, p)
      PROVE  IInv'
  BY <1>6, WaitUntilAllInvariant, WaitUntilInvariant
<1>7. ASSUME NEW p \in Promises, Settle(p)
      PROVE  IInv'
  BY <1>7, SettleInvariant
<1>8. CASE WriteHead \/ WriteBody \/ Upgrade \/ ErrorPage \/ LogResponse
  BY <1>8, ListenerInvariant
<1> QED
  BY <1>1, <1>2, <1>3, <1>4, <1>5, <1>6, <1>7, <1>8 DEF Next

-----------------------------------------------------------------------------
(***************************************************************************)
(* Theorems.                                                               *)
(***************************************************************************)

\* The invariant holds in every state of every behaviour.
THEOREM InductiveInvariant == Spec => []IInv
<1>1. Init => IInv
  BY InitInvariant
<1>2. IInv /\ [Next]_vars => IInv'
  BY StepInvariant
<1> QED
  BY <1>1, <1>2, PTL DEF Spec

\* Calls, promises and the answer keep their types.
THEOREM TypeCorrect == Spec => []TypeOK
<1>1. IInv => TypeOK
  BY DEF IInv
<1> QED
  BY <1>1, InductiveInvariant, PTL

\* waitUntilAll() of a call resolves only when all that any code has ever given
\* to its waitUntil() is fulfilled, and nothing is given later.
THEOREM NothingUnderWay == Spec => []WaitedForAll
<1>1. IInv => WaitedForAll
  BY DEF IInv, PromisesKnown, WaitedForAll
<1> QED
  BY <1>1, InductiveInvariant, PTL

\* A set of natural numbers that is not empty has a least element.
LEMMA LeastNumber ==
  ASSUME NEW S, S \subseteq Nat, S # {}
  PROVE  \E n \in S : \A m \in S : ~ (m < n)
<1> DEFINE Less == {p \in Nat \X Nat : p[1] < p[2]}
<1>1. IsWellFoundedOn(Less, Nat)
  BY NatLessThanWellFounded DEF OpToRel
<1>2. PICK n \in S : \A m \in S : ~ (<<m, n>> \in Less)
  BY <1>1, WFMin
<1> QED
  BY <1>2

\* The recursion of Chain ends: a call is nested in the calls before it.
LEMMA ChainIsInterval ==
  ASSUME IInv, NEW c \in Calls, ~ At(c, "unused")
  PROVE  Chain[c] = 1 .. c
<1> DEFINE Is(f) == f = [d \in Calls |-> IF calls[d].parent = None THEN {d}
                                       ELSE {d} \union f[calls[d].parent]]
           chain == [d \in Calls |-> IF At(d, "unused") THEN {d} ELSE 1 .. d]
<1>1. Is(chain)
  <2> SUFFICES ASSUME NEW d \in Calls
               PROVE  chain[d] = IF calls[d].parent = None THEN {d}
                                 ELSE {d} \union chain[calls[d].parent]
    BY Zenon
  <2>1. CASE At(d, "unused")
    BY <2>1 DEF IInv, NestedInOrder, NoCall
  <2>2. CASE ~ At(d, "unused") /\ d = First
    BY <2>2 DEF IInv, NestedInOrder, First
  <2>3. CASE ~ At(d, "unused") /\ d # First
    <3>1. d - 1 \in Calls /\ ~ At(d - 1, "unused") /\ calls[d].parent = d - 1
      BY <2>3 DEF IInv, NestedInOrder
    <3>2. calls[d].parent # None /\ d \in Nat /\ d > 1
      <4>1. calls[d].parent # None
        BY <3>1, DispatchAssumption
      <4> QED
        BY <2>3, <4>1, CallsAreNumbers DEF First
    <3>3. 1 .. d = {d} \union 1 .. (d - 1)
      BY <3>2
    <3> QED
      BY <2>3, <3>1, <3>2, <3>3
  <2> QED
    BY <2>1, <2>2, <2>3
<1>2. Chain = CHOOSE f : Is(f)
  BY DEF Chain
<1>3. Is(Chain)
  <2> HIDE DEF Is, chain
  <2> QED
    BY <1>1, <1>2
<1> DEFINE Wrong == {d \in Calls : ~ At(d, "unused") /\ Chain[d] # 1 .. d}
<1>4. CASE Wrong = {}
  BY <1>4
<1>5. CASE Wrong # {}
  <2>1. PICK d \in Wrong : \A e \in Wrong : ~ (e < d)
    <3>1. Wrong \subseteq Nat
      BY CallsAreNumbers
    <3> HIDE DEF Wrong
    <3> QED
      BY <1>5, <3>1, LeastNumber
  <2>2. d \in Nat /\ d \in Calls /\ ~ At(d, "unused")
    BY CallsAreNumbers
  <2>3. Chain[d] = IF calls[d].parent = None THEN {d} ELSE {d} \union Chain[calls[d].parent]
    BY <1>3, <2>2
  <2>4. CASE d = First
    <3>1. calls[d].parent = None
      BY <2>2, <2>4 DEF IInv, NestedInOrder
    <3>2. Chain[d] = 1 .. d
      BY <2>3, <2>4, <3>1 DEF First
    <3> QED
      BY <3>2
  <2>5. CASE d # First
    <3>1. d - 1 \in Calls /\ ~ At(d - 1, "unused") /\ calls[d].parent = d - 1
      BY <2>2, <2>5 DEF IInv, NestedInOrder
    <3>2. calls[d].parent # None /\ d > 1
      <4>1. calls[d].parent # None
        BY <3>1, DispatchAssumption
      <4> QED
        BY <2>2, <2>5, <4>1, CallsAreNumbers DEF First
    <3>3. Chain[d - 1] = 1 .. (d - 1)
      BY <2>1, <2>2, <3>1
    <3>4. 1 .. d = {d} \union 1 .. (d - 1)
      BY <2>2, <3>2
    <3> QED
      BY <2>3, <3>1, <3>2, <3>3, <3>4
  <2> QED
    BY <2>4, <2>5
<1> QED
  BY <1>4, <1>5

\* Whatever workers, services, objects and the server call each other, what
\* runs is nested no deeper than the two limits allow together.
THEOREM RecursionEnds == Spec => []RecursionBounded
<1>1. IInv => RecursionBounded
  <2> SUFFICES ASSUME IInv, NEW c \in Calls, At(c, "responding")
               PROVE  Cardinality(Chain[c]) <= MaxRequestDepth * MaxPipelineDepth
    BY DEF RecursionBounded
  <2> DEFINE r == calls[c].requestDepth
             n == calls[c].pipelineDepth
             product == (r - 1) * MaxPipelineDepth
  <2>1. ~ At(c, "unused") /\ ~ DeepCall(c)
    BY NotDeep DEF At
  <2>2. r \in Nat /\ n \in Nat /\ c \in Nat \ {0}
    BY CallsAreNumbers DEF IInv, TypeOK, CallState
  <2>3. Cardinality(Chain[c]) = c
    <3>1. Cardinality(1 .. c) = c
      BY <2>2, FS_Interval
    <3> QED
      BY <2>1, <3>1, ChainIsInterval
  <2>4. c <= product + n
    BY <2>1 DEF IInv, DepthsCount, AtMost
  <2>5. r <= MaxRequestDepth /\ n <= MaxPipelineDepth
    BY <2>1, <2>2, DispatchAssumption DEF DeepCall, TooDeep
  <2> HIDE DEF r, n
  <2>6. product \in Int /\ product <= (MaxRequestDepth - 1) * MaxPipelineDepth
    BY <2>2, <2>5, DispatchAssumption
  <2>7. (MaxRequestDepth - 1) * MaxPipelineDepth + MaxPipelineDepth = MaxRequestDepth * MaxPipelineDepth
    BY DispatchAssumption
  <2>8. (MaxRequestDepth - 1) * MaxPipelineDepth \in Int
    BY DispatchAssumption
  <2> QED
    <3> HIDE DEF product
    <3> DEFINE most == (MaxRequestDepth - 1) * MaxPipelineDepth
    <3> HIDE DEF most
    <3> QED
      BY <2>2, <2>3, <2>4, <2>5, <2>6, <2>7, <2>8, DispatchAssumption DEF most
<1> QED
  BY <1>1, InductiveInvariant, PTL
=============================================================================
