---------------------------- MODULE WorkerDispatch ----------------------------
(***************************************************************************)
(* How events get to a worker: the HTTP server                             *)
(* (packages/http-server/src/index.ts), the core's dispatch functions,     *)
(* the events and the global scope (packages/core/src/standards/event.ts)  *)
(* and the contexts that count how deep requests are nested                *)
(* (packages/shared/src/context.ts).                                       *)
(*                                                                         *)
(* A call is one event.  It comes from the network, or from a call whose   *)
(* code uses fetch() on the server itself ("loop"), a service binding      *)
(* ("service") or a Durable Object ("object").  The code of a worker does  *)
(* whatever the API lets it do.                                            *)
(***************************************************************************)
EXTENDS Naturals, FiniteSets, Nothing

CONSTANTS
  Calls,             \* calls there may be, numbered in the order they come
  Promises,          \* promises given to waitUntil(), in the order they are given
  Waiters,           \* bound: the calls whose code uses waitUntil()
  MaxRequestDepth,   \* MAX_REQUEST_DEPTH
  MaxPipelineDepth,  \* MAX_PIPELINE_DEPTH
  Upstream           \* whether the option upstream is set

ASSUME DispatchAssumption ==
  /\ IsFiniteSet(Calls) /\ IsFiniteSet(Promises) /\ 1 \in Calls /\ None \notin Calls
  /\ Calls = 1 .. Cardinality(Calls) /\ Promises = 1 .. Cardinality(Promises)
  /\ MaxRequestDepth \in Nat \ {0} /\ MaxPipelineDepth \in Nat \ {0}
  /\ Upstream \in BOOLEAN

VARIABLES
  calls,     \* parent, context, event and place of every call
  promises,  \* which call a promise was given to, and its state
  answer     \* what the client of the HTTP server has got for the first call,
             \*   and how far the listener is
vars == <<calls, promises, answer>>

\* event[kPassThrough], event[kWaitUntil], and of waitUntilAll() the promises it
\* awaits and its state.
NoEvent ==
  [passThrough |-> FALSE, waitUntil |-> {}, awaited |-> {}, waiting |-> "no"]

NoCall ==
  [at |-> "unused", kind |-> None, parent |-> None, requestDepth |-> 0, pipelineDepth |-> 0,
   event |-> NoEvent]

First == 1

Init ==
  /\ calls = [c \in Calls |-> NoCall]
  /\ promises = [p \in Promises |-> [call |-> None, state |-> "unused"]]
  /\ answer = [to |-> "nobody", got |-> "nothing", listener |-> "idle"]

At(c, place) == calls[c].at = place
\* Bound: code awaits the calls it makes.
Ended(c) == calls[c].at \in {"returned", "threw"}
Awaits(c) == \E d \in Calls : calls[d].parent = c /\ ~Ended(d)

\* Code of a call that can still run: its handler, or what waitUntil() awaits.
CodeRuns(c) ==
  /\ ~Awaits(c)
  /\ \/ At(c, "responding")
     \/ \E p \in Promises : promises[p].call = c /\ promises[p].state = "pending"

\* Bound: one event comes from the network, and code of the last call alone
\* makes the next.  Calls share nothing but what they are nested in.
Nested(c, parent) == At(c, "unused") /\ c = parent + 1 /\ CodeRuns(parent)

-----------------------------------------------------------------------------
(***************************************************************************)
(* RequestContext                                                          *)
(***************************************************************************)
TooDeep(depths) == depths[1] > MaxRequestDepth \/ depths[2] > MaxPipelineDepth

\* dispatchFetch: the loop header counts requests, and a pipeline starts.
LoopDepths(parent) == <<calls[parent].requestDepth + 1, 1>>

\* DurableObjectStub.fetch does as well.
ObjectDepths(parent) == <<calls[parent].requestDepth + 1, 1>>

\* Mutant of ServiceDepths: a service binding starts a pipeline.
ServiceStartsPipeline(parent) == <<calls[parent].requestDepth, 1>>

\* Fetcher.fetch of a service binding goes on with the pipeline.
ServiceDepths(parent) == <<calls[parent].requestDepth, calls[parent].pipelineDepth + 1>>

DepthsOf(kind, parent) ==
  CASE kind = "loop" -> LoopDepths(parent)
    [] kind = "object" -> ObjectDepths(parent)
    [] kind = "service" -> ServiceDepths(parent)
    [] OTHER -> <<1, 1>>

NewCall(kind, parent) ==
  [NoCall EXCEPT !.at = IF TooDeep(DepthsOf(kind, parent)) THEN "threw" ELSE "dispatching",
                 !.kind = kind, !.parent = parent,
                 !.requestDepth = DepthsOf(kind, parent)[1],
                 !.pipelineDepth = DepthsOf(kind, parent)[2]]

-----------------------------------------------------------------------------
(***************************************************************************)
(* createRequestListener: a request, an upgrade or /cdn-cgi/mf/scheduled,  *)
(* whose client is answered before the event is handled.                   *)
(***************************************************************************)
IncomingRequest ==
  /\ At(First, "unused")
  /\ \E kind \in {"request", "upgrade"} :
       /\ calls' = [calls EXCEPT ![First] = NewCall(kind, None)]
       /\ answer' = [answer EXCEPT !.to = kind, !.listener = "dispatching"]
  /\ UNCHANGED promises

IncomingScheduled ==
  /\ At(First, "unused")
  /\ calls' = [calls EXCEPT ![First] = NewCall("scheduled", None)]
  /\ answer' = [to |-> "scheduled", got |-> "200", listener |-> "logging"]
  /\ UNCHANGED promises

\* Code calls fetch() on this server, a service binding or an object; the call
\* throws when it is too deep.
Subrequest(c, parent) ==
  /\ Nested(c, parent)
  /\ \E kind \in {"loop", "service", "object"} :
       calls' = [calls EXCEPT ![c] = NewCall(kind, parent)]
  /\ UNCHANGED <<promises, answer>>

-----------------------------------------------------------------------------
(***************************************************************************)
(* Dispatch                                                                *)
(***************************************************************************)

\* waitUntil() of the event: called by its listeners or by what is awaited.
Push(c, P) ==
  promises' = [p \in Promises |-> IF p \in P THEN [call |-> c, state |-> "pending"] ELSE promises[p]]

\* The promise that comes next, and what a listener may push.
NewPromises == {p \in Promises : \A q \in Promises : (promises[q].state = "unused") = (q >= p)}
Pushes(c) == {{}} \union {{p} : p \in IF c \in Waiters THEN NewPromises ELSE {}}

\* waitUntilAll is called with what there is.
StartWaiting(event) ==
  [event EXCEPT !.awaited = event.waitUntil,
                !.waiting = IF event.waitUntil = {} THEN "fulfilled" ELSE "waiting"]

\* A call that has ended forgets its kind and its flag.
End(call, at) == [call EXCEPT !.at = at, !.kind = None, !.event.passThrough = FALSE]

Return(call) == End([call EXCEPT !.event = StartWaiting(@)], "returned")
Throw(call) == End(call, "threw")

\* What kDispatchFetch does without a response: the request goes upstream, as
\* that of a service binding always does, or there is an error.
NoResponse(call) ==
  IF Upstream \/ call.kind = "service" THEN [call EXCEPT !.at = "upstream", !.event = StartWaiting(@)] ELSE Throw(call)

\* A listener throws: ThrowingEventTarget throws to who dispatches, which goes
\* on if passThroughOnException() has been called.
Thrown(call) ==
  IF call.event.passThrough THEN NoResponse(call) ELSE Throw(call)

\* dispatchEvent: listeners call waitUntil() and passThroughOnException(), until
\* one of them responds or throws, or all are done.
DispatchFetch(c) ==
  /\ At(c, "dispatching") /\ calls[c].kind \notin {"scheduled", "object"}
  /\ \E P \in Pushes(c), passes \in BOOLEAN, ends \in {"responds", "throws", "returns"} :
       LET call == [calls[c] EXCEPT !.event.waitUntil = P, !.event.passThrough = passes]
       IN  /\ Push(c, P)
           /\ calls' = [calls EXCEPT ![c] =
                          CASE ends = "responds" -> [call EXCEPT !.at = "responding"]
                            [] ends = "throws" -> Thrown(call)
                            [] ends = "returns" -> NoResponse(call)]
  /\ UNCHANGED answer

\* kDispatchScheduled; kDispatchQueue is the same.
DispatchScheduled(c) ==
  /\ At(c, "dispatching") /\ calls[c].kind = "scheduled"
  /\ \/ \E P \in Pushes(c) :
          /\ Push(c, P)
          /\ calls' = [calls EXCEPT ![c] = Return([@ EXCEPT !.event.waitUntil = P])]
     \/ calls' = [calls EXCEPT ![c] = Throw(@)] /\ UNCHANGED promises
  /\ UNCHANGED answer

\* An object has no event: its fetch() is called, and its waitUntil() is empty.
DispatchObject(c) ==
  /\ At(c, "dispatching") /\ calls[c].kind = "object"
  /\ calls' = [calls EXCEPT ![c].at = "responding"]
  /\ UNCHANGED <<promises, answer>>

RespondObject(c) ==
  /\ At(c, "responding") /\ ~Awaits(c) /\ calls[c].kind = "object"
  /\ \E place \in {"returned", "threw"} : calls' = [calls EXCEPT ![c] = End(@, place)]
  /\ UNCHANGED <<promises, answer>>

\* The promise given to respondWith() settles: a response, something else (or
\* nothing), or an error.
Respond(c) ==
  /\ At(c, "responding") /\ ~Awaits(c) /\ calls[c].kind # "object"
  /\ \E outcome \in {"response", "other", "undefined", "error"} :
       calls' = [calls EXCEPT ![c] =
                   CASE outcome = "response" -> Return(@)
                     [] outcome = "other" -> Throw(@)
                     [] outcome = "undefined" -> NoResponse(@)
                     [] outcome = "error" -> Thrown(@)]
  /\ UNCHANGED <<promises, answer>>

\* The upstream answer or not.
UpstreamFetch(c) ==
  /\ At(c, "upstream")
  /\ \E place \in {"returned", "threw"} : calls' = [calls EXCEPT ![c] = End(@, place)]
  /\ UNCHANGED <<promises, answer>>

\* Code that runs gives another promise to waitUntil().
WaitUntil(c, p) ==
  /\ CodeRuns(c) /\ calls[c].kind # "object" /\ {p} \in Pushes(c)
  /\ Push(c, {p})
  /\ calls' = [calls EXCEPT ![c].event.waitUntil = @ \union {p}]
  /\ UNCHANGED answer

Settle(p) ==
  /\ promises[p].state = "pending" /\ ~Awaits(promises[p].call)
  /\ \E state \in {"fulfilled", "rejected"} : promises' = [promises EXCEPT ![p].state = state]
  /\ UNCHANGED <<calls, answer>>

\* Mutant of WaitUntilAll: Promise.all().
WaitUntilAllOnce(c) ==
  LET event == calls[c].event
  IN
  /\ event.waiting = "waiting"
  /\ \/ /\ \E p \in event.awaited : promises[p].state = "rejected"
        /\ calls' = [calls EXCEPT ![c].event.waiting = "rejected"]
     \/ /\ \A p \in event.awaited : promises[p].state = "fulfilled"
        /\ calls' = [calls EXCEPT ![c].event.waiting = "fulfilled"]
  /\ UNCHANGED <<promises, answer>>

\* A round of waitUntilAll: the promises are awaited again if there are more.
WaitUntilAll(c) ==
  LET event == calls[c].event
  IN
  /\ event.waiting = "waiting"
  /\ \/ /\ \E p \in event.awaited : promises[p].state = "rejected"
        /\ calls' = [calls EXCEPT ![c].event.waiting = "rejected"]
     \/ /\ \A p \in event.awaited : promises[p].state = "fulfilled"
        /\ calls' = [calls EXCEPT ![c].event =
                       IF event.waitUntil = event.awaited THEN [@ EXCEPT !.waiting = "fulfilled"]
                       ELSE StartWaiting(@)]
  /\ UNCHANGED <<promises, answer>>

-----------------------------------------------------------------------------
(***************************************************************************)
(* The listener goes on when the core has returned or thrown.              *)
(***************************************************************************)
Listener(place) == answer.listener = place
Answer(got, place) == answer' = [answer EXCEPT !.got = got, !.listener = place]

\* writeResponse: an upgrade couples the connection with the WebSocket, or
\* writes what it got in the end.
WriteHead ==
  /\ Listener("dispatching") /\ At(First, "returned")
  /\ IF answer.to = "upgrade" THEN Answer("nothing", "upgrading") ELSE Answer("head", "writing")
  /\ UNCHANGED <<calls, promises>>

\* The body ends, or it fails: the error page comes after the head, throws, and
\* the listener rejects.
WriteBody ==
  /\ Listener("writing")
  /\ \/ Answer("response", "logging")
     \/ Answer("part", "rejected")
  /\ UNCHANGED <<calls, promises>>

\* Without a response of its own an upgrade gets a 500, an "ok" one as well.
Upgrade ==
  /\ Listener("upgrading")
  /\ \E got \in IF At(First, "threw") THEN {"500"} ELSE {"101", "500", "response"} : Answer(got, "returned")
  /\ UNCHANGED <<calls, promises>>

\* Mutant of ErrorPage: upgrades have no response to write to.
ErrorPageForUpgrades ==
  /\ Listener("dispatching") /\ At(First, "threw")
  /\ IF answer.to = "upgrade" THEN Answer("nothing", "logging") ELSE Answer("500", "logging")
  /\ UNCHANGED <<calls, promises>>

\* The dispatch has thrown: an error page, and waitUntil is left undefined.
ErrorPage ==
  /\ Listener("dispatching") /\ At(First, "threw")
  /\ IF answer.to = "upgrade" THEN Answer("nothing", "upgrading") ELSE Answer("500", "logging")
  /\ UNCHANGED <<calls, promises>>

\* logResponse: the listener returns when all is awaited; errors are logged.
LogResponse ==
  /\ Listener("logging")
  /\ At(First, "threw") \/ calls[First].event.waiting \in {"fulfilled", "rejected"}
  /\ Answer(answer.got, "returned")
  /\ UNCHANGED <<calls, promises>>

-----------------------------------------------------------------------------
Next ==
  \/ IncomingRequest \/ IncomingScheduled
  \/ \E c \in Calls :
       \/ \E parent \in Calls : Subrequest(c, parent)
       \/ DispatchFetch(c) \/ DispatchScheduled(c) \/ DispatchObject(c) \/ Respond(c)
       \/ RespondObject(c) \/ UpstreamFetch(c)
       \/ WaitUntilAll(c) \/ \E p \in Promises : WaitUntil(c, p)
  \/ \E p \in Promises : Settle(p)
  \/ WriteHead \/ WriteBody \/ Upgrade \/ ErrorPage \/ LogResponse

\* What the program does goes on, and code settles what it has promised.
Fairness ==
  /\ \A c \in Calls :
       /\ WF_vars(DispatchFetch(c) \/ DispatchScheduled(c) \/ DispatchObject(c) \/ Respond(c)
               \/ RespondObject(c) \/ UpstreamFetch(c))
       /\ WF_vars(WaitUntilAll(c))
  /\ \A p \in Promises : WF_vars(Settle(p))
  /\ WF_vars(WriteHead \/ WriteBody \/ Upgrade \/ ErrorPage \/ LogResponse)

Spec == Init /\ [][Next]_vars /\ Fairness

-----------------------------------------------------------------------------
(***************************************************************************)
(* Properties.                                                             *)
(***************************************************************************)

Settling == {"fulfilled", "rejected"}

EventState ==
  [passThrough : BOOLEAN, waitUntil : SUBSET Promises, awaited : SUBSET Promises,
   waiting : {"no", "waiting"} \union Settling]

CallState ==
  [at : {"unused", "dispatching", "responding", "upstream", "returned", "threw"},
   kind : {"request", "upgrade", "scheduled", "loop", "service", "object", None},
   parent : Calls \union {None}, requestDepth : Nat, pipelineDepth : Nat, event : EventState]

\* Type correctness.
TypeOK ==
  /\ calls \in [Calls -> CallState]
  /\ promises \in
       [Promises -> [call : Calls \union {None}, state : {"unused", "pending"} \union Settling]]
  /\ answer \in
       [to : {"nobody", "request", "upgrade", "scheduled"},
        got : {"nothing", "head", "part", "response", "101", "200", "500"},
        listener : {"idle", "dispatching", "writing", "upgrading", "logging", "returned", "rejected"}]

\* "Like Promise.all(), but also handles nested changes": when waitUntilAll()
\* of a call resolves, nothing given to its waitUntil() is under way.
WaitedForAll ==
  \A c \in Calls : \A p \in Promises :
    calls[c].event.waiting = "fulfilled" /\ promises[p].call = c => promises[p].state = "fulfilled"

\* The calls that a call is nested in, itself included.
Chain[c \in Calls] == IF calls[c].parent = None THEN {c} ELSE {c} \union Chain[calls[c].parent]

\* "This request recursed through Workers too many times": whatever a worker,
\* its services, its objects and its own server call each other, what runs is
\* nested no deeper than the two limits allow together.
RecursionBounded ==
  \A c \in Calls : At(c, "responding") => Cardinality(Chain[c]) <= MaxRequestDepth * MaxPipelineDepth

\* A client that sends a request gets an answer to its end, whatever code
\* does, unless the body of the response fails half way; and its listener
\* returns.
Answered ==
  answer.to # "nobody" ~> \/ answer.got \in {"200", "101", "500", "response"} /\ Listener("returned")
                          \/ answer.got = "part"
=============================================================================
