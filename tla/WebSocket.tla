------------------------------ MODULE WebSocket ------------------------------
(***************************************************************************)
(* packages/web-sockets/src: the two ends of a WebSocketPair, and the      *)
(* connections (of the library ws, which is external) that are coupled     *)
(* with an end.                                                            *)
(*                                                                         *)
(* A pair is used in one of five ways: both ends by code ("pair"); one end *)
(* returned in a response to the HTTP server ("response"); one coupled     *)
(* with the connection of a fetch() ("fetch"), whose other end may be      *)
(* returned in turn ("proxy"); one made by new WebSocket() ("constructed").*)
(***************************************************************************)
EXTENDS Naturals, FiniteSets, SequencesExt

CONSTANTS
  Contexts,      \* requests whose code uses an end, each with an output gate
  Messages,      \* every message is sent once
  Connections,   \* objects of ws
  Network,       \* the context of what a connection receives
  None

Ends == {"worker", "client"}
Pair(e) == IF e = "worker" THEN "client" ELSE "worker"
ASSUME NoneIsNoEnd == None \notin Ends

Uses == {"pair", "response", "fetch", "proxy", "constructed"}

VARIABLES
  use,             \* how the pair is used
  accepted,        \* kAccepted
  byCode,          \* history: ends on which code has called accept()
  coupled,         \* kCoupled
  closedOutgoing,  \* kClosedOutgoing
  closedIncoming,  \* kClosedIncoming
  dispatchQueue,   \* #dispatchQueue of an end: events from its pair
  flight,          \* events of an end whose #queuingDispatchToPair waits for
                   \*   the output gate of their context
  connection,      \* state of a connection, the end it is coupled with, and
                   \*   the frames from the network it has not emitted
  unsent,          \* messages nobody has sent
  dispatched,      \* history: events that an end has dispatched
  sent             \* history: events that an end has sent

ends == <<accepted, coupled, closedOutgoing, closedIncoming>>
vars == <<use, byCode, ends, dispatchQueue, flight, connection, unsent, dispatched, sent>>

Event(type, data, c) == [type |-> type, data |-> data, context |-> c]
NoConnection == [state |-> "none", end |-> None, frames |-> << >>]
Connecting(end) == [NoConnection EXCEPT !.state = "connecting", !.end = end]

\* fetch() and new WebSocket() couple the client's end before code has either.
Init ==
  /\ use \in Uses
  /\ accepted = [e \in Ends |-> FALSE] /\ byCode = {}
  /\ coupled = [e \in Ends |-> FALSE]
  /\ closedOutgoing = [e \in Ends |-> FALSE]
  /\ closedIncoming = [e \in Ends |-> FALSE]
  /\ dispatchQueue = [e \in Ends |-> << >>]
  /\ flight = [e \in Ends |-> << >>]
  /\ IF use \in {"fetch", "proxy", "constructed"}
     THEN \E x \in Connections :
            connection = [y \in Connections |->
                            IF y = x THEN Connecting("client") ELSE NoConnection]
     ELSE connection = [x \in Connections |-> NoConnection]
  /\ unsent = Messages
  /\ dispatched = [e \in Ends |-> << >>]
  /\ sent = [e \in Ends |-> << >>]

Connected == \E x \in Connections : connection[x].end = "client" /\ connection[x].state # "connecting"

\* The ends that code has in its hands.
Held ==
  CASE use \in {"pair", "response"} -> Ends
    [] use \in {"fetch", "proxy"} -> IF Connected THEN {"worker"} ELSE {}
    [] use = "constructed" -> {"worker"}

-----------------------------------------------------------------------------
(***************************************************************************)
(* An end dispatches events: to the listeners of the connection that is    *)
(* coupled with it, or to those of code.                                   *)
(***************************************************************************)
Listening(x, e) == connection[x].end = e

\* Mutant of Told: an event that closes the end is not passed on.
ToldNoClose(conns, e, events) == conns

\* What listeners of a connection do: ws.send, which says nothing once the
\* connection is closing, and ws.close or ws.terminate.
Told(conns, e, events) ==
  [x \in Connections |->
     IF conns[x].end = e /\ conns[x].state = "open" /\ (\E i \in DOMAIN events : events[i].type = "close")
     THEN [conns[x] EXCEPT !.state = "closing"] ELSE conns[x]]

Dispatch(e, events, conns) ==
  /\ dispatched' = [dispatched EXCEPT ![e] = @ \o events]
  /\ connection' = Told(conns, e, events)

\* Mutant of Accept: what waits in the queue is not taken out of it.
AcceptKeepsQueue(e, conns) ==
  /\ accepted' = [accepted EXCEPT ![e] = TRUE]
  /\ Dispatch(e, dispatchQueue[e], conns)
  /\ UNCHANGED dispatchQueue

\* #accept: events that came before are dispatched.
Accept(e, conns) ==
  IF accepted[e]
  THEN connection' = conns /\ UNCHANGED <<accepted, dispatchQueue, dispatched>>
  ELSE /\ accepted' = [accepted EXCEPT ![e] = TRUE]
       /\ dispatchQueue' = [dispatchQueue EXCEPT ![e] = << >>]
       /\ Dispatch(e, dispatchQueue[e], conns)

accept(e) ==
  /\ e \in Held /\ use # "constructed" /\ ~coupled[e] /\ ~accepted[e]
  /\ Accept(e, connection)
  /\ byCode' = byCode \union {e}
  /\ UNCHANGED <<use, coupled, closedOutgoing, closedIncoming, flight, unsent, sent>>

-----------------------------------------------------------------------------
(***************************************************************************)
(* What an end sends leaves when the output gate of its context is open,   *)
(* and is dispatched by its pair or queued there.                          *)
(***************************************************************************)
Sends(e, events) ==
  /\ flight' = [flight EXCEPT ![e] = @ \o events]
  /\ sent' = [sent EXCEPT ![e] = @ \o events]

CloseEnd(e) ==
  /\ closedOutgoing' = [closedOutgoing EXCEPT ![e] = TRUE]
  /\ closedIncoming' = [closedIncoming EXCEPT ![Pair(e)] = TRUE]

\* Code that has returned an end may go on to use it: a connection has then
\* accepted it.
send(e, c, m) ==
  /\ e \in Held /\ accepted[e] /\ ~closedOutgoing[e] /\ m \in unsent
  /\ Sends(e, <<Event("message", m, c)>>)
  /\ unsent' = unsent \ {m}
  /\ UNCHANGED <<use, byCode, ends, dispatchQueue, connection, dispatched>>

close(e, c) ==
  /\ e \in Held /\ accepted[e] /\ ~closedOutgoing[e]
  /\ CloseEnd(e)
  /\ Sends(e, <<Event("close", None, c)>>)
  /\ UNCHANGED <<use, byCode, accepted, coupled, dispatchQueue, connection, unsent, dispatched>>

\* The gate of a context lets events through in the order they came; those of
\* other contexts may pass them.
QueuingDispatchToPair(e, i) ==
  LET event == flight[e][i]
  IN
  /\ \A j \in DOMAIN flight[e] : j < i => flight[e][j].context # event.context
  /\ flight' = [flight EXCEPT ![e] = RemoveAt(@, i)]
  /\ IF accepted[Pair(e)]
     THEN Dispatch(Pair(e), <<event>>, connection) /\ UNCHANGED dispatchQueue
     ELSE /\ dispatchQueue' = [dispatchQueue EXCEPT ![Pair(e)] = Append(@, event)]
          /\ UNCHANGED <<connection, dispatched>>
  /\ UNCHANGED <<use, byCode, ends, unsent, sent>>

-----------------------------------------------------------------------------
(***************************************************************************)
(* coupleWebSocket                                                         *)
(***************************************************************************)

\* Mutants of MayCouple: an end is coupled however often it is returned; or
\* although code has accepted it.
MayCoupleAgain(e) == ~accepted[e] \/ coupled[e]
MayCoupleAccepted(e) == ~coupled[e]

\* "Can't return WebSocket that was already used in a response" or "after
\* calling accept()": the connection then stays as it is.
MayCouple(e) == ~coupled[e] /\ ~accepted[e]

\* The HTTP server couples the connection of an upgraded request with the end
\* in the response, which code may well return twice.
CoupleResponse(x) ==
  LET e == IF use = "proxy" THEN "worker" ELSE "client"
  IN
  /\ connection[x].state = "none" /\ use \in {"response", "proxy"} /\ e \in Held
  /\ IF MayCouple(e)
     THEN /\ Accept(e, [connection EXCEPT ![x].state = "open", ![x].end = e])
          /\ coupled' = [coupled EXCEPT ![e] = TRUE]
     ELSE /\ connection' = [connection EXCEPT ![x].state = "open"]
          /\ UNCHANGED <<accepted, coupled, dispatchQueue, dispatched>>
  /\ UNCHANGED <<use, byCode, closedOutgoing, closedIncoming, flight, unsent, sent>>

\* The connection of a fetch() or of new WebSocket() opens; the latter accepts
\* its own end.
Opened(x) ==
  /\ connection[x].state = "connecting"
  /\ connection' = [connection EXCEPT ![x].state = "open"]
  /\ accepted' = [accepted EXCEPT !["client"] = TRUE, !["worker"] = (use = "constructed")]
  /\ coupled' = [coupled EXCEPT !["client"] = TRUE]
  /\ UNCHANGED <<use, byCode, closedOutgoing, closedIncoming, dispatchQueue, flight, unsent, dispatched, sent>>

\* It fails: ws emits "error" and "close"; the error is sent, then the close.
Failed(x) ==
  /\ connection[x].state = "connecting"
  /\ connection' = [connection EXCEPT ![x].state = "failed"]
  /\ CloseEnd("client")
  /\ Sends("client", <<Event("error", None, Network), Event("close", None, Network)>>)
  /\ UNCHANGED <<use, byCode, accepted, coupled, dispatchQueue, unsent, dispatched>>

\* The promise of coupleWebSocket rejects, and the constructor accepts its end
\* and sends the error again; fetch() throws.
Rejected(x) ==
  /\ connection[x].state = "failed" /\ use = "constructed"
  /\ Accept("worker", [connection EXCEPT ![x].state = "closed"])
  /\ Sends("client", <<Event("error", None, Network)>>)
  /\ UNCHANGED <<use, byCode, coupled, closedOutgoing, closedIncoming, unsent>>

\* The peer sends a message, which ws emits later.
PeerSends(x, m) ==
  /\ connection[x].state = "open" /\ m \in unsent
  /\ connection' = [connection EXCEPT ![x].frames = Append(@, m)]
  /\ unsent' = unsent \ {m}
  /\ UNCHANGED <<use, byCode, ends, dispatchQueue, flight, dispatched, sent>>

\* Messages received after close are discarded silently.
OnMessage(x) ==
  LET e == connection[x].end
  IN
  /\ connection[x].state \in {"open", "closing"} /\ connection[x].frames # << >> /\ e # None
  /\ connection' = [connection EXCEPT ![x].frames = Tail(@)]
  /\ IF closedOutgoing[e] THEN UNCHANGED <<flight, sent>>
     ELSE Sends(e, <<Event("message", Head(connection[x].frames), Network)>>)
  /\ UNCHANGED <<use, byCode, ends, dispatchQueue, unsent, dispatched>>

\* The connection is closed: the peer has closed it or answered, or ws gave up
\* waiting for the answer.
OnClose(x) ==
  LET e == connection[x].end
  IN
  /\ connection[x].state \in IF connection[x].frames = << >> THEN {"open", "closing"} ELSE {"closing"}
  /\ connection' = [connection EXCEPT ![x].state = "closed", ![x].frames = << >>]
  /\ IF e = None \/ closedOutgoing[e]
     THEN UNCHANGED <<closedOutgoing, closedIncoming, flight, sent>>
     ELSE CloseEnd(e) /\ Sends(e, <<Event("close", None, Network)>>)
  /\ UNCHANGED <<use, byCode, accepted, coupled, dispatchQueue, unsent, dispatched>>

\* A reload closes the connections of the server.
ReloadServer ==
  /\ use \in {"response", "proxy"}
  /\ LET served == {x \in Connections : connection[x].state = "open"
                                        /\ (use = "response" \/ connection[x].end # "client")}
     IN  /\ served # {}
         /\ connection' = [x \in Connections |->
                             IF x \in served THEN [connection[x] EXCEPT !.state = "closing"]
                             ELSE connection[x]]
  /\ UNCHANGED <<use, byCode, ends, dispatchQueue, flight, unsent, dispatched, sent>>

\* A reload of the WebSocketPlugin closes what fetch() has returned, and
\* throws if nobody has accepted it.
ReloadPlugin ==
  /\ use \in {"fetch", "proxy"} /\ Connected /\ accepted["worker"] /\ ~closedOutgoing["worker"]
  /\ CloseEnd("worker")
  /\ Sends("worker", <<Event("close", None, Network)>>)
  /\ UNCHANGED <<use, byCode, accepted, coupled, dispatchQueue, connection, unsent, dispatched>>

-----------------------------------------------------------------------------
Next ==
  \/ \E e \in Ends :
       \/ accept(e)
       \/ \E c \in Contexts : close(e, c) \/ \E m \in Messages : send(e, c, m)
       \/ \E i \in DOMAIN flight[e] : QueuingDispatchToPair(e, i)
  \/ \E x \in Connections :
       \/ CoupleResponse(x) \/ Opened(x) \/ Failed(x) \/ Rejected(x) \/ OnMessage(x) \/ OnClose(x)
       \/ \E m \in Messages : PeerSends(x, m)
  \/ ReloadServer
  \/ ReloadPlugin

\* Output gates open, and ws reports what happens; it closes what is closing.
Fairness ==
  /\ \A e \in Ends : WF_vars(\E i \in DOMAIN flight[e] : QueuingDispatchToPair(e, i))
  /\ \A x \in Connections :
       /\ WF_vars(Opened(x) \/ Failed(x)) /\ WF_vars(Rejected(x)) /\ WF_vars(OnMessage(x))
       /\ WF_vars(connection[x].state = "closing" /\ OnClose(x))

Spec == Init /\ [][Next]_vars /\ Fairness

-----------------------------------------------------------------------------
(***************************************************************************)
(* Properties.                                                             *)
(***************************************************************************)
Flags == [Ends -> BOOLEAN]
Events == [type : {"message", "close", "error"}, data : Messages \union {None},
           context : Contexts \union {Network}]
Queues == [Ends -> Seq(Events)]
ConnectionState ==
  [state : {"none", "connecting", "failed", "open", "closing", "closed"},
   end : Ends \union {None}, frames : Seq(Messages)]

\* Type correctness.
TypeOK ==
  /\ use \in Uses
  /\ accepted \in Flags /\ byCode \subseteq Ends /\ coupled \in Flags /\ closedOutgoing \in Flags /\ closedIncoming \in Flags
  /\ dispatchQueue \in Queues /\ flight \in Queues /\ dispatched \in Queues /\ sent \in Queues
  /\ connection \in [Connections -> ConnectionState]
  /\ unsent \subseteq Messages

\* The events of one context, in order.
Of(c, events) ==
  LET of[n \in 0 .. Len(events)] ==
        IF n = 0 THEN << >>
        ELSE IF events[n].context = c THEN Append(of[n - 1], events[n]) ELSE of[n - 1]
  IN  of[Len(events)]

\* What the code of one context sends, or a connection receives, is dispatched
\* by the other end once each and in order, before and after accept(), and
\* what was sent before a close comes before the close.
InOrder ==
  \A e \in Ends : \A c \in Contexts \union {Network} :
    Of(c, dispatched[Pair(e)]) \o Of(c, dispatchQueue[Pair(e)]) \o Of(c, flight[e]) = Of(c, sent[e])

\* "Can't return WebSocket that was already used in a response" or "after
\* calling accept()", and "Can't accept() WebSocket that was already used": an
\* end serves one connection, and none if code has accepted it, which gets the
\* events that have come; one that is marked as coupled serves one.
OneOwner ==
  \A e \in Ends :
    /\ Cardinality({x \in Connections : Listening(x, e)}) <= 1
    /\ e \in byCode => \A x \in Connections : ~Listening(x, e)
    /\ coupled[e] => \E x \in Connections : Listening(x, e)

\* "Completing the closing handshake": what code closes is closed from the
\* other side as well if that is coupled with a connection.
HandshakeCompletes ==
  \A e \in Ends : closedOutgoing[e] /\ coupled[Pair(e)] ~> closedIncoming[e]
=============================================================================
