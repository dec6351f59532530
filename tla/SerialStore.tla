---------------------------- MODULE SerialStore ----------------------------
(***************************************************************************)
(* What a Durable Object's storage promises the code that uses it: a       *)
(* key-value store on which every call takes effect in ONE step, between   *)
(* its start and its return.  In that step the values the call observed    *)
(* are the values of the store, everything it writes is written, and a     *)
(* delete learns how many of its keys were there.  No shadow copies, no    *)
(* flush, no lock and no validation: DurableObjectStorage implements it.   *)
(***************************************************************************)
EXTENDS Naturals, FiniteSets

CONSTANTS
  Calls,     \* the calls made on the storage
  Keys,      \* the keys they use
  Values,    \* the values of keys
  Absent,    \* "this key has no value"
  None,      \* "not observed", "not written", "no reply"
  Lost       \* "this reply was lost with a failed write to the disk"

VARIABLES
  store,     \* the value of every key
  observed,  \* for every call, the values it has seen so far
  written,   \* for every call, the values it writes
  applied,   \* the calls that have taken effect
  reply      \* for every delete, the number of keys it deleted

vars == <<store, observed, written, applied, reply>>

Init ==
  /\ store \in [Keys -> Values \union {Absent}]
  /\ observed = [c \in Calls |-> [k \in Keys |-> None]]
  /\ written = [c \in Calls |-> [k \in Keys |-> None]]
  /\ applied = {}
  /\ reply = [c \in Calls |-> None]

\* A step of c leaves alone what other calls saw and want to write, until
\* they have taken effect.
Others(c) ==
  \A d \in Calls \ ({c} \union applied) :
    observed'[d] = observed[d] /\ written'[d] = written[d]

\* A call that has not taken effect looks at the store, plans its writes or
\* starts over.  What it sees on the way is not constrained: only what it
\* has seen when it takes effect counts.
Prepare(c) ==
  /\ Others(c)
  /\ UNCHANGED <<store, applied, reply>>

\* The call takes effect; a delete also counts the keys it removed.
Apply(c) ==
  /\ c \notin applied
  /\ Others(c)
  /\ \A k \in Keys : observed[c][k] # None => observed[c][k] = store[k]
  /\ store' = [k \in Keys |-> IF written[c][k] = None THEN store[k] ELSE written[c][k]]
  /\ applied' = applied \union {c}
  /\ LET removed == {k \in Keys : written[c][k] = Absent /\ store[k] # Absent}
     IN  reply' \in {reply, [reply EXCEPT ![c] = Cardinality(removed)]}

\* The disk failed under deletes: their callers get an error, not a number.
LoseReplies ==
  /\ \E L \in SUBSET applied :
        reply' = [c \in Calls |-> IF c \in L THEN Lost ELSE reply[c]]
  /\ UNCHANGED <<store, observed, written, applied>>

Next == LoseReplies \/ \E c \in Calls : Prepare(c) \/ Apply(c)

Spec == Init /\ [][Next]_vars
=============================================================================
