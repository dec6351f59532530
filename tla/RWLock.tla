------------------------------- MODULE RWLock -------------------------------
(***************************************************************************)
(* What a multi-reader, single-writer lock promises its clients, without   *)
(* counters or queues: the lock is the phase of every client.  A waiting   *)
(* writer bars new readers; when the last holder leaves, the lock passes   *)
(* in the same step to one waiting writer or, if there is none, to every   *)
(* waiting reader.  ReadWriteMutex implements it.                          *)
(***************************************************************************)
CONSTANT Clients

VARIABLE phase

Phases == {"idle", "readQueued", "writeQueued", "reading", "writing"}

In(s) == {c \in Clients : phase[c] = s}

Init == phase = [c \in Clients |-> "idle"]

RequestRead(c) ==
  /\ phase[c] = "idle"
  /\ \/ /\ In("writing") = {} /\ In("writeQueued") = {}
        /\ phase' = [phase EXCEPT ![c] = "reading"]
     \/ /\ In("writing") # {} \/ In("writeQueued") # {}
        /\ phase' = [phase EXCEPT ![c] = "readQueued"]

RequestWrite(c) ==
  /\ phase[c] = "idle"
  /\ \/ /\ In("writing") = {} /\ In("reading") = {}
        /\ phase' = [phase EXCEPT ![c] = "writing"]
     \/ /\ In("writing") # {} \/ In("reading") # {}
        /\ phase' = [phase EXCEPT ![c] = "writeQueued"]

\* The caller leaves; the last one to leave hands the lock over.
Release(c) ==
  /\ phase[c] \in {"reading", "writing"}
  /\ \/ /\ In("reading") \ {c} # {}
        /\ phase' = [phase EXCEPT ![c] = "idle"]
     \/ /\ In("reading") \ {c} = {}
        /\ \E w \in In("writeQueued") :
              phase' = [phase EXCEPT ![c] = "idle", ![w] = "writing"]
     \/ /\ In("reading") \ {c} = {} /\ In("writeQueued") = {}
        /\ phase' = [d \in Clients |->
                       CASE d = c                    -> "idle"
                         [] d \in In("readQueued")   -> "reading"
                         [] OTHER                    -> phase[d]]

Next == \E c \in Clients : RequestRead(c) \/ RequestWrite(c) \/ Release(c)

Spec == Init /\ [][Next]_phase
=============================================================================
