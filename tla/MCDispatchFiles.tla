--------------------------- MODULE MCDispatchFiles ---------------------------
(***************************************************************************)
(* Two parts that share no state, in one run: events on their way to an    *)
(* answer, and files.  A behaviour is of one of them; the other stays as   *)
(* it began, where nothing is bound to happen.  What is built on either as *)
(* functions is checked by the assumptions of their modules.               *)
(***************************************************************************)
EXTENDS MCWorkerDispatch, MCFileStorage

VARIABLE part   \* which of them a behaviour is of

MCInit == part \in {"dispatch", "files"} /\ Init /\ FilesInit

MCNext ==
  /\ UNCHANGED part
  /\ \/ part = "dispatch" /\ Next /\ UNCHANGED filesVars
     \/ part = "files" /\ FilesNext /\ UNCHANGED vars

MCSpec == MCInit /\ [][MCNext]_<<part, vars, filesVars>> /\ Fairness
=============================================================================
