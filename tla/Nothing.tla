------------------------------- MODULE Nothing -------------------------------
(***************************************************************************)
(* What is kept, alarms, files and multipart uploads, may not be there: no *)
(* time, no value, no upload; nor need there be a dead letter queue.       *)
(***************************************************************************)
CONSTANT None  \* undefined
=============================================================================
