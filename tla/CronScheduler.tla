---------------------------- MODULE CronScheduler ----------------------------
(***************************************************************************)
(* packages/scheduler/src: the timers of a worker's CRON expressions, as   *)
(* steps of a record: SchedulerPlugin's validated expressions, CronScheduler *)
(* with the handles of its timers, and the calls that wait for the library *)
(* cron-schedule, which go on in the order they came.                      *)
(*                                                                         *)
(* validatedCrons is compared by reference: an array is its expressions    *)
(* with the number of the setup that made it.                              *)
(***************************************************************************)
EXTENDS Naturals, SequencesExt

CONSTANT None

Array(id, crons) == [id |-> id, crons |-> crons]
Handle(id, cron) == [id |-> id, cron |-> cron]

Initial ==
  [validatedCrons |-> Array(0, << >>), setups |-> 0, listening |-> FALSE,
   previousValidatedCrons |-> None, scheduledHandles |-> << >>, waiting |-> << >>,
   timers |-> {}, made |-> 0, failed |-> FALSE]

-----------------------------------------------------------------------------
\* SchedulerPlugin.setup of a new instance: an array of its own, or the error
\* ERR_INVALID_CRON, and then the array is still empty.
Setup(s, crons, valid) ==
  LET failed == ~(ToSet(crons) \subseteq valid)
  IN  [s EXCEPT !.setups = @ + 1, !.failed = failed,
                !.validatedCrons = Array(s.setups + 1, IF failed THEN << >> ELSE crons)]

\* kReload up to its await.
Reload(s) ==
  IF s.previousValidatedCrons = s.validatedCrons THEN s
  ELSE [s EXCEPT !.previousValidatedCrons = s.validatedCrons,
                 !.waiting = Append(@, [kind |-> "reload", crons |-> s.validatedCrons.crons])]

\* The event "reload" of the core, and startScheduler, which listens and then
\* calls the listener itself.
ReloadEvent(s) == IF s.listening THEN Reload(s) ELSE s
StartScheduler(s) == Reload([s EXCEPT !.listening = TRUE])

\* dispose() up to its await.
Dispose(s) == [s EXCEPT !.listening = FALSE, !.waiting = Append(@, [kind |-> "dispose"])]

\* The first that waits goes on: timers are cleared, and set anew.  The handles
\* are kept when there is nothing to schedule.
GoOn(s) ==
  IF s.waiting = << >> THEN s
  ELSE LET first == Head(s.waiting)
           left == s.timers \ ToSet(s.scheduledHandles)
           crons == IF first.kind = "reload" THEN first.crons ELSE << >>
           handles == [i \in DOMAIN crons |-> Handle(s.made + i, crons[i])]
       IN  [s EXCEPT !.waiting = Tail(@), !.made = @ + Len(crons),
                     !.timers = left \union ToSet(handles),
                     !.scheduledHandles = IF crons = << >> THEN @ ELSE handles]
=============================================================================
