----------------------------- MODULE AlarmStore -----------------------------
(***************************************************************************)
(* packages/durable-objects/src/alarms.ts: the alarms of all Durable       *)
(* Objects, with the way plugin.ts and namespace.ts run them.  An alarm    *)
(* is in a map, in a persistent store that a restarted Miniflare reads it  *)
(* back from, and, once it is near, in a Node.js timer.                    *)
(*                                                                         *)
(* Times are relative to now: 0 is now or the past, and Tick brings all of *)
(* them one unit nearer.  Timers fire before time moves on.                *)
(*                                                                         *)
(* Nothing orders the operations of the store on one key: #deleteAlarm is  *)
(* not awaited by the timer, and with files a put or a delete is several   *)
(* awaited calls (see FileStorage).  An operation that overlaps no other   *)
(* one leaves its value; several that overlap leave one of theirs, what    *)
(* was there, nothing, or a value without metadata, read back as time 0    *)
(* (with files under another name, that is as nothing).                    *)
(* dispose() does not stop them, nor code that still runs: it goes on with *)
(* the map and timers of its own AlarmStore, and the common store.         *)
(***************************************************************************)
EXTENDS Integers, Nothing

CONSTANTS
  Objects,    \* object keys
  Interval,   \* time between two checks of the map (30_000)
  Overlap,    \* what setAlarm adds to it (1_000)
  MaxDelay,   \* bound: how far ahead an alarm is set
  MaxSets,    \* bound: how often setAlarm is called
  MaxLeft     \* bound: operations on a key that dispose() leaves under way

ASSUME TimesAreNaturals == {Interval, Overlap, MaxDelay, MaxSets, MaxLeft} \subseteq Nat
ASSUME IntervalPositive == Interval > 0
ASSUME NoneIsNoTime == None \notin Nat

VARIABLES
  mode,       \* "down", "loaded" (setupStore ran), "running" (callback attached)
  alarms,     \* #alarms: the scheduledTime of each object's alarm
  timer,      \* doAlarm.timeout: when it fires
  check,      \* #alarmTimeout: when the map is checked next
  stored,     \* #store: what is persisted
  storing,    \* the operations of the store on each key under way: how many,
              \*   the values (None: delete) of all that overlapped, and
              \*   whether there is but one
  bridge,     \* objects whose storage waits for the alarm bridge, and holds its
              \*   write lock
  stale,      \* code of objects of a disposed AlarmStore may still run
  fired,      \* alarms whose callback has not deleted the local alarm yet
  flush,      \* where flushAlarms() is, at which object, and the keys it has
              \*   yet to visit
  sets,       \* calls of setAlarm so far
  disputed    \* history: the keys whose last operation of this AlarmStore
              \*   overlapped another one, or was followed by a stale one

alarmVars == <<mode, alarms, timer, check, stored, storing, bridge, stale, fired, flush, sets,
          disputed>>

Time == 0..MaxDelay
TimeOrNone == Time \union {None}
FlushAt(l, o, ks) == [at |-> l, object |-> o, keys |-> ks]
NoFlush == FlushAt("idle", None, {})
Quiet == [left |-> 0, values |-> {}, alone |-> FALSE]

AlarmInit ==
  /\ mode = "down"
  /\ alarms = [o \in Objects |-> None]
  /\ timer = [o \in Objects |-> None]
  /\ check = None
  /\ stored = [o \in Objects |-> None]
  /\ storing = [o \in Objects |-> Quiet]
  /\ bridge = {}
  /\ stale = FALSE
  /\ fired = [o \in Objects |-> 0]
  /\ flush = NoFlush
  /\ sets = 0
  /\ disputed = {}

Up == mode = "running"

-----------------------------------------------------------------------------
(***************************************************************************)
(* The store.                                                              *)
(***************************************************************************)

\* put (of a time) or delete (None), which the caller need not await.
Issue(o, v) ==
  storing' = [storing EXCEPT ![o] =
    IF @.left = 0 THEN [left |-> 1, values |-> {v}, alone |-> TRUE]
                  ELSE [left |-> @.left + 1, values |-> @.values \union {v}, alone |-> FALSE]]

\* The same by this AlarmStore, after it has changed its map.
Store(o, v) ==
  /\ Issue(o, v)
  /\ disputed' = IF storing[o].left = 0 THEN disputed \ {o} ELSE disputed \union {o}

\* What may be read, or left behind, while operations are under way.
Outcomes(o) ==
  IF storing[o].left = 0 THEN {stored[o]} ELSE storing[o].values \union {stored[o], None, 0}

\* An operation on o ends.  Only the last one of those that overlap decides.
Settle(o) ==
  /\ storing[o].left > 0
  /\ IF storing[o].left > 1
     THEN /\ storing' = [storing EXCEPT ![o].left = @ - 1]
          /\ UNCHANGED stored
     ELSE /\ storing' = [storing EXCEPT ![o] = Quiet]
          /\ \E v \in IF storing[o].alone THEN storing[o].values ELSE Outcomes(o) :
               stored' = [stored EXCEPT ![o] = v]

\* flushAlarms() waits for the operation it has begun on o.
Awaited(o) == flush.at = "store" /\ flush.object = o

\* An operation ends that nobody awaits.
StoreDone(o) ==
  /\ storing[o].left > (IF Awaited(o) THEN 1 ELSE 0) + (IF o \in bridge THEN 1 ELSE 0)
  /\ Settle(o)
  /\ UNCHANGED <<mode, alarms, timer, check, bridge, stale, fired, flush,
                 sets, disputed>>

\* The operation ends that the flush of the storage of o awaits.
BridgeDone(o) ==
  /\ o \in bridge
  /\ Settle(o)
  /\ bridge' = bridge \ {o}
  /\ UNCHANGED <<mode, alarms, timer, check, stale, fired, flush, sets,
                 disputed>>

\* Code of before dispose() sets or deletes an alarm, or its timer fires.
StaleStore(o, v) ==
  /\ stale /\ sets < MaxSets
  /\ sets' = sets + 1
  /\ Issue(o, v)
  /\ disputed' = disputed \union {o}
  /\ UNCHANGED <<mode, alarms, timer, check, stored, bridge, stale, fired,
                 flush>>

-----------------------------------------------------------------------------
(***************************************************************************)
(* Start, stop and the passing of time.                                    *)
(***************************************************************************)

\* setupStore: the map is read back from the store.
SetupStore ==
  /\ mode = "down"
  /\ mode' = "loaded"
  /\ alarms' \in [Objects -> TimeOrNone]
  /\ \A o \in Objects : alarms'[o] \in Outcomes(o)
  /\ disputed' = {o \in Objects : storing[o].left > 0}
  /\ UNCHANGED <<timer, check, stored, storing, bridge, stale, fired, flush,
                 sets>>

\* Alarms that setupAlarms gives a timer: those before the next check.
Near(t) == t < Interval

\* Mutant of Scan: the map is not looked at again.
ScanOnce ==
  /\ timer' = [o \in Objects |->
                 IF alarms[o] # None /\ Near(alarms[o]) THEN alarms[o] ELSE timer[o]]
  /\ check' = None

\* setupAlarms: timers for near alarms, and the next check.
Scan ==
  /\ timer' = [o \in Objects |->
                 IF alarms[o] # None /\ Near(alarms[o]) THEN alarms[o] ELSE timer[o]]
  /\ check' = Interval

\* The first beforeReload() attaches the callback and calls setupAlarms.
SetupAlarms ==
  /\ mode = "loaded"
  /\ mode' = "running"
  /\ Scan
  /\ UNCHANGED <<alarms, stored, storing, bridge, stale, fired, flush, sets,
                 disputed>>

\* The timer of #alarmTimeout.
Check ==
  /\ Up /\ check = 0
  /\ Scan
  /\ UNCHANGED <<mode, alarms, stored, storing, bridge, stale, fired, flush,
                 sets, disputed>>

\* dispose(): nothing is left in the map and no timer.  Alarms that fired
\* find nothing to delete; what else their handlers do is StaleStore.
Dispose ==
  /\ mode # "down" /\ \A o \in Objects : storing[o].left <= MaxLeft
  /\ mode' = "down"
  /\ alarms' = [o \in Objects |-> None]
  /\ timer' = [o \in Objects |-> None]
  /\ check' = None
  /\ fired' = [o \in Objects |-> 0]
  /\ flush' = NoFlush
  /\ bridge' = {}
  /\ stale' = TRUE
  /\ UNCHANGED <<stored, storing, sets, disputed>>

\* The process ends, in the middle of any operation of the store.
ProcessEnds ==
  /\ mode' = "down"
  /\ alarms' = [o \in Objects |-> None]
  /\ timer' = [o \in Objects |-> None]
  /\ check' = None
  /\ stored' \in [Objects -> TimeOrNone]
  /\ \A o \in Objects : stored'[o] \in Outcomes(o)
  /\ storing' = [o \in Objects |-> Quiet]
  /\ bridge' = {}
  /\ stale' = FALSE
  /\ fired' = [o \in Objects |-> 0]
  /\ flush' = NoFlush
  /\ UNCHANGED <<sets, disputed>>

\* Math.max(scheduledTime - now, 0), as now grows.
Nearer(t) == IF t \in {None, 0} THEN t ELSE t - 1

Tick ==
  /\ check # 0 /\ \A o \in Objects : timer[o] # 0
  /\ alarms' = [o \in Objects |-> Nearer(alarms[o])]
  /\ timer' = [o \in Objects |-> Nearer(timer[o])]
  /\ check' = Nearer(check)
  /\ stored' = [o \in Objects |-> Nearer(stored[o])]
  /\ storing' = [o \in Objects |->
                   [storing[o] EXCEPT !.values = {Nearer(v) : v \in @}]]
  /\ UNCHANGED <<mode, bridge, stale, fired, flush, sets, disputed>>

-----------------------------------------------------------------------------
(***************************************************************************)
(* Alarms are set and deleted.                                             *)
(***************************************************************************)

\* Mutant of Soon: setAlarm leaves everything but the overlap to the scan.
SoonTooShort(t) == t < Overlap

\* Alarms that setAlarm gives a timer at once.
Soon(t) == t < Interval + Overlap

\* setAlarm, called while the storage of o flushes: an alarm that is not near
\* keeps the timer it had.
SetAlarm(o, t) ==
  /\ Up /\ o \notin bridge /\ sets < MaxSets
  /\ bridge' = bridge \union {o}
  /\ sets' = sets + 1
  /\ alarms' = [alarms EXCEPT ![o] = t]
  /\ timer' = IF Soon(t) THEN [timer EXCEPT ![o] = t] ELSE timer
  /\ Store(o, t)
  /\ UNCHANGED <<mode, check, stored, stale, fired, flush>>

\* Mutant of Forget: the timer is not cleared.
ForgetKeepsTimer(o) ==
  /\ alarms' = [alarms EXCEPT ![o] = None]
  /\ Store(o, None)
  /\ UNCHANGED timer

\* Mutant of Forget: the alarm stays in the store.
ForgetKeepsStored(o) ==
  /\ timer' = [timer EXCEPT ![o] = None]
  /\ alarms' = [alarms EXCEPT ![o] = None]
  /\ UNCHANGED <<storing, disputed>>

\* Mutant of Forget: the alarm stays in the map.
ForgetKeepsAlarm(o) ==
  /\ timer' = [timer EXCEPT ![o] = None]
  /\ Store(o, None)
  /\ UNCHANGED alarms

\* #deleteAlarm: out of the timer, the map and, eventually, the store.
Forget(o) ==
  /\ timer' = [timer EXCEPT ![o] = None]
  /\ alarms' = [alarms EXCEPT ![o] = None]
  /\ Store(o, None)

\* deleteAlarm, called likewise.
DeleteAlarm(o) ==
  /\ Up /\ o \notin bridge /\ alarms[o] # None
  /\ bridge' = bridge \union {o}
  /\ Forget(o)
  /\ UNCHANGED <<mode, check, stored, stale, fired, flush, sets>>

-----------------------------------------------------------------------------
(***************************************************************************)
(* Alarms are run.                                                         *)
(***************************************************************************)

\* The timer of an alarm: it is deleted, without waiting for the store, and
\* the callback starts.
Fire(o) ==
  /\ timer[o] = 0
  /\ Forget(o)
  /\ fired' = [fired EXCEPT ![o] = @ + 1]
  /\ UNCHANGED <<mode, check, stored, bridge, stale, flush, sets>>

\* [kAlarm]: behind the gates of the object, its storage deletes the local
\* alarm, whichever it is by now, and the alarm() handler starts.  What the
\* handler does with alarms are calls of setAlarm and deleteAlarm.
LocalDelete(o) ==
  /\ o \notin bridge
  /\ IF alarms[o] # None THEN Forget(o) /\ bridge' = bridge \union {o}
                         ELSE UNCHANGED <<alarms, timer, storing, bridge,
                                          disputed>>

RunHandler(o) ==
  /\ fired[o] > 0
  /\ fired' = [fired EXCEPT ![o] = @ - 1]
  /\ LocalDelete(o)
  /\ UNCHANGED <<mode, check, stored, stale, flush, sets>>

\* flushAlarms(keys).  Without keys it iterates over the live map: every entry
\* it visits is deleted, so that the next one is the first of those there are,
\* whenever it was set, and the loop ends when there is none.
FlushStart(keys) ==
  /\ Up /\ flush = NoFlush
  /\ flush' = FlushAt("next", None, keys)
  /\ UNCHANGED <<mode, alarms, timer, check, stored, storing, bridge, stale,
                 fired, sets, disputed>>

WholeMap == Objects \union {None}
After(o) == IF flush.keys = WholeMap THEN WholeMap ELSE flush.keys \ {o}

FlushVisit(o) ==
  /\ flush.at = "next" /\ o \in flush.keys /\ alarms[o] # None
  /\ Forget(o)
  /\ flush' = FlushAt("store", o, After(o))
  /\ UNCHANGED <<mode, check, stored, bridge, stale, fired, sets>>

\* A selected object without an alarm is left alone.
FlushSkip(o) ==
  /\ flush.at = "next" /\ o \in flush.keys /\ alarms[o] = None
  /\ flush.keys # WholeMap
  /\ flush' = FlushAt("next", None, After(o))
  /\ UNCHANGED <<mode, alarms, timer, check, stored, storing, bridge, stale,
                 fired, sets, disputed>>

\* The deletion is stored and the callback called.
FlushCallback(o) ==
  /\ Awaited(o)
  /\ Settle(o)
  /\ flush' = [flush EXCEPT !.at = "callback"]
  /\ UNCHANGED <<mode, alarms, timer, check, bridge, stale, fired, sets,
                 disputed>>

\* As RunHandler, but flushAlarms() waits for it.
FlushHandler(o) ==
  /\ flush.at = "callback" /\ flush.object = o
  /\ flush' = [flush EXCEPT !.at = "handler"]
  /\ LocalDelete(o)
  /\ UNCHANGED <<mode, check, stored, stale, fired, sets>>

FlushHandled ==
  /\ flush.at = "handler"
  /\ flush' = FlushAt("next", None, flush.keys)
  /\ UNCHANGED <<mode, alarms, timer, check, stored, storing, bridge, stale,
                 fired, sets, disputed>>

\* The object cannot be constructed or its handler throws: flushAlarms()
\* rejects, and the alarms it has not visited stay.
FlushThrows ==
  /\ flush.at \in {"callback", "handler"}
  /\ flush' = NoFlush
  /\ UNCHANGED <<mode, alarms, timer, check, stored, storing, bridge, stale,
                 fired, sets, disputed>>

FlushEnd ==
  /\ flush.at = "next"
  /\ \/ flush.keys = {}
     \/ flush.keys = WholeMap /\ \A o \in Objects : alarms[o] = None
  /\ flush' = NoFlush
  /\ UNCHANGED <<mode, alarms, timer, check, stored, storing, bridge, stale,
                 fired, sets, disputed>>

-----------------------------------------------------------------------------
FlushOn(o) == FlushVisit(o) \/ FlushSkip(o) \/ FlushCallback(o) \/ FlushHandler(o)

\* What the event loop does by itself.
Proceed ==
  \/ Check \/ FlushHandled \/ FlushThrows \/ FlushEnd
  \/ \E o \in Objects : Fire(o) \/ RunHandler(o) \/ StoreDone(o) \/ BridgeDone(o) \/ FlushOn(o)

AlarmNext ==
  \/ SetupStore \/ SetupAlarms \/ Dispose \/ ProcessEnds \/ Tick \/ Proceed
  \/ \E keys \in (SUBSET Objects) \union {WholeMap} : FlushStart(keys)
  \/ \E o \in Objects :
       \/ DeleteAlarm(o)
       \/ \E t \in Time : SetAlarm(o, t)
       \/ \E v \in TimeOrNone : StaleStore(o, v)

AlarmSpec == AlarmInit /\ [][AlarmNext]_alarmVars

\* Time passes, timers fire, promises of the store and of handlers settle.
AlarmFairness ==
  /\ WF_alarmVars(Tick) /\ WF_alarmVars(Check) /\ WF_alarmVars(FlushHandled \/ FlushEnd)
  /\ \A o \in Objects : /\ WF_alarmVars(Fire(o)) /\ WF_alarmVars(RunHandler(o))
                        /\ WF_alarmVars(StoreDone(o)) /\ WF_alarmVars(BridgeDone(o))
                        /\ WF_alarmVars(FlushOn(o))

AlarmFairSpec == AlarmSpec /\ AlarmFairness

-----------------------------------------------------------------------------
(***************************************************************************)
(* Properties.                                                             *)
(***************************************************************************)
StoringState == [left : Nat, values : SUBSET TimeOrNone, alone : BOOLEAN]
FlushState ==
  [at : {"idle", "next", "store", "callback", "handler"},
   object : Objects \union {None}, keys : SUBSET WholeMap]

\* Type correctness.
AlarmTypeOK ==
  /\ mode \in {"down", "loaded", "running"}
  /\ alarms \in [Objects -> TimeOrNone]
  /\ timer \in [Objects -> TimeOrNone]
  /\ check \in 0..Interval \union {None}
  /\ stored \in [Objects -> TimeOrNone]
  /\ storing \in [Objects -> StoringState]
  /\ bridge \in SUBSET Objects
  /\ stale \in BOOLEAN
  /\ fired \in [Objects -> Nat]
  /\ flush \in FlushState
  /\ sets \in Nat
  /\ disputed \in SUBSET Objects

\* No alarm is missed: an alarm that is due has a timer that is due, or will
\* get it from a check that is, although only near alarms have a timer and
\* the map is only looked at now and then.
NeverLate ==
  Up => \A o \in Objects : alarms[o] = 0 => 0 \in {timer[o], check}

\* Only scheduled alarms are run: an alarm that was deleted, run or flushed
\* has no timer left, and before the callback is attached no alarm has one.
OnlyScheduledAlarmsFire ==
  \A o \in Objects : timer[o] # None => alarms[o] # None /\ Up

\* A restart finds the alarms that are scheduled: once the operations on a
\* key have ended, the store holds what the map holds, whatever happened to
\* them before, if setAlarm or #deleteAlarm last wrote the key while nothing
\* else did.
StoreFollowsMap ==
  \A o \in Objects :
    mode # "down" /\ storing[o].left = 0 /\ o \notin disputed => stored[o] = alarms[o]

\* The same whatever else is under way, which the code does not ensure: what
\* an AlarmStore has set and stored by itself, setupStore finds.
StoreHoldsMap ==
  \A o \in Objects : Up /\ ~stale /\ storing[o].left = 0 => stored[o] = alarms[o]

\* Every alarm is run in the end, also one that was due while the process
\* was down or is many checks away, unless it is deleted or set anew for ever.
AlarmRuns ==
  \A o \in Objects : Up /\ alarms[o] # None ~> alarms[o] = None \/ ~Up

\* flushAlarms() returns once handlers stop setting new alarms.
FlushReturns == flush.at # "idle" ~> flush.at = "idle"
=============================================================================
