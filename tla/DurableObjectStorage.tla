------------------------ MODULE DurableObjectStorage ------------------------
(***************************************************************************)
(* packages/durable-objects/src/storage.ts and shadow.ts: the storage of   *)
(* one Durable Object.  Writes go to shadow copies in memory first and are *)
(* flushed to the inner (persistent) storage in batches; transactions run  *)
(* optimistically on shadow copies of their own and are validated against  *)
(* the write sets of everything committed since they started.              *)
(*                                                                         *)
(* One step runs from one await to the next.  The order in which resumed   *)
(* calls run is left open, as the inner storage's promises settle in any   *)
(* order.  A call is one invocation of an operation; it runs once.  The    *)
(* value a call writes is the call itself, so a value read identifies its  *)
(* writer.                                                                 *)
(***************************************************************************)
EXTENDS Naturals, Sequences, FiniteSets

CONSTANTS
  Calls,               \* invocations of the storage's operations
  Keys,                \* the user's keys
  AlarmKey,            \* ALARM_KEY, the key that holds the object's alarm
  Times,               \* alarm times the bridge accepts
  InvalidTimes,        \* alarm times the bridge throws for (<= 0)
  Kinds,               \* the operations called, on the storage or a transaction
  Initial,             \* the value of the keys that exist at the start
  Absent,              \* undefined: no value
  None,                \* not in the map, not read, not written
  Lost,                \* the reply of a delete whose result is gone
  TxnWriteSetsMaxSize, \* txnWriteSetsMaxSize (16 in the code)
  AlarmExists,         \* [kAlarmExists]: the class has an alarm() handler
  InnerMayFail         \* whether writes to the inner storage can reject

ASSUME CallsFinite == IsFiniteSet(Calls)
ASSUME KeysFinite == IsFiniteSet(Keys)
ASSUME AlarmKeyReserved == AlarmKey \notin Keys
ASSUME SentinelsDistinct ==
  /\ None # Absent /\ Lost \notin Nat /\ None \notin Nat /\ Lost # None
  /\ {None, Absent} \intersect (Calls \union {Initial} \union Times \union InvalidTimes) = {}
ASSUME WindowPositive == TxnWriteSetsMaxSize \in Nat \ {0}

VARIABLES
  readLockCount, writeLocked, readResolveQueue, writeResolveQueue, phase,
                      \* #mutex
  inner,              \* #inner, what is durable
  copies,             \* #shadow.copies
  alarm,              \* #shadow.alarm: None (untouched), Absent (null) or a time
  scheduled,          \* the alarm the bridge holds for this object
  txnCount,           \* #txnCount
  txnWriteSets,       \* #txnWriteSets
  deletedKeySets,     \* #deletedKeySets, a key set named by the delete it is of
  deletedKeyResults,  \* #deletedKeyResults
  pendingFlushes,     \* #pendingFlushes
  flushSets,          \* the flush in progress: deletedKeySets still to delete,
  flushEntries,       \*   and the entries it took
  pc, kind,           \* every call: where it is, what it is
  deleted, deletedKeySet,            \* locals of delete()
  written,            \* what a call is going to write: the arguments of put and
                      \*   delete, the shadow copies of a transaction
  startTxnCount, readSet, txnAlarm,  \* the transaction of a call
  observed, wants,    \* what a call has read, and the keys it is still to get
  failed,             \* whether some flush has rejected
  lastAlarm           \* history: the alarm most recently set or deleted

mutexVars == <<readLockCount, writeLocked, readResolveQueue, writeResolveQueue, phase>>
storeVars == <<inner, copies, alarm, scheduled>>
txnVars   == <<txnCount, txnWriteSets>>
delVars   == <<deletedKeySets, deletedKeyResults, deleted, deletedKeySet>>
flushVars == <<flushSets, flushEntries>>
txnObject == <<startTxnCount, readSet, txnAlarm>>
readVars  == <<txnObject, observed, wants>>
vars == <<mutexVars, storeVars, txnVars, delVars, flushVars, written, readVars,
          pendingFlushes, pc, kind, failed, lastAlarm>>

Mutex == INSTANCE ReadWriteMutex WITH Clients <- Calls

AllKeys == Keys \union {AlarmKey}
Values == Calls \union {Initial}
AlarmTimes == Times \union InvalidTimes
WriteKinds == {"put", "delete", "deleteAll", "transaction", "setAlarm", "deleteAlarm"}
AllKinds == WriteKinds \union {"get", "sync"}

\* A call that has not started is of no kind.
ASSUME NoKind == None \notin AllKinds

NoEntries == [k \in AllKeys |-> None]
Nothing   == [k \in Keys |-> None]

\* What a reader of the storage sees: shadow copies over the inner storage.
View == [k \in AllKeys |-> IF copies[k] # None THEN copies[k] ELSE inner[k]]

Init ==
  /\ Mutex!MutexInit
  /\ \E present \in SUBSET Keys :
        inner = [k \in AllKeys |-> IF k \in present THEN Initial ELSE Absent]
  /\ copies = NoEntries
  /\ alarm = None
  /\ scheduled = Absent
  /\ txnCount = 0
  /\ txnWriteSets = << >>
  /\ deletedKeySets = {}
  /\ deletedKeyResults = [c \in Calls |-> None]
  /\ pendingFlushes = 0
  /\ flushSets = {}
  /\ flushEntries = NoEntries
  /\ pc = [c \in Calls |-> "idle"]
  /\ kind = [c \in Calls |-> None]
  /\ deleted = [c \in Calls |-> 0]
  /\ deletedKeySet = [c \in Calls |-> {}]
  /\ startTxnCount = [c \in Calls |-> 0]
  /\ readSet = [c \in Calls |-> {}]
  /\ observed = [c \in Calls |-> Nothing]
  /\ written = [c \in Calls |-> Nothing]
  /\ txnAlarm = [c \in Calls |-> None]
  /\ wants = [c \in Calls |-> {}]
  /\ failed = FALSE
  /\ lastAlarm = Absent

Goto(c, l) == pc' = [pc EXCEPT ![c] = l]

\* #txnRecordWriteSet: the write set gets the next number and pushes the one
\* TxnWriteSetsMaxSize before it out of the map.
txnRecordWriteSet(ws) ==
  /\ txnCount' = txnCount + 1
  /\ txnWriteSets' = [t \in (DOMAIN txnWriteSets \union {txnCount + 1})
                              \ {txnCount + 1 - TxnWriteSetsMaxSize} |->
                        IF t = txnCount + 1 THEN ws ELSE txnWriteSets[t]]

\* Mutant of Settle: every write that returns resolves the promise of sync().
SettleEager(c, l) ==
  /\ pendingFlushes' = pendingFlushes - 1
  /\ pc' = [d \in Calls |->
              CASE d = c              -> l
                [] pc[d] = "syncing"  -> "synced"
                [] OTHER              -> pc[d]]

\* The finally block of #runWrite: the last pending write resolves the
\* promise that sync() returned.
Settle(c, l) ==
  /\ pendingFlushes' = pendingFlushes - 1
  /\ pc' = [d \in Calls |->
              CASE d = c                                        -> l
                [] pendingFlushes = 1 /\ pc[d] = "syncing"      -> "synced"
                [] OTHER                                        -> pc[d]]

-----------------------------------------------------------------------------
(***************************************************************************)
(* Calls start.                                                            *)
(***************************************************************************)

\* put, delete, deleteAll, setAlarm, deleteAlarm: #runWrite up to the lock.
StartWrite(c, op, writes) ==
  /\ pc[c] = "idle"
  /\ kind' = [kind EXCEPT ![c] = op]
  /\ written' = [written EXCEPT ![c] = writes]
  /\ pendingFlushes' = pendingFlushes + 1
  /\ Mutex!writeLock(c)
  /\ Goto(c, "locked")
  /\ UNCHANGED <<storeVars, txnVars, delVars, flushVars, readVars, failed, lastAlarm>>

\* The entries of a call to put() or delete().  The limits on the number and
\* the size of keys and values throw before anything has changed.
Writing(ks, v) == [k \in Keys |-> IF k \in ks THEN v ELSE None]

StartTransaction(c) ==
  /\ pc[c] = "idle"
  /\ kind' = [kind EXCEPT ![c] = "transaction"]
  /\ pendingFlushes' = pendingFlushes + 1
  /\ Goto(c, "begin")
  /\ UNCHANGED <<mutexVars, storeVars, txnVars, delVars, flushVars, written, readVars,
                 failed, lastAlarm>>

StartGet(c, ks) ==
  /\ pc[c] = "idle"
  /\ kind' = [kind EXCEPT ![c] = "get"]
  /\ wants' = [wants EXCEPT ![c] = ks]
  /\ Mutex!readLock(c)
  /\ Goto(c, "locked")
  /\ UNCHANGED <<storeVars, txnVars, delVars, flushVars, written, txnObject, observed,
                 pendingFlushes, failed, lastAlarm>>

\* sync: the promise of the pending writes, or nothing to wait for.
Sync(c) ==
  /\ pc[c] = "idle"
  /\ kind' = [kind EXCEPT ![c] = "sync"]
  /\ Goto(c, IF pendingFlushes = 0 THEN "synced" ELSE "syncing")
  /\ UNCHANGED <<mutexVars, storeVars, txnVars, delVars, flushVars, written, readVars,
                 pendingFlushes, failed, lastAlarm>>

Start(c) ==
  \/ \E ks \in SUBSET Keys \ {{}} :
       \/ "put" \in Kinds /\ StartWrite(c, "put", Writing(ks, c))
       \/ "delete" \in Kinds /\ StartWrite(c, "delete", Writing(ks, Absent))
       \/ "get" \in Kinds /\ StartGet(c, ks)
  \/ "deleteAll" \in Kinds /\ StartWrite(c, "deleteAll", Writing(Keys, Absent))
  \/ "setAlarm" \in Kinds /\ AlarmExists /\ StartWrite(c, "setAlarm", Nothing)
  \/ "deleteAlarm" \in Kinds /\ StartWrite(c, "deleteAlarm", Nothing)
  \/ "transaction" \in Kinds /\ StartTransaction(c)
  \/ "sync" \in Kinds /\ Sync(c)

-----------------------------------------------------------------------------
(***************************************************************************)
(* The first critical section of a write: shadow copies and write set.     *)
(***************************************************************************)
writeSet(c) == {k \in Keys : written[c][k] # None}

\* The shadow copies after those of call c were put over them.
Overwritten(c) ==
  [k \in AllKeys |-> IF k \in writeSet(c) THEN written[c][k] ELSE copies[k]]

Locked(c, op) == pc[c] = "locked" /\ kind[c] = op /\ phase[c] = "writing"

PutShadow(c) ==
  /\ Locked(c, "put")
  /\ copies' = Overwritten(c)
  /\ txnRecordWriteSet(writeSet(c))
  /\ written' = [written EXCEPT ![c] = Nothing]
  /\ Mutex!finishWrite(c)
  /\ Goto(c, "yield")
  /\ UNCHANGED <<inner, alarm, scheduled, delVars, flushVars, readVars, pendingFlushes, kind,
                 failed, lastAlarm>>

\* A key with a shadow copy is known to exist or not; the others are counted
\* when the flush deletes them.
DeleteShadow(c) ==
  LET shadowed == {k \in writeSet(c) : copies[k] # None}
      unknown  == writeSet(c) \ shadowed
  IN
  /\ Locked(c, "delete")
  /\ deleted' = [deleted EXCEPT ![c] = Cardinality({k \in shadowed : copies[k] # Absent})]
  /\ deletedKeySet' = [deletedKeySet EXCEPT ![c] = unknown]
  /\ deletedKeySets' = deletedKeySets \union {d \in {c} : unknown # {}}
  /\ copies' = Overwritten(c)
  /\ txnRecordWriteSet(writeSet(c))
  /\ written' = [written EXCEPT ![c] = Nothing]
  /\ Mutex!finishWrite(c)
  /\ Goto(c, "yield")
  /\ UNCHANGED <<inner, alarm, scheduled, deletedKeyResults, flushVars, readVars,
                 pendingFlushes, kind, failed, lastAlarm>>

\* deleteAll marks every key that list() returns, the alarm's key included,
\* and flushes without giving the lock up.
DeleteAllShadow(c) ==
  LET names == {k \in AllKeys : View[k] # Absent}
  IN
  /\ Locked(c, "deleteAll")
  /\ copies' = [k \in AllKeys |-> IF k \in names THEN Absent ELSE copies[k]]
  /\ txnRecordWriteSet(names)
  /\ written' = [written EXCEPT ![c] = Nothing]
  /\ lastAlarm' = Absent
  /\ Goto(c, "flush")
  /\ UNCHANGED <<mutexVars, inner, alarm, scheduled, delVars, flushVars, readVars,
                 pendingFlushes, kind, failed>>

\* setAlarm and deleteAlarm change the shadow alarm, await that, and then
\* record the write set, all with the write lock held.
AlarmShadow(c) ==
  /\ \/ Locked(c, "setAlarm") /\ alarm' \in AlarmTimes
     \/ Locked(c, "deleteAlarm") /\ alarm' = Absent
  /\ lastAlarm' = alarm'
  /\ Goto(c, "alarmSet")
  /\ UNCHANGED <<mutexVars, inner, copies, scheduled, txnVars, delVars, flushVars, written,
                 readVars, pendingFlushes, kind, failed>>

AlarmRecord(c) ==
  /\ pc[c] = "alarmSet"
  /\ txnRecordWriteSet({AlarmKey})
  /\ Mutex!finishWrite(c)
  /\ Goto(c, "yield")
  /\ UNCHANGED <<storeVars, delVars, flushVars, written, readVars, pendingFlushes, kind,
                 failed, lastAlarm>>

\* After "await Promise.resolve()" the call asks for the lock again, to flush.
Relock(c) ==
  /\ pc[c] = "yield"
  /\ Mutex!writeLock(c)
  /\ Goto(c, "flush")
  /\ UNCHANGED <<storeVars, txnVars, delVars, flushVars, written, readVars, pendingFlushes,
                 kind, failed, lastAlarm>>

-----------------------------------------------------------------------------
(***************************************************************************)
(* Transactions and reads.                                                 *)
(***************************************************************************)

\* #txnRead: every attempt starts with a fresh transaction object.
BeginTransaction(c) ==
  /\ pc[c] = "begin"
  /\ startTxnCount' = [startTxnCount EXCEPT ![c] = txnCount]
  /\ Goto(c, "closure")
  /\ UNCHANGED <<mutexVars, storeVars, txnVars, delVars, flushVars, written, readSet, txnAlarm,
                 observed, wants, pendingFlushes, kind, failed, lastAlarm>>

\* The transaction object and what was read through it are garbage.
DropTransaction(c) ==
  /\ startTxnCount' = [startTxnCount EXCEPT ![c] = 0]
  /\ readSet' = [readSet EXCEPT ![c] = {}]
  /\ txnAlarm' = [txnAlarm EXCEPT ![c] = None]
  /\ observed' = [observed EXCEPT ![c] = Nothing]
  /\ written' = [written EXCEPT ![c] = Nothing]
  /\ UNCHANGED wants

\* ShadowStorage.getMany on the storage's shadow: keys with a shadow copy are
\* read at once, the others are left to the inner storage.
ReadShadow(c, ks) ==
  LET shadowed == {k \in ks : copies[k] # None}
  IN
  /\ observed' = [observed EXCEPT ![c] =
                    [k \in Keys |-> IF k \in shadowed THEN copies[k] ELSE observed[c][k]]]
  /\ wants' = [wants EXCEPT ![c] = ks \ shadowed]
  /\ Goto(c, IF ks \subseteq shadowed THEN "closure" ELSE "innerRead")

InClosure(c) == pc[c] = "closure" /\ kind[c] = "transaction"

\* txn.get(ks), and the read that txn.delete starts with: all of ks join the
\* read set.  A key is read once: a second read that saw something else could
\* not commit.
TxnGet(c, ks) ==
  /\ InClosure(c)
  /\ ks \intersect readSet[c] = {}
  /\ readSet' = [readSet EXCEPT ![c] = @ \union ks]
  /\ ReadShadow(c, ks)
  /\ UNCHANGED <<mutexVars, storeVars, txnVars, delVars, flushVars, written, startTxnCount,
                 txnAlarm, pendingFlushes, kind, failed, lastAlarm>>

\* storage.get(ks), with the read lock.
Get(c) ==
  /\ pc[c] = "locked" /\ kind[c] = "get" /\ phase[c] = "reading"
  /\ ReadShadow(c, wants[c])
  /\ UNCHANGED <<mutexVars, storeVars, txnVars, delVars, flushVars, written, txnObject,
                 pendingFlushes, kind, failed, lastAlarm>>

\* The inner storage answers for one of the keys.
ReadInner(c, k) ==
  /\ pc[c] = "innerRead" /\ k \in wants[c]
  /\ observed' = [observed EXCEPT ![c][k] = inner[k]]
  /\ wants' = [wants EXCEPT ![c] = @ \ {k}]
  /\ Goto(c, IF wants[c] = {k} THEN "closure" ELSE "innerRead")
  /\ UNCHANGED <<mutexVars, storeVars, txnVars, delVars, flushVars, written, txnObject,
                 pendingFlushes, kind, failed, lastAlarm>>

GetReturns(c) ==
  /\ pc[c] = "closure" /\ kind[c] = "get"
  /\ observed' = [observed EXCEPT ![c] = Nothing]
  /\ Mutex!finishRead(c)
  /\ Goto(c, "done")
  /\ UNCHANGED <<storeVars, txnVars, delVars, flushVars, written, txnObject, wants,
                 pendingFlushes, kind, failed, lastAlarm>>

\* txn.getAlarm: the alarm's key joins the read set.
TxnGetAlarm(c) ==
  /\ InClosure(c) /\ AlarmExists
  /\ readSet' = [readSet EXCEPT ![c] = @ \union {AlarmKey}]
  /\ UNCHANGED <<mutexVars, storeVars, txnVars, delVars, flushVars, written, startTxnCount,
                 txnAlarm, observed, wants, pendingFlushes, pc, kind, failed, lastAlarm>>

\* The closure rolled back or threw: nothing is committed.
Rollback(c) ==
  /\ InClosure(c)
  /\ DropTransaction(c)
  /\ Settle(c, "rolledBack")
  /\ UNCHANGED <<mutexVars, storeVars, txnVars, delVars, flushVars, kind, failed, lastAlarm>>

\* What a transaction can have written: puts, and deletes of keys it read.
TxnWrites(c) ==
  {w \in [Keys -> {None, Absent, c}] : \A k \in Keys : w[k] = Absent => k \in readSet[c]}

\* What it can have done to its alarm: setAlarm needs an alarm() handler.
TxnAlarms ==
  {None} \union {t \in {Absent} : "deleteAlarm" \in Kinds}
         \union {t \in AlarmTimes : "setAlarm" \in Kinds /\ AlarmExists}

\* The closure returned.  Its writes went to shadow copies of its own that
\* nobody else can see, so they are all made here.
FinishClosure(c) ==
  /\ InClosure(c)
  /\ \E w \in TxnWrites(c) : written' = [written EXCEPT ![c] = w]
  /\ \E t \in TxnAlarms : txnAlarm' = [txnAlarm EXCEPT ![c] = t]
  /\ Mutex!writeLock(c)
  /\ Goto(c, "validate")
  /\ UNCHANGED <<storeVars, txnVars, delVars, flushVars, startTxnCount, readSet, observed,
                 wants, pendingFlushes, kind, failed, lastAlarm>>

\* Mutant of Conflicts: the first commit after the start is not looked at.
ConflictsOffByOne(c) ==
  \E t \in startTxnCount[c] + 2 .. txnCount :
    t \in DOMAIN txnWriteSets => txnWriteSets[t] \intersect readSet[c] # {}

\* #txnValidateWrite, phase 2: some transaction that committed since the start
\* wrote what this one read, or its write set is no longer known.
Conflicts(c) ==
  \E t \in startTxnCount[c] + 1 .. txnCount :
    t \in DOMAIN txnWriteSets => txnWriteSets[t] \intersect readSet[c] # {}

Validating(c) == pc[c] = "validate" /\ phase[c] = "writing"

Retry(c) ==
  /\ Validating(c) /\ Conflicts(c)
  /\ DropTransaction(c)
  /\ Mutex!finishWrite(c)
  /\ Goto(c, "begin")
  /\ UNCHANGED <<storeVars, txnVars, delVars, flushVars, pendingFlushes, kind, failed,
                 lastAlarm>>

\* Phase 3: the copies and the alarm of the transaction, touched or not,
\* replace those of the storage; the flush follows under the same lock.
Commit(c) ==
  /\ Validating(c) /\ ~Conflicts(c)
  /\ txnRecordWriteSet(writeSet(c))
  /\ copies' = Overwritten(c)
  /\ alarm' = txnAlarm[c]
  /\ lastAlarm' = IF txnAlarm[c] = None THEN lastAlarm ELSE txnAlarm[c]
  /\ DropTransaction(c)
  /\ Goto(c, "flush")
  /\ UNCHANGED <<mutexVars, inner, scheduled, delVars, flushVars, pendingFlushes, kind, failed>>

-----------------------------------------------------------------------------
(***************************************************************************)
(* The flush, with the write lock held from its start to its end.          *)
(***************************************************************************)
Flushing(c, l) == pc[c] = l /\ phase[c] = "writing"

\* The call returns once its flush has: the lock and the pending flush are
\* given back, and a delete adds up its reply.  Without a result for its key
\* set the assertion in delete() throws.
FinishFlush(c) ==
  LET mine   == kind[c] = "delete" /\ deletedKeySet[c] # {}
      result == deletedKeyResults[c]
  IN
  /\ Mutex!finishWrite(c)
  /\ deletedKeyResults' = [deletedKeyResults EXCEPT ![c] = None]
  /\ \/ /\ mine /\ result # None
        /\ deleted' = [deleted EXCEPT ![c] = @ + result]
        /\ deletedKeySet' = [deletedKeySet EXCEPT ![c] = {}]
        /\ Settle(c, "done")
     \/ /\ mine /\ result = None
        /\ Settle(c, "rejected")
        /\ UNCHANGED <<deleted, deletedKeySet>>
     \/ /\ ~mine
        /\ Settle(c, "done")
        /\ UNCHANGED <<deleted, deletedKeySet>>

\* Mutant of FlushStart: nothing to do if there are no key sets to delete.
FlushStartSkips(c) ==
  /\ Flushing(c, "flush") /\ alarm \notin InvalidTimes
  /\ inner' = [inner EXCEPT ![AlarmKey] = IF alarm = None THEN @ ELSE alarm]
  /\ scheduled' = IF alarm = None THEN scheduled ELSE alarm
  /\ alarm' = None
  /\ \/ /\ deletedKeySets = {}
        /\ FinishFlush(c)
        /\ UNCHANGED <<deletedKeySets, flushVars>>
     \/ /\ deletedKeySets # {}
        /\ flushSets' = deletedKeySets
        /\ deletedKeySets' = {}
        /\ flushEntries' = copies
        /\ Goto(c, "flushing")
        /\ UNCHANGED <<mutexVars, pendingFlushes, deletedKeyResults, deleted, deletedKeySet>>
  /\ UNCHANGED <<copies, txnVars, written, readVars, kind, failed, lastAlarm>>

\* Mutant of FlushStart: the copies are cleared when they are taken, not when
\* they are durable.
FlushStartClears(c) ==
  /\ Flushing(c, "flush") /\ alarm \notin InvalidTimes
  /\ inner' = [inner EXCEPT ![AlarmKey] = IF alarm = None THEN @ ELSE alarm]
  /\ scheduled' = IF alarm = None THEN scheduled ELSE alarm
  /\ alarm' = None
  /\ \/ /\ copies = NoEntries
        /\ FinishFlush(c)
        /\ UNCHANGED <<deletedKeySets, flushVars>>
     \/ /\ copies # NoEntries
        /\ flushSets' = deletedKeySets
        /\ deletedKeySets' = {}
        /\ flushEntries' = copies
        /\ Goto(c, "flushing")
        /\ UNCHANGED <<mutexVars, pendingFlushes, deletedKeyResults, deleted, deletedKeySet>>
  /\ copies' = NoEntries
  /\ UNCHANGED <<txnVars, written, readVars, kind, failed, lastAlarm>>

\* The alarm goes first, to the inner storage and to the bridge, in one step
\* because nobody reads between these awaits: the write lock is held.  Then the
\* flush takes the key sets and the entries there are; if there are none,
\* another call has flushed them already.
FlushStart(c) ==
  /\ Flushing(c, "flush") /\ alarm \notin InvalidTimes
  /\ inner' = [inner EXCEPT ![AlarmKey] = IF alarm = None THEN @ ELSE alarm]
  /\ scheduled' = IF alarm = None THEN scheduled ELSE alarm
  /\ alarm' = None
  /\ \/ /\ copies = NoEntries
        /\ FinishFlush(c)
        /\ UNCHANGED <<deletedKeySets, flushVars>>
     \/ /\ copies # NoEntries
        /\ flushSets' = deletedKeySets
        /\ deletedKeySets' = {}
        /\ flushEntries' = copies
        /\ Goto(c, "flushing")
        /\ UNCHANGED <<mutexVars, pendingFlushes, deletedKeyResults, deleted, deletedKeySet>>
  /\ UNCHANGED <<copies, txnVars, written, readVars, kind, failed, lastAlarm>>

\* inner.deleteMany of one key set: its result is the reply of the delete the
\* set belongs to.  (The sets are disjoint; their order is left open.)
FlushDelete(c, d) ==
  /\ Flushing(c, "flushing") /\ d \in flushSets
  /\ deletedKeyResults' = [deletedKeyResults EXCEPT ![d] =
                             Cardinality({k \in deletedKeySet[d] : inner[k] # Absent})]
  /\ inner' = [k \in AllKeys |-> IF k \in deletedKeySet[d] THEN Absent ELSE inner[k]]
  /\ flushSets' = flushSets \ {d}
  /\ UNCHANGED <<mutexVars, copies, alarm, scheduled, txnVars, deletedKeySets, deleted,
                 deletedKeySet, flushEntries, written, readVars, pendingFlushes, pc, kind,
                 failed, lastAlarm>>

putEntries == {k \in AllKeys : flushEntries[k] \notin {None, Absent}}
deleteKeys == {k \in AllKeys : flushEntries[k] = Absent}

\* Mutant of FlushPut: does not wait for the key sets to be deleted.
FlushPutFirst(c) ==
  /\ Flushing(c, "flushing")
  /\ inner' = [k \in AllKeys |-> IF k \in putEntries THEN flushEntries[k] ELSE inner[k]]
  /\ Goto(c, "flushRest")
  /\ UNCHANGED <<mutexVars, copies, alarm, scheduled, txnVars, delVars, flushVars, written,
                 readVars, pendingFlushes, kind, failed, lastAlarm>>

\* inner.putMany
FlushPut(c) ==
  /\ Flushing(c, "flushing") /\ flushSets = {}
  /\ inner' = [k \in AllKeys |-> IF k \in putEntries THEN flushEntries[k] ELSE inner[k]]
  /\ Goto(c, "flushRest")
  /\ UNCHANGED <<mutexVars, copies, alarm, scheduled, txnVars, delVars, flushVars, written, readVars,
                 pendingFlushes, kind, failed, lastAlarm>>

\* inner.deleteMany of the other deleted keys (those of the key sets are gone
\* already), after which the entries that did not change are durable.
FlushEnd(c) ==
  /\ Flushing(c, "flushRest")
  /\ inner' = [k \in AllKeys |-> IF k \in deleteKeys THEN Absent ELSE inner[k]]
  /\ copies' = [k \in AllKeys |-> IF copies[k] = flushEntries[k] THEN None ELSE copies[k]]
  /\ flushEntries' = NoEntries
  /\ FinishFlush(c)
  /\ UNCHANGED <<alarm, scheduled, txnVars, deletedKeySets, flushSets, written, readVars, kind,
                 failed, lastAlarm>>

\* A write to the inner storage or the bridge rejects, and with it the flush:
\* its key sets and entries are dropped with the stack frame, the shadow
\* copies and the alarm stay.  putMany and deleteMany may have done any part
\* of their work, and the bridge may reject after the alarm was written.
FlushRejects(c) ==
  /\ \/ /\ Flushing(c, "flush") /\ alarm \in InvalidTimes
        /\ inner' = [inner EXCEPT ![AlarmKey] = alarm]
     \/ /\ Flushing(c, "flush") /\ alarm \in Times \union {Absent} /\ InnerMayFail
        /\ inner' \in {inner, [inner EXCEPT ![AlarmKey] = alarm]}
     \/ /\ Flushing(c, "flushing") /\ InnerMayFail
        /\ \E d \in flushSets : \E part \in SUBSET deletedKeySet[d] :
              inner' = [k \in AllKeys |-> IF k \in part THEN Absent ELSE inner[k]]
     \/ /\ Flushing(c, "flushing") /\ InnerMayFail /\ flushSets = {} /\ putEntries # {}
        /\ \E part \in SUBSET putEntries :
              inner' = [k \in AllKeys |-> IF k \in part THEN flushEntries[k] ELSE inner[k]]
     \/ /\ Flushing(c, "flushRest") /\ InnerMayFail /\ deleteKeys # {}
        /\ \E part \in SUBSET deleteKeys :
              inner' = [k \in AllKeys |-> IF k \in part THEN Absent ELSE inner[k]]
  /\ flushSets' = {}
  /\ flushEntries' = NoEntries
  /\ failed' = TRUE
  /\ Mutex!finishWrite(c)
  /\ Settle(c, "rejected")
  /\ UNCHANGED <<copies, alarm, scheduled, txnVars, delVars, written, readVars, kind, lastAlarm>>

-----------------------------------------------------------------------------
\* What the user's closure does next is up to the closure.
Closure(c) ==
  \/ \E ks \in SUBSET Keys \ {{}} : TxnGet(c, ks)
  \/ TxnGetAlarm(c)
  \/ Rollback(c)
  \/ FinishClosure(c)

\* What a started call does next is up to the storage.
Proceed(c) ==
  \/ PutShadow(c) \/ DeleteShadow(c) \/ DeleteAllShadow(c)
  \/ AlarmShadow(c) \/ AlarmRecord(c) \/ Relock(c)
  \/ BeginTransaction(c) \/ Retry(c) \/ Commit(c)
  \/ Get(c) \/ GetReturns(c)
  \/ \E k \in Keys : ReadInner(c, k)
  \/ FlushStart(c) \/ FlushPut(c) \/ FlushEnd(c) \/ FlushRejects(c)
  \/ \E d \in Calls : FlushDelete(c, d)

Next == \E c \in Calls : Start(c) \/ Closure(c) \/ Proceed(c)

\* Promises of the inner storage settle, and closures return.
Fairness ==
  \A c \in Calls : WF_vars(Proceed(c)) /\ WF_vars(Rollback(c) \/ FinishClosure(c))

Spec == Init /\ [][Next]_vars
FairSpec == Spec /\ Fairness

-----------------------------------------------------------------------------
(***************************************************************************)
(* Properties.                                                             *)
(***************************************************************************)
AppliedLocs  == {"yield", "flush", "flushing", "flushRest", "done", "rejected"}
ReturnedLocs == {"done", "rejected", "rolledBack", "synced"}
Locs == AppliedLocs \union ReturnedLocs \union
        {"idle", "locked", "alarmSet", "begin", "closure", "innerRead", "validate", "syncing"}

Stored == Values \union {Absent}

\* Type correctness.
TypeOK ==
  /\ Mutex!MutexTypeOK
  /\ inner \in [AllKeys -> Stored \union AlarmTimes] /\ \A k \in Keys : inner[k] \in Stored
  /\ copies \in [AllKeys -> Stored \union {None}]
  /\ inner[AlarmKey] \in AlarmTimes \union {Absent} /\ copies[AlarmKey] \in {Absent, None}
  /\ alarm \in AlarmTimes \union {Absent, None}
  /\ scheduled \in Times \union {Absent}
  /\ txnCount \in Nat
  /\ DOMAIN txnWriteSets \subseteq 1..txnCount
  /\ \A t \in DOMAIN txnWriteSets : txnWriteSets[t] \subseteq AllKeys
  /\ deletedKeySets \subseteq Calls /\ flushSets \subseteq Calls
  /\ deletedKeyResults \in [Calls -> Nat \union {None}]
  /\ pendingFlushes \in Nat
  /\ flushEntries \in [AllKeys -> Stored \union {None}]
  /\ pc \in [Calls -> Locs]
  /\ kind \in [Calls -> AllKinds \union {None}]
  /\ deleted \in [Calls -> Nat]
  /\ deletedKeySet \in [Calls -> SUBSET Keys]
  /\ startTxnCount \in [Calls -> Nat]
  /\ readSet \in [Calls -> SUBSET AllKeys]
  /\ observed \in [Calls -> [Keys -> Stored \union {None}]]
  /\ written \in [Calls -> [Keys -> Stored \union {None}]]
  /\ txnAlarm \in [Calls -> AlarmTimes \union {Absent, None}]
  /\ wants \in [Calls -> SUBSET Keys]
  /\ failed \in BOOLEAN
  /\ lastAlarm \in AlarmTimes \union {Absent}

\* The number a delete replies with, as far as it is decided: known at once
\* for keys with a shadow copy, for the others what the flush will count.
Reply(c) ==
  IF kind[c] # "delete" \/ pc[c] \notin AppliedLocs THEN None
  ELSE IF deletedKeySet[c] = {} THEN deleted[c]
  ELSE CASE c \in deletedKeySets \union flushSets ->
              deleted[c] + Cardinality({k \in deletedKeySet[c] : inner[k] # Absent})
         [] c \notin deletedKeySets \union flushSets /\ deletedKeyResults[c] # None ->
              deleted[c] + deletedKeyResults[c]
         [] OTHER -> Lost

Serial == INSTANCE SerialStore WITH
  store    <- [k \in Keys |-> View[k]],
  applied  <- {c \in Calls : pc[c] \in AppliedLocs},
  reply    <- [c \in Calls |-> Reply(c)]

\* Every call takes effect in one step, however calls, flushes, retries and
\* failing writes interleave: no lost update, no dirty or torn read, deletes
\* count what was there when they took effect, and neither a flush nor its
\* failure changes what readers see.
Serializable == Serial!Spec

\* storage.ts asks (TODO in flush) whether the shadow copies can change
\* while a flush is in progress: they cannot.
CopiesStableDuringFlush ==
  (\E c \in Calls : pc[c] \in {"flushing", "flushRest"}) => copies = flushEntries

\* The assertions of flush() and delete(): as long as the inner storage and
\* the bridge work, no delete misses the result of its key set, and key sets
\* never outlive their shadow copies.
AssertionsHold ==
  /\ copies = NoEntries => deletedKeySets = {}
  /\ ~failed => \A c \in Calls : pc[c] # "rejected" /\ Reply(c) # Lost

\* A write whose promise has resolved is not only in memory: the shadow
\* copies no longer hold it.  That what left them is in the inner storage, if
\* no later write of the key replaced it, is Serializable, whose reads go
\* through the copies to the inner storage.
ReturnedWriteIsDurable ==
  \A c \in Calls : pc[c] = "done" => \A k \in Keys : copies[k] # c

\* When the promise of sync() resolves, every write that was started before
\* has returned and, unless one failed, is in the inner storage.
SyncIsDurable ==
  [][\A s \in Calls : pc[s] = "syncing" /\ pc'[s] = "synced" =>
       /\ \A c \in Calls : kind[c] \in WriteKinds => pc'[c] \in ReturnedLocs
       /\ ~failed' => copies' = NoEntries /\ alarm' = None]_vars

\* Every call returns: no lost wake-up of the lock, no transaction that is
\* retried for ever once the others are done.
CallsReturn ==
  \A c \in Calls : pc[c] # "idle" ~> pc[c] \in ReturnedLocs

\* An alarm that was set is in the inner storage when no write is pending.
AlarmIsDurable ==
  pendingFlushes = 0 /\ ~failed => inner[AlarmKey] = lastAlarm
=============================================================================
