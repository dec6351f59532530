---------------------- MODULE DurableObjectStorageProofs ----------------------
(***************************************************************************)
(* Proofs about the storage of a Durable Object, for any number of calls   *)
(* and keys, whatever the window of write sets and whether the inner       *)
(* storage fails: the lock keeps flushes and critical sections apart, the  *)
(* write sets tell transactions of what they missed, and so every call     *)
(* takes effect in one step (SerialStore).                                 *)
(***************************************************************************)
EXTENDS DurableObjectStorage, FiniteSetTheorems, TLAPS

Lock == INSTANCE ReadWriteMutexProofs WITH Clients <- Calls

-----------------------------------------------------------------------------
(***************************************************************************)
(* The inductive invariant.                                                *)
(***************************************************************************)
SimpleKinds == WriteKinds \ {"transaction"}
ForWriting == {"writeQueued", "writing"}

\* Where a call of kind k can be, and what it has of the lock there.
Placed(l, k, p) ==
  \/ l = "idle" /\ k = None /\ p = "idle"
  \/ l = "locked" /\ k \in SimpleKinds /\ p \in ForWriting
  \/ l = "locked" /\ k = "get" /\ p \in {"readQueued", "reading"}
  \/ l = "alarmSet" /\ k \in {"setAlarm", "deleteAlarm"} /\ p = "writing"
  \/ l = "yield" /\ k \in SimpleKinds /\ p = "idle"
  \/ l = "flush" /\ k \in WriteKinds /\ p \in ForWriting
  \/ l \in {"flushing", "flushRest"} /\ k \in WriteKinds /\ p = "writing"
  \/ l \in {"done", "rejected"} /\ k \in WriteKinds /\ p = "idle"
  \/ l = "done" /\ k = "get" /\ p = "idle"
  \/ l \in {"begin", "rolledBack"} /\ k = "transaction" /\ p = "idle"
  \/ l \in {"closure", "innerRead"} /\ k = "transaction" /\ p = "idle"
  \/ l \in {"closure", "innerRead"} /\ k = "get" /\ p = "reading"
  \/ l = "validate" /\ k = "transaction" /\ p \in ForWriting
  \/ l \in {"syncing", "synced"} /\ k = "sync" /\ p = "idle"

CallsPlaced == \A c \in Calls : Placed(pc[c], kind[c], phase[c])

InFlush(c) == pc[c] \in {"flushing", "flushRest"}
Pending == {c \in Calls : kind[c] \in WriteKinds /\ pc[c] \notin ReturnedLocs}
KeySets == deletedKeySets \union flushSets

\* #pendingFlushes counts the writes that have not returned.
PendingCounted == pendingFlushes = Cardinality(Pending)

\* A flush has taken all there is to flush; nobody adds to it.
FlushMatches ==
  /\ \A c \in Calls :
       InFlush(c) => copies = flushEntries /\ copies # NoEntries /\ alarm = None /\ deletedKeySets = {}
  /\ (\A c \in Calls : ~ InFlush(c)) => flushSets = {} /\ flushEntries = NoEntries
  /\ \A c \in Calls : pc[c] = "flushRest" =>
       /\ flushSets = {}
       /\ \A k \in AllKeys : flushEntries[k] \notin {None, Absent} => inner[k] = flushEntries[k]

\* What has been written is flushed by somebody, unless a flush failed.
ToFlush == {"alarmSet", "yield", "flush", "flushing", "flushRest"}
FlushesToCome ==
  ~ failed /\ (copies # NoEntries \/ alarm # None) => \E c \in Calls : pc[c] \in ToFlush

\* Calls that are going to write, and calls whose writes are shadow copies.
WritesMatch ==
  /\ \A c \in Calls : \A k \in Keys : written[c][k] \in {None, Absent, c}
  /\ \A c \in Calls : written[c] # Nothing =>
       \/ pc[c] = "locked" /\ kind[c] \in {"put", "delete", "deleteAll"}
       \/ pc[c] = "validate"
  /\ \A c \in Calls : pc[c] = "locked" /\ kind[c] \in {"delete", "deleteAll"} =>
       \A k \in Keys : written[c][k] = Absent \/ (kind[c] = "delete" /\ written[c][k] = None)
  /\ \A k \in Keys : copies[k] \in Calls => pc[copies[k]] \in AppliedLocs \ {"done"}

\* Deletes whose keys are still to be counted.
DeletesMatch ==
  /\ \A c \in Calls :
       deletedKeySet[c] # {} \/ deletedKeyResults[c] # None \/ c \in KeySets =>
         kind[c] = "delete" /\ pc[c] \in AppliedLocs \ {"done"}
  /\ \A c \in KeySets :
       /\ deletedKeySet[c] # {} /\ deletedKeyResults[c] = None
       /\ \A k \in deletedKeySet[c] : copies[k] # None
  /\ \A c, d \in KeySets : c # d => deletedKeySet[c] \intersect deletedKeySet[d] = {}

\* Key sets have shadow copies; no delete is without its key set or its result.
NoneMissed ==
  /\ copies = NoEntries => deletedKeySets = {}
  /\ ~ failed => \A c \in Calls :
       /\ pc[c] # "rejected"
       /\ deletedKeySet[c] # {} => c \in KeySets \/ deletedKeyResults[c] # None

\* Transaction c will find that it read key k too early.
Noticed(c, k) ==
  /\ kind[c] = "transaction" /\ k \in readSet[c]
  /\ \E t \in startTxnCount[c] + 1 .. txnCount : t \in DOMAIN txnWriteSets => k \in txnWriteSets[t]

\* What a call has read is what is there, or will be noticed; what it is
\* about to read from the inner storage has no shadow copy, or will be.
ReadRight(c) ==
  /\ startTxnCount[c] <= txnCount
  /\ observed[c] # Nothing => pc[c] \in {"closure", "innerRead", "validate"}
  /\ \A k \in Keys : observed[c][k] # None =>
       /\ observed[c][k] = View[k] \/ Noticed(c, k)
       /\ kind[c] = "transaction" => k \in readSet[c]
  /\ pc[c] = "innerRead" => \A k \in wants[c] :
       /\ copies[k] = None \/ Noticed(c, k)
       /\ kind[c] = "transaction" => k \in readSet[c]

ReadsMatch == \A c \in Calls : ReadRight(c)

IInv ==
  /\ TypeOK /\ Lock!IInv
  /\ CallsPlaced /\ PendingCounted
  /\ FlushMatches /\ FlushesToCome
  /\ WritesMatch /\ DeletesMatch /\ NoneMissed
  /\ ReadsMatch

-----------------------------------------------------------------------------
(***************************************************************************)
(* The lock.                                                               *)
(***************************************************************************)

\* There are finitely many calls, for the lock's theorems too.
LEMMA FiniteCalls == Lock!IsFiniteSet(Calls)
BY CallsFinite, Zenon DEF IsFiniteSet, Lock!IsFiniteSet

\* What a queued call may get, while the others run.
Granted(p, q) ==
  \/ q = p
  \/ p = "readQueued" /\ q = "reading"
  \/ p = "writeQueued" /\ q = "writing"

\* A call that gives the lock up hands it to calls that wait for it.
LEMMA UnlockGrants ==
  ASSUME Lock!IInv, NEW c \in Calls, phase[c] \in {"reading", "writing"}, NEW count, Lock!unlock(c, count)
  PROVE  phase'[c] = "idle" /\ \A d \in Calls \ {c} : Granted(phase[d], phase'[d])
<1>1. phase \in [Calls -> Lock!Phases] /\ readResolveQueue = Lock!In("readQueued")
  BY DEF Lock!IInv, Lock!MutexTypeOK, Lock!Bookkeeping
<1>2. writeResolveQueue # << >> => Head(writeResolveQueue) \in Lock!In("writeQueued")
  BY Lock!QueueHoldsWriters, FiniteCalls DEF Lock!IInv
<1>3. \A s : Lock!In(s) = {d \in Calls : phase[d] = s}
  BY DEF Lock!In
<1> QED
  BY <1>1, <1>2, <1>3 DEF Lock!unlock, Granted

\* Taking the lock, waiting for it and giving it up.
LEMMA LockMoves ==
  ASSUME Lock!IInv, NEW c \in Calls,
         Mutex!readLock(c) \/ Mutex!writeLock(c) \/ Mutex!finishRead(c) \/ Mutex!finishWrite(c)
  PROVE  /\ Lock!IInv'
         /\ Mutex!readLock(c) => phase[c] = "idle" /\ phase'[c] \in {"readQueued", "reading"}
         /\ Mutex!writeLock(c) => phase[c] = "idle" /\ phase'[c] \in ForWriting
         /\ Mutex!finishRead(c) => phase[c] = "reading" /\ phase'[c] = "idle"
         /\ Mutex!finishWrite(c) => phase[c] = "writing" /\ phase'[c] = "idle"
         /\ \A d \in Calls \ {c} : Granted(phase[d], phase'[d])
<1>1. /\ Mutex!readLock(c) => Lock!readLock(c)
      /\ Mutex!writeLock(c) => Lock!writeLock(c)
  BY DEF Mutex!readLock, Lock!readLock, Mutex!writeLock, Lock!writeLock
<1>2. \A count : Mutex!unlock(c, count) => Lock!unlock(c, count)
  <2>1. Mutex!Cardinality(readResolveQueue) = Lock!Cardinality(readResolveQueue)
    BY Zenon DEF Mutex!Cardinality, Lock!Cardinality
  <2> QED
    BY <2>1, Zenon DEF Mutex!unlock, Lock!unlock
<1>3. /\ Mutex!finishRead(c) => Lock!finishRead(c)
      /\ Mutex!finishWrite(c) => Lock!finishWrite(c)
  BY <1>2 DEF Mutex!finishRead, Lock!finishRead, Mutex!finishWrite, Lock!finishWrite
<1>4. Lock!MutexNext
  BY <1>1, <1>3 DEF Lock!MutexNext
<1>5. Lock!IInv'
  BY <1>4, Lock!StepInvariant, FiniteCalls
<1>6. phase \in [Calls -> Lock!Phases]
  BY DEF Lock!IInv, Lock!MutexTypeOK
<1>7. ASSUME Mutex!readLock(c) \/ Mutex!writeLock(c)
      PROVE  /\ Mutex!readLock(c) => phase[c] = "idle" /\ phase'[c] \in {"readQueued", "reading"}
             /\ Mutex!writeLock(c) => phase[c] = "idle" /\ phase'[c] \in ForWriting
             /\ \A d \in Calls \ {c} : Granted(phase[d], phase'[d])
  BY <1>6, <1>7 DEF Mutex!readLock, Mutex!writeLock, Granted, ForWriting
<1>8. ASSUME Mutex!finishRead(c) \/ Mutex!finishWrite(c)
      PROVE  /\ Mutex!finishRead(c) => phase[c] = "reading" /\ phase'[c] = "idle"
             /\ Mutex!finishWrite(c) => phase[c] = "writing" /\ phase'[c] = "idle"
             /\ \A d \in Calls \ {c} : Granted(phase[d], phase'[d])
  <2>1. phase[c] \in {"reading", "writing"} /\ \E count : Lock!unlock(c, count)
    BY <1>3, <1>8 DEF Lock!finishRead, Lock!finishWrite
  <2>2. phase'[c] = "idle" /\ \A d \in Calls \ {c} : Granted(phase[d], phase'[d])
    BY <2>1, UnlockGrants
  <2> QED
    BY <1>8, <2>2 DEF Mutex!finishRead, Mutex!finishWrite
<1>9. /\ ~ (Mutex!readLock(c) /\ Mutex!finishRead(c)) /\ ~ (Mutex!readLock(c) /\ Mutex!finishWrite(c))
      /\ ~ (Mutex!writeLock(c) /\ Mutex!finishRead(c)) /\ ~ (Mutex!writeLock(c) /\ Mutex!finishWrite(c))
  BY DEF Mutex!readLock, Mutex!writeLock, Mutex!finishRead, Mutex!finishWrite
<1> QED
  BY <1>5, <1>7, <1>8, <1>9

\* The lock as long as nobody uses it.
LEMMA LockRests ==
  ASSUME Lock!IInv, UNCHANGED mutexVars
  PROVE  Lock!IInv' /\ \A d \in Calls : phase'[d] = phase[d]
<1>1. Lock!IInv'
  BY Lock!StepInvariant, FiniteCalls DEF Lock!mutexVars, mutexVars
<1> QED
  BY <1>1 DEF mutexVars

\* Whoever writes is alone.
LEMMA WriterAlone ==
  ASSUME Lock!IInv, NEW c \in Calls, phase[c] = "writing", NEW d \in Calls, phase[d] \in {"reading", "writing"}
  PROVE  d = c
BY DEF Lock!IInv, Lock!Exclusion

\* The types of the lock are those of the storage's TypeOK.
LEMMA LockTypes == Lock!IInv => Mutex!MutexTypeOK
BY DEF Lock!IInv, Lock!MutexTypeOK, Mutex!MutexTypeOK, Lock!Phases, Mutex!Phases

-----------------------------------------------------------------------------
(***************************************************************************)
(* What a step of one call leaves alone.                                   *)
(***************************************************************************)
Step(c) == Start(c) \/ Closure(c) \/ Proceed(c)

\* What a call has of its own.
CallTypes ==
  /\ pc \in [Calls -> Locs]
  /\ kind \in [Calls -> AllKinds \union {None}]
  /\ deleted \in [Calls -> Nat]
  /\ deletedKeySet \in [Calls -> SUBSET Keys]
  /\ startTxnCount \in [Calls -> Nat]
  /\ readSet \in [Calls -> SUBSET AllKeys]
  /\ observed \in [Calls -> [Keys -> Stored \union {None}]]
  /\ written \in [Calls -> [Keys -> Stored \union {None}]]
  /\ txnAlarm \in [Calls -> AlarmTimes \union {Absent, None}]
  /\ wants \in [Calls -> SUBSET Keys]

\* Call d is as it was: it is some other call's turn.
Rests(d) ==
  /\ kind'[d] = kind[d] /\ deleted'[d] = deleted[d] /\ deletedKeySet'[d] = deletedKeySet[d]
  /\ startTxnCount'[d] = startTxnCount[d] /\ readSet'[d] = readSet[d]
  /\ observed'[d] = observed[d] /\ written'[d] = written[d]
  /\ txnAlarm'[d] = txnAlarm[d] /\ wants'[d] = wants[d]

\* A promise of sync() resolves when the last pending write returns.
Synced(d) == pc[d] = "syncing" /\ pc'[d] = "synced" /\ pendingFlushes = 1 /\ pendingFlushes' = 0

Alone(c) ==
  \A d \in Calls \ {c} :
    /\ Rests(d)
    /\ pc'[d] = pc[d] \/ Synced(d)
    /\ Granted(phase[d], phase'[d])

\* Operations called with these arguments: what they are going to write.
Asked(c, op, w) ==
  \/ op = "put" /\ \E ks \in SUBSET Keys : w = Writing(ks, c)
  \/ op = "delete" /\ \E ks \in SUBSET Keys : w = Writing(ks, Absent)
  \/ op = "deleteAll" /\ w = Writing(Keys, Absent)
  \/ op \in {"setAlarm", "deleteAlarm"} /\ w = Nothing

\* The ways to start.
LEMMA Starts ==
  ASSUME NEW c \in Calls, Start(c)
  PROVE  \/ \E op, w : Asked(c, op, w) /\ StartWrite(c, op, w)
         \/ \E ks \in SUBSET Keys : StartGet(c, ks)
         \/ StartTransaction(c) \/ Sync(c)
BY Zenon DEF Start, Asked

\* Every step uses the lock in one way, or not at all.
LEMMA LockUsed ==
  ASSUME NEW c \in Calls, Step(c)
  PROVE  \/ UNCHANGED mutexVars
         \/ Mutex!readLock(c) \/ Mutex!writeLock(c) \/ Mutex!finishRead(c) \/ Mutex!finishWrite(c)
<1>1. CASE Start(c)
  BY <1>1, Starts, Zenon DEF StartWrite, StartGet, StartTransaction, Sync
<1>2. CASE Closure(c)
  BY <1>2, Zenon DEF Closure, TxnGet, TxnGetAlarm, Rollback, FinishClosure
<1>3. ASSUME \/ PutShadow(c) \/ DeleteShadow(c) \/ DeleteAllShadow(c)
             \/ AlarmShadow(c) \/ AlarmRecord(c) \/ Relock(c)
             \/ BeginTransaction(c) \/ Retry(c) \/ Commit(c)
             \/ Get(c) \/ GetReturns(c) \/ \E k \in Keys : ReadInner(c, k)
      PROVE  \/ UNCHANGED mutexVars
             \/ Mutex!readLock(c) \/ Mutex!writeLock(c) \/ Mutex!finishRead(c) \/ Mutex!finishWrite(c)
  BY <1>3, Zenon DEF PutShadow, DeleteShadow, DeleteAllShadow, AlarmShadow, AlarmRecord, Relock,
     BeginTransaction, Retry, Commit, Get, GetReturns, ReadInner
<1>4. ASSUME FlushStart(c) \/ FlushPut(c) \/ FlushEnd(c) \/ FlushRejects(c) \/ \E d \in Calls : FlushDelete(c, d)
      PROVE  UNCHANGED mutexVars \/ Mutex!finishWrite(c)
  BY <1>4, Zenon DEF FlushStart, FlushPut, FlushEnd, FlushRejects, FlushDelete, FinishFlush
<1> QED
  BY <1>1, <1>2, <1>3, <1>4, Zenon DEF Step, Proceed

\* Every step of the storage is a step of the lock, or leaves it alone.
LEMMA LockSteps ==
  ASSUME Lock!IInv, NEW c \in Calls, Step(c)
  PROVE  Lock!IInv' /\ \A d \in Calls \ {c} : Granted(phase[d], phase'[d])
<1>1. CASE UNCHANGED mutexVars
  BY <1>1, LockRests DEF Granted
<1>2. CASE Mutex!readLock(c) \/ Mutex!writeLock(c) \/ Mutex!finishRead(c) \/ Mutex!finishWrite(c)
  BY <1>2, LockMoves
<1> QED
  BY <1>1, <1>2, LockUsed

\* A step of call c changes what call c has, and wakes the calls of sync().
LEMMA OwnSteps ==
  ASSUME TypeOK, NEW c \in Calls, Step(c)
  PROVE  /\ CallTypes'
         /\ \A d \in Calls \ {c} : Rests(d) /\ (pc'[d] = pc[d] \/ Synced(d))
<1>t. /\ CallTypes /\ deletedKeyResults \in [Calls -> Nat \union {None}] /\ pendingFlushes \in Nat
      /\ \A k \in Keys : inner[k] \in Stored /\ copies[k] \in Stored \union {None}
      /\ txnCount \in Nat
  BY DEF TypeOK, CallTypes, AllKeys
<1> DEFINE Goal == CallTypes' /\ \A d \in Calls \ {c} : Rests(d) /\ (pc'[d] = pc[d] \/ Synced(d))
<1>w. /\ Nothing \in [Keys -> Stored \union {None}]
      /\ \A ks : Writing(ks, c) \in [Keys -> Stored \union {None}]
      /\ \A ks : Writing(ks, Absent) \in [Keys -> Stored \union {None}]
  BY DEF Nothing, Writing, Stored, Values
<1>1. ASSUME NEW op, NEW w, Asked(c, op, w), StartWrite(c, op, w) PROVE Goal
  <2>1. w \in [Keys -> Stored \union {None}] /\ op \in AllKinds
    BY <1>1, <1>w DEF Asked, AllKinds, WriteKinds
  <2> QED
    BY <1>1, <1>t, <2>1 DEF StartWrite, CallTypes, Rests, Goto, Locs, readVars, txnObject, delVars
<1>2. ASSUME NEW ks \in SUBSET Keys, StartGet(c, ks) PROVE Goal
  BY <1>2, <1>t DEF StartGet, CallTypes, Rests, Goto, Locs, AllKinds, readVars, txnObject, delVars
<1>3. CASE StartTransaction(c)
  BY <1>3, <1>t DEF StartTransaction, CallTypes, Rests, Goto, Locs, AllKinds, WriteKinds, readVars, txnObject, delVars
<1>4. CASE Sync(c)
  BY <1>4, <1>t DEF Sync, CallTypes, Rests, Goto, Locs, ReturnedLocs, AllKinds, readVars, txnObject, delVars
<1>5. CASE PutShadow(c)
  BY <1>5, <1>t, <1>w DEF PutShadow, CallTypes, Rests, Goto, Locs, AppliedLocs, readVars, txnObject, delVars
<1>6. CASE DeleteAllShadow(c)
  BY <1>6, <1>t, <1>w DEF DeleteAllShadow, CallTypes, Rests, Goto, Locs, AppliedLocs, readVars, txnObject, delVars
<1>7. CASE AlarmShadow(c)
  BY <1>7, <1>t, <1>w DEF AlarmShadow, CallTypes, Rests, Goto, Locs, readVars, txnObject, delVars
<1>8. CASE AlarmRecord(c)
  BY <1>8, <1>t, <1>w DEF AlarmRecord, CallTypes, Rests, Goto, Locs, AppliedLocs, readVars, txnObject, delVars
<1>9. CASE Relock(c)
  BY <1>9, <1>t, <1>w DEF Relock, CallTypes, Rests, Goto, Locs, AppliedLocs, readVars, txnObject, delVars
<1>10. CASE BeginTransaction(c)
  BY <1>10, <1>t, <1>w DEF BeginTransaction, CallTypes, Rests, Goto, Locs, readVars, txnObject, delVars
<1>11. CASE Retry(c)
  BY <1>11, <1>t, <1>w DEF Retry, DropTransaction, CallTypes, Rests, Goto, Locs, readVars, txnObject, delVars
<1>12. CASE Commit(c)
  BY <1>12, <1>t, <1>w DEF Commit, DropTransaction, CallTypes, Rests, Goto, Locs, AppliedLocs, readVars, txnObject, delVars
<1>13. CASE Get(c)
  BY <1>13, <1>t, <1>w DEF Get, ReadShadow, CallTypes, Rests, Goto, Locs, readVars, txnObject, delVars
<1>14. CASE GetReturns(c)
  BY <1>14, <1>t, <1>w DEF GetReturns, CallTypes, Rests, Goto, Locs, AppliedLocs, readVars, txnObject, delVars
<1>15. ASSUME NEW k \in Keys, ReadInner(c, k) PROVE Goal
  BY <1>15, <1>t, <1>w DEF ReadInner, CallTypes, Rests, Goto, Locs, readVars, txnObject, delVars
<1>16. ASSUME NEW ks \in SUBSET Keys, TxnGet(c, ks) PROVE Goal
  BY <1>16, <1>t, <1>w DEF TxnGet, ReadShadow, CallTypes, Rests, Goto, Locs, AllKeys, readVars, txnObject, delVars
<1>17. CASE TxnGetAlarm(c)
  BY <1>17, <1>t, <1>w DEF TxnGetAlarm, CallTypes, Rests, Goto, Locs, AllKeys, readVars, txnObject, delVars
<1>18. CASE Rollback(c)
  BY <1>18, <1>t, <1>w DEF Rollback, DropTransaction, Settle, Synced, CallTypes, Rests, Locs, ReturnedLocs, readVars, txnObject, delVars
<1>19. CASE FinishClosure(c)
  <2>1. TxnWrites(c) \subseteq [Keys -> Stored \union {None}] /\ TxnAlarms \subseteq AlarmTimes \union {Absent, None}
    BY DEF TxnWrites, TxnAlarms, Stored, Values
  <2> QED
    BY <1>19, <1>t, <2>1 DEF FinishClosure, CallTypes, Rests, Goto, Locs, readVars, txnObject, delVars
<1>20. CASE DeleteShadow(c)
  <2> DEFINE shadowed == {k \in writeSet(c) : copies[k] # None}
  <2>1. Cardinality({k \in shadowed : copies[k] # Absent}) \in Nat
    BY FS_Subset, FS_CardinalityType, KeysFinite DEF writeSet
  <2>2. writeSet(c) \subseteq Keys
    BY DEF writeSet
  <2> QED
    BY <1>20, <1>t, <1>w, <2>1, <2>2 DEF DeleteShadow, CallTypes, Rests, Goto, Locs, AppliedLocs, readVars, txnObject
<1>21. ASSUME FinishFlush(c), UNCHANGED <<written, readVars, kind>> PROVE Goal
  <2>1. ASSUME NEW l \in {"done", "rejected"}, Settle(c, l)
        PROVE  pc' \in [Calls -> Locs] /\ \A d \in Calls \ {c} : pc'[d] = pc[d] \/ Synced(d)
    BY <2>1, <1>t DEF Settle, Synced, CallTypes, Locs, ReturnedLocs
  <2>2. pc' \in [Calls -> Locs] /\ \A d \in Calls \ {c} : pc'[d] = pc[d] \/ Synced(d)
    BY <1>21, <2>1 DEF FinishFlush
  <2>3. /\ deleted' \in [Calls -> Nat] /\ deletedKeySet' \in [Calls -> SUBSET Keys]
        /\ \A d \in Calls \ {c} : deleted'[d] = deleted[d] /\ deletedKeySet'[d] = deletedKeySet[d]
    <3>1. \/ /\ deletedKeyResults[c] # None
             /\ deleted' = [deleted EXCEPT ![c] = @ + deletedKeyResults[c]]
             /\ deletedKeySet' = [deletedKeySet EXCEPT ![c] = {}]
          \/ UNCHANGED <<deleted, deletedKeySet>>
      BY <1>21, Zenon DEF FinishFlush
    <3>2. deletedKeyResults[c] \in Nat \union {None} /\ deleted[c] \in Nat
      BY <1>t DEF CallTypes
    <3>3. deletedKeyResults[c] # None => deleted[c] + deletedKeyResults[c] \in Nat
      BY <3>2
    <3>4. deleted \in [Calls -> Nat] /\ deletedKeySet \in [Calls -> SUBSET Keys]
      BY <1>t DEF CallTypes
    <3>5. CASE UNCHANGED <<deleted, deletedKeySet>>
      BY <3>4, <3>5
    <3>6. ASSUME deleted' = [deleted EXCEPT ![c] = @ + deletedKeyResults[c]],
                 deletedKeyResults[c] # None, deletedKeySet' = [deletedKeySet EXCEPT ![c] = {}]
          PROVE  /\ deleted' \in [Calls -> Nat] /\ deletedKeySet' \in [Calls -> SUBSET Keys]
                 /\ \A d \in Calls \ {c} : deleted'[d] = deleted[d] /\ deletedKeySet'[d] = deletedKeySet[d]
      BY <3>3, <3>4, <3>6
    <3> QED
      BY <3>1, <3>5, <3>6
  <2> QED
    BY <1>21, <1>t, <2>2, <2>3 DEF CallTypes, Rests, readVars, txnObject
<1>22. CASE FlushStart(c)
  <2>1. CASE copies = NoEntries
    BY <1>21, <1>22, <2>1 DEF FlushStart
  <2>2. CASE copies # NoEntries
    BY <1>22, <1>t, <2>2 DEF FlushStart, CallTypes, Rests, Goto, Locs, AppliedLocs, readVars, txnObject
  <2> QED
    BY <2>1, <2>2
<1>23. CASE FlushEnd(c)
  BY <1>21, <1>23 DEF FlushEnd
<1>24. CASE FlushPut(c)
  BY <1>24, <1>t DEF FlushPut, CallTypes, Rests, Goto, Locs, AppliedLocs, readVars, txnObject, delVars
<1>25. CASE FlushRejects(c)
  BY <1>25, <1>t DEF FlushRejects, Settle, Synced, CallTypes, Rests, Goto, Locs, AppliedLocs, ReturnedLocs, readVars, txnObject, delVars
<1>26. ASSUME NEW d \in Calls, FlushDelete(c, d) PROVE Goal
  BY <1>26, <1>t DEF FlushDelete, CallTypes, Rests, readVars, txnObject
<1>27. Start(c) => Goal
  BY Starts, <1>1, <1>2, <1>3, <1>4
<1>28. Closure(c) => Goal
  BY <1>16, <1>17, <1>18, <1>19 DEF Closure
<1> QED
  BY <1>5, <1>6, <1>7, <1>8, <1>9, <1>10, <1>11, <1>12, <1>13, <1>14, <1>15, <1>20, <1>22, <1>23, <1>24,
     <1>25, <1>26, <1>27, <1>28, Zenon DEF Step, Proceed

-----------------------------------------------------------------------------
(***************************************************************************)
(* Where calls are.                                                        *)
(***************************************************************************)

\* Step c goes to a place where it may be.
LEMMA CallerPlaced ==
  ASSUME TypeOK, Lock!IInv, CallsPlaced, NEW c \in Calls, Step(c)
  PROVE  Placed(pc'[c], kind'[c], phase'[c])
<1>t. pc \in [Calls -> Locs] /\ kind \in [Calls -> AllKinds \union {None}]
  BY DEF TypeOK
<1>n. None \notin AllKinds
  BY NoKind
<1>p. Placed(pc[c], kind[c], phase[c])
  BY DEF CallsPlaced
<1> DEFINE Goal == Placed(pc'[c], kind'[c], phase'[c])
<1>l. /\ Mutex!readLock(c) => phase[c] = "idle" /\ phase'[c] \in {"readQueued", "reading"}
      /\ Mutex!writeLock(c) => phase[c] = "idle" /\ phase'[c] \in ForWriting
      /\ Mutex!finishRead(c) => phase[c] = "reading" /\ phase'[c] = "idle"
      /\ Mutex!finishWrite(c) => phase[c] = "writing" /\ phase'[c] = "idle"
  BY LockMoves
<1>u. UNCHANGED mutexVars => phase'[c] = phase[c]
  BY DEF mutexVars
<1>1. ASSUME NEW op, NEW w, Asked(c, op, w), StartWrite(c, op, w) PROVE Goal
  <2>1. op \in SimpleKinds
    BY <1>1 DEF Asked, SimpleKinds, WriteKinds
  <2> QED
    BY <1>1, <1>t, <1>l, <2>1 DEF StartWrite, Goto, Placed
<1>2. ASSUME NEW ks \in SUBSET Keys, StartGet(c, ks) PROVE Goal
  BY <1>2, <1>t, <1>l DEF StartGet, Goto, Placed
<1>3. CASE StartTransaction(c)
  BY <1>3, <1>t, <1>p, <1>n, <1>u DEF StartTransaction, Goto, Placed
<1>4. CASE Sync(c)
  BY <1>4, <1>t, <1>p, <1>u DEF Sync, Goto, Placed
<1>5. CASE PutShadow(c) \/ DeleteShadow(c)
  BY <1>5, <1>t, <1>l DEF PutShadow, DeleteShadow, Locked, Goto, Placed, SimpleKinds, WriteKinds
<1>6. CASE DeleteAllShadow(c) \/ AlarmShadow(c)
  BY <1>6, <1>t, <1>u DEF DeleteAllShadow, AlarmShadow, Locked, Goto, Placed, WriteKinds, ForWriting
<1>7. CASE AlarmRecord(c)
  BY <1>7, <1>t, <1>p, <1>l DEF AlarmRecord, Goto, Placed, SimpleKinds, WriteKinds
<1>8. CASE Relock(c)
  BY <1>8, <1>t, <1>p, <1>l DEF Relock, Goto, Placed, SimpleKinds, WriteKinds
<1>9. CASE BeginTransaction(c)
  BY <1>9, <1>t, <1>p, <1>u DEF BeginTransaction, Goto, Placed
<1>10. CASE Retry(c)
  BY <1>10, <1>t, <1>p, <1>l DEF Retry, Validating, Goto, Placed
<1>11. CASE Commit(c)
  BY <1>11, <1>t, <1>p, <1>u DEF Commit, Validating, Goto, Placed, WriteKinds
<1>12. CASE Get(c)
  BY <1>12, <1>t, <1>p, <1>u DEF Get, ReadShadow, Goto, Placed
<1>13. CASE GetReturns(c)
  BY <1>13, <1>t, <1>p, <1>l DEF GetReturns, Goto, Placed
<1>14. ASSUME NEW k \in Keys, ReadInner(c, k) PROVE Goal
  BY <1>14, <1>t, <1>p, <1>u DEF ReadInner, Goto, Placed
<1>15. ASSUME NEW ks \in SUBSET Keys, TxnGet(c, ks) PROVE Goal
  BY <1>15, <1>t, <1>p, <1>u DEF TxnGet, InClosure, ReadShadow, Goto, Placed
<1>16. CASE TxnGetAlarm(c)
  BY <1>16, <1>t, <1>p, <1>u DEF TxnGetAlarm
<1>17. CASE Rollback(c)
  BY <1>17, <1>t, <1>p, <1>u DEF Rollback, InClosure, Settle, Placed
<1>18. CASE FinishClosure(c)
  BY <1>18, <1>t, <1>p, <1>l DEF FinishClosure, InClosure, Goto, Placed
<1>19. ASSUME FinishFlush(c), UNCHANGED kind, pc[c] \in {"flush", "flushRest"} PROVE Goal
  <2>1. pc'[c] \in {"done", "rejected"} /\ Mutex!finishWrite(c)
    BY <1>19, <1>t DEF FinishFlush, Settle
  <2> QED
    BY <1>19, <1>p, <1>l, <2>1 DEF Placed
<1>20. CASE FlushStart(c)
  <2>1. CASE copies = NoEntries
    <3>1. FinishFlush(c) /\ Flushing(c, "flush") /\ UNCHANGED kind
      BY <1>20, <2>1 DEF FlushStart
    <3> QED
      BY <1>19, <3>1 DEF Flushing
  <2>2. CASE copies # NoEntries
    BY <1>20, <2>2, <1>t, <1>p, <1>u DEF FlushStart, Flushing, Goto, Placed
  <2> QED
    BY <2>1, <2>2
<1>21. CASE FlushEnd(c)
  <2>1. FinishFlush(c) /\ Flushing(c, "flushRest") /\ UNCHANGED kind
    BY <1>21 DEF FlushEnd
  <2> QED
    BY <1>19, <2>1 DEF Flushing
<1>22. CASE FlushPut(c)
  BY <1>22, <1>t, <1>p, <1>u DEF FlushPut, Flushing, Goto, Placed
<1>23. CASE FlushRejects(c)
  BY <1>23, <1>t, <1>p, <1>l DEF FlushRejects, Flushing, Settle, Placed
<1>24. ASSUME NEW d \in Calls, FlushDelete(c, d) PROVE Goal
  BY <1>24, <1>p, <1>u DEF FlushDelete
<1>25. Start(c) => Goal
  BY Starts, <1>1, <1>2, <1>3, <1>4
<1>26. Closure(c) => Goal
  BY <1>15, <1>16, <1>17, <1>18 DEF Closure
<1> QED
  BY <1>5, <1>6, <1>7, <1>8, <1>9, <1>10, <1>11, <1>12, <1>13, <1>14, <1>20, <1>21, <1>22, <1>23,
     <1>24, <1>25, <1>26, Zenon DEF Step, Proceed

\* Every step leaves every call at a place where a call of its kind may be.
LEMMA PlacedSteps ==
  ASSUME TypeOK, Lock!IInv, CallsPlaced, NEW c \in Calls, Step(c)
  PROVE  CallsPlaced'
<1> SUFFICES ASSUME NEW d \in Calls \ {c} PROVE Placed(pc'[d], kind'[d], phase'[d])
  BY CallerPlaced DEF CallsPlaced
<1>1. Placed(pc[d], kind[d], phase[d])
  BY DEF CallsPlaced
<1>2. kind'[d] = kind[d] /\ (pc'[d] = pc[d] \/ Synced(d))
  BY OwnSteps DEF Rests
<1>3. Granted(phase[d], phase'[d])
  BY LockSteps
<1> QED
  BY <1>1, <1>2, <1>3 DEF Placed, Granted, Synced, ForWriting

-----------------------------------------------------------------------------
(***************************************************************************)
(* Pending writes.                                                         *)
(***************************************************************************)
IsPending(k, l) == k \in WriteKinds /\ l \notin ReturnedLocs

Begins(c) ==
  ~ IsPending(kind[c], pc[c]) /\ IsPending(kind'[c], pc'[c]) /\ pendingFlushes' = pendingFlushes + 1
Continues(c) ==
  (IsPending(kind[c], pc[c]) <=> IsPending(kind'[c], pc'[c])) /\ pendingFlushes' = pendingFlushes
Ends(c) ==
  /\ IsPending(kind[c], pc[c]) /\ ~ IsPending(kind'[c], pc'[c]) /\ kind'[c] = kind[c]
  /\ pendingFlushes' = pendingFlushes - 1

\* The pending flushes are counted up and down as writes start and return.
LEMMA PendingMoves ==
  ASSUME TypeOK, CallsPlaced, NEW c \in Calls, Step(c)
  PROVE  Begins(c) \/ Continues(c) \/ Ends(c)
<1>t. pc \in [Calls -> Locs] /\ kind \in [Calls -> AllKinds \union {None}]
  BY DEF TypeOK
<1>n. None \notin AllKinds
  BY NoKind
<1>p. Placed(pc[c], kind[c], phase[c])
  BY DEF CallsPlaced
<1> DEFINE Goal == Begins(c) \/ Continues(c) \/ Ends(c)
<1>1. ASSUME NEW op, NEW w, Asked(c, op, w), StartWrite(c, op, w) PROVE Goal
  <2>1. op \in WriteKinds
    BY <1>1 DEF Asked, WriteKinds
  <2>2. kind[c] = None
    BY <1>1, <1>p DEF StartWrite, Placed
  <2> QED
    BY <1>1, <1>t, <1>n, <2>1, <2>2 DEF StartWrite, Goto, IsPending, Begins, ReturnedLocs, AllKinds
<1>2. ASSUME NEW ks \in SUBSET Keys, StartGet(c, ks) PROVE Goal
  BY <1>2, <1>t, <1>p, <1>n DEF StartGet, Placed, Goto, IsPending, Continues, WriteKinds, AllKinds
<1>3. CASE StartTransaction(c)
  BY <1>3, <1>t, <1>p, <1>n DEF StartTransaction, Placed, Goto, IsPending, Begins, ReturnedLocs, WriteKinds, AllKinds
<1>4. CASE Sync(c)
  BY <1>4, <1>t, <1>p, <1>n DEF Sync, Placed, Goto, IsPending, Continues, WriteKinds, AllKinds
<1>5. CASE PutShadow(c) \/ DeleteShadow(c) \/ DeleteAllShadow(c) \/ AlarmShadow(c)
  BY <1>5, <1>t DEF PutShadow, DeleteShadow, DeleteAllShadow, AlarmShadow, Locked, Goto, IsPending, Continues, ReturnedLocs
<1>6. CASE AlarmRecord(c) \/ Relock(c) \/ BeginTransaction(c) \/ Retry(c) \/ Commit(c)
  BY <1>6, <1>t DEF AlarmRecord, Relock, BeginTransaction, Retry, Commit, Validating, Goto, IsPending, Continues, ReturnedLocs
<1>7. CASE Get(c)
  BY <1>7, <1>t DEF Get, ReadShadow, Goto, IsPending, Continues, WriteKinds
<1>8. CASE GetReturns(c)
  BY <1>8, <1>t DEF GetReturns, Goto, IsPending, Continues, WriteKinds
<1>9. ASSUME NEW k \in Keys, ReadInner(c, k) PROVE Goal
  BY <1>9, <1>t DEF ReadInner, Goto, IsPending, Continues, ReturnedLocs
<1>10. ASSUME NEW ks \in SUBSET Keys, TxnGet(c, ks) PROVE Goal
  BY <1>10, <1>t DEF TxnGet, InClosure, ReadShadow, Goto, IsPending, Continues, ReturnedLocs
<1>11. CASE TxnGetAlarm(c)
  BY <1>11 DEF TxnGetAlarm, IsPending, Continues
<1>12. CASE Rollback(c)
  BY <1>12, <1>t DEF Rollback, InClosure, Settle, IsPending, Ends, ReturnedLocs, WriteKinds
<1>13. CASE FinishClosure(c)
  BY <1>13, <1>t DEF FinishClosure, InClosure, Goto, IsPending, Continues, ReturnedLocs
<1>14. ASSUME FinishFlush(c), UNCHANGED kind, pc[c] \in {"flush", "flushRest"} PROVE Goal
  <2>1. kind[c] \in WriteKinds
    BY <1>14, <1>p DEF Placed
  <2>2. \E l \in {"done", "rejected"} : Settle(c, l)
    BY <1>14, Zenon DEF FinishFlush
  <2> QED
    BY <1>14, <2>1, <2>2, <1>t DEF Settle, IsPending, Ends, ReturnedLocs
<1>15. CASE FlushStart(c)
  <2>1. CASE copies = NoEntries
    <3>1. FinishFlush(c) /\ Flushing(c, "flush") /\ UNCHANGED kind
      BY <1>15, <2>1 DEF FlushStart
    <3> QED
      BY <1>14, <3>1 DEF Flushing
  <2>2. CASE copies # NoEntries
    BY <1>15, <2>2, <1>t DEF FlushStart, Flushing, Goto, IsPending, Continues, ReturnedLocs
  <2> QED
    BY <2>1, <2>2
<1>16. CASE FlushEnd(c)
  <2>1. FinishFlush(c) /\ Flushing(c, "flushRest") /\ UNCHANGED kind
    BY <1>16 DEF FlushEnd
  <2> QED
    BY <1>14, <2>1 DEF Flushing
<1>17. CASE FlushPut(c)
  BY <1>17, <1>t DEF FlushPut, Flushing, Goto, IsPending, Continues, ReturnedLocs
<1>18. CASE FlushRejects(c)
  <2>1. pc[c] \in {"flush", "flushing", "flushRest"} /\ Settle(c, "rejected") /\ UNCHANGED kind
    BY <1>18 DEF FlushRejects, Flushing
  <2>2. kind[c] \in WriteKinds
    BY <2>1, <1>p DEF Placed
  <2> QED
    BY <2>1, <2>2, <1>t DEF Settle, IsPending, Ends, ReturnedLocs
<1>19. ASSUME NEW d \in Calls, FlushDelete(c, d) PROVE Goal
  BY <1>19 DEF FlushDelete, IsPending, Continues
<1>20. Start(c) => Goal
  BY Starts, <1>1, <1>2, <1>3, <1>4
<1>21. Closure(c) => Goal
  BY <1>10, <1>11, <1>12, <1>13 DEF Closure
<1> QED
  BY <1>5, <1>6, <1>7, <1>8, <1>9, <1>15, <1>16, <1>17, <1>18, <1>19, <1>20, <1>21, Zenon DEF Step, Proceed

\* Every step keeps the count of pending flushes that of the calls in a write.
LEMMA PendingSteps ==
  ASSUME TypeOK, CallsPlaced, PendingCounted, NEW c \in Calls, Step(c)
  PROVE  PendingCounted'
<1>1. Pending \subseteq Calls /\ Pending' \subseteq Calls /\ IsFiniteSet(Pending)
  BY CallsFinite, FS_Subset DEF Pending
<1>2. \A d \in Calls : d \in Pending <=> IsPending(kind[d], pc[d])
  BY DEF Pending, IsPending
<1>3. \A d \in Calls : d \in Pending' <=> IsPending(kind'[d], pc'[d])
  BY DEF Pending, IsPending
<1>4. ASSUME NEW d \in Calls \ {c} PROVE d \in Pending' <=> d \in Pending
  <2>1. Rests(d) /\ (pc'[d] = pc[d] \/ Synced(d))
    BY OwnSteps
  <2>2. pc[d] = "syncing" => kind[d] \notin WriteKinds
    BY DEF CallsPlaced, Placed, WriteKinds
  <2> QED
    BY <1>2, <1>3, <2>1, <2>2 DEF Rests, Synced, IsPending
<1>5. CASE Begins(c)
  <2>1. Pending' = Pending \union {c} /\ c \notin Pending
    BY <1>1, <1>2, <1>3, <1>4, <1>5 DEF Begins
  <2> QED
    BY <1>1, <1>5, <2>1, FS_AddElement DEF PendingCounted, Begins
<1>6. CASE Continues(c)
  <2>1. Pending' = Pending
    BY <1>1, <1>2, <1>3, <1>4, <1>6 DEF Continues
  <2> QED
    BY <1>6, <2>1 DEF PendingCounted, Continues
<1>7. CASE Ends(c)
  <2>1. Pending' = Pending \ {c} /\ c \in Pending
    BY <1>1, <1>2, <1>3, <1>4, <1>7 DEF Ends
  <2> QED
    BY <1>1, <1>7, <2>1, FS_RemoveElement DEF PendingCounted, Ends
<1> QED
  BY <1>5, <1>6, <1>7, PendingMoves

-----------------------------------------------------------------------------
(***************************************************************************)
(* Steps by what they do to the storage.                                   *)
(***************************************************************************)

\* Steps that only move a call along.
Quiet(c) ==
  /\ UNCHANGED <<storeVars, txnVars, delVars, flushVars, failed, lastAlarm>>
  /\ pc[c] # "syncing"
  /\ \/ pc[c] = "yield" /\ pc'[c] = "flush" /\ kind'[c] = kind[c]
     \/ /\ pc[c] \notin AppliedLocs \union {"alarmSet"}
        /\ \/ pc'[c] \notin AppliedLocs \union {"alarmSet"}
           \/ pc'[c] = "done" /\ kind'[c] = "get" /\ GetReturns(c)

\* Steps that take the lock's critical section through shadow copies.
Writes(c) ==
  \/ PutShadow(c) \/ DeleteShadow(c) \/ DeleteAllShadow(c)
  \/ AlarmShadow(c) \/ AlarmRecord(c) \/ Commit(c)

\* Steps of a flush.
Flushes(c) ==
  \/ FlushStart(c) \/ FlushPut(c) \/ FlushEnd(c) \/ FlushRejects(c)
  \/ \E d \in Calls : FlushDelete(c, d)

\* Every step is quiet, a write or a flush: quiet steps change no copy.
LEMMA StepKinds ==
  ASSUME TypeOK, NEW c \in Calls, Step(c)
  PROVE  Quiet(c) \/ Writes(c) \/ Flushes(c)
<1>t. pc \in [Calls -> Locs] /\ kind \in [Calls -> AllKinds \union {None}]
  BY DEF TypeOK
<1>1. ASSUME NEW op, NEW w, Asked(c, op, w), StartWrite(c, op, w) PROVE Quiet(c)
  BY <1>1, <1>t DEF StartWrite, Goto, Quiet, AppliedLocs
<1>2. ASSUME NEW ks \in SUBSET Keys, StartGet(c, ks) PROVE Quiet(c)
  BY <1>2, <1>t DEF StartGet, Goto, Quiet, AppliedLocs
<1>3. ASSUME StartTransaction(c) \/ Sync(c) PROVE Quiet(c)
  BY <1>3, <1>t DEF StartTransaction, Sync, Goto, Quiet, AppliedLocs
<1>4. ASSUME Relock(c) \/ BeginTransaction(c) \/ Retry(c) \/ GetReturns(c) PROVE Quiet(c)
  BY <1>4, <1>t DEF Relock, BeginTransaction, Retry, GetReturns, Validating, Goto, Quiet, AppliedLocs
<1>5. ASSUME Get(c) PROVE Quiet(c)
  BY <1>5, <1>t DEF Get, ReadShadow, Goto, Quiet, AppliedLocs
<1>6. ASSUME NEW k \in Keys, ReadInner(c, k) PROVE Quiet(c)
  BY <1>6, <1>t DEF ReadInner, Goto, Quiet, AppliedLocs
<1>7. ASSUME NEW ks \in SUBSET Keys, TxnGet(c, ks) PROVE Quiet(c)
  BY <1>7, <1>t DEF TxnGet, InClosure, ReadShadow, Goto, Quiet, AppliedLocs
<1>8. ASSUME TxnGetAlarm(c) \/ FinishClosure(c) PROVE Quiet(c)
  BY <1>8, <1>t DEF TxnGetAlarm, FinishClosure, InClosure, Goto, Quiet, AppliedLocs
<1>9. ASSUME Rollback(c) PROVE Quiet(c)
  BY <1>9, <1>t DEF Rollback, InClosure, Settle, Quiet, AppliedLocs
<1>10. Start(c) => Quiet(c)
  BY Starts, <1>1, <1>2, <1>3
<1>11. Closure(c) => Quiet(c)
  BY <1>7, <1>8, <1>9 DEF Closure
<1> QED
  BY <1>4, <1>5, <1>6, <1>10, <1>11, Zenon DEF Step, Proceed, Writes, Flushes

\* Where a flush has read: while one is in progress nobody else writes.
LEMMA FlushAlone ==
  ASSUME Lock!IInv, CallsPlaced, NEW c \in Calls, phase[c] = "writing", NEW d \in Calls, InFlush(d)
  PROVE  d = c
<1>1. phase[d] = "writing"
  BY DEF CallsPlaced, Placed, InFlush
<1> QED
  BY <1>1, WriterAlone

\* A call takes part in a write or a flush while it has the lock.
LEMMA WritesLocked ==
  ASSUME CallsPlaced, NEW c \in Calls, Writes(c) \/ Flushes(c)
  PROVE  phase[c] = "writing"
<1>1. CASE Writes(c)
  BY <1>1 DEF Writes, PutShadow, DeleteShadow, DeleteAllShadow, AlarmShadow, AlarmRecord, Commit,
     Locked, Validating, CallsPlaced, Placed
<1>2. CASE Flushes(c)
  BY <1>2 DEF Flushes, FlushStart, FlushPut, FlushEnd, FlushRejects, FlushDelete, Flushing
<1> QED
  BY <1>1, <1>2

-----------------------------------------------------------------------------
(***************************************************************************)
(* Types of the storage.                                                   *)
(***************************************************************************)
StoreTypes ==
  /\ inner \in [AllKeys -> Stored \union AlarmTimes] /\ \A k \in Keys : inner[k] \in Stored
  /\ copies \in [AllKeys -> Stored \union {None}]
  /\ inner[AlarmKey] \in AlarmTimes \union {Absent} /\ copies[AlarmKey] \in {Absent, None}
  /\ alarm \in AlarmTimes \union {Absent, None}
  /\ scheduled \in Times \union {Absent}
  /\ flushEntries \in [AllKeys -> Stored \union {None}]
  /\ lastAlarm \in AlarmTimes \union {Absent}
  /\ failed \in BOOLEAN

TxnTypes ==
  /\ txnCount \in Nat
  /\ DOMAIN txnWriteSets \subseteq 1..txnCount
  /\ \A t \in DOMAIN txnWriteSets : txnWriteSets[t] \subseteq AllKeys

DeleteTypes ==
  /\ deletedKeySets \subseteq Calls /\ flushSets \subseteq Calls
  /\ deletedKeyResults \in [Calls -> Nat \union {None}]

\* The type invariant, taken apart into what the following lemmas treat in turn.
LEMMA TypesSplit ==
  TypeOK <=> Mutex!MutexTypeOK /\ pendingFlushes \in Nat /\ CallTypes /\ StoreTypes /\ TxnTypes /\ DeleteTypes
BY DEF TypeOK, CallTypes, StoreTypes, TxnTypes, DeleteTypes

\* A write set enters the log with a new number.
LEMMA RecordTypes ==
  ASSUME TxnTypes, NEW ws \in SUBSET AllKeys, txnRecordWriteSet(ws)
  PROVE  TxnTypes'
<1>1. txnCount' \in Nat /\ 1..txnCount \union {txnCount + 1} \subseteq 1..txnCount'
  BY DEF TxnTypes, txnRecordWriteSet
<1>2. DOMAIN txnWriteSets' \subseteq DOMAIN txnWriteSets \union {txnCount + 1}
  BY DEF txnRecordWriteSet
<1>3. DOMAIN txnWriteSets' \subseteq 1..txnCount'
  BY <1>1, <1>2 DEF TxnTypes
<1>4. \A t \in DOMAIN txnWriteSets' :
        txnWriteSets'[t] = ws \/ (t \in DOMAIN txnWriteSets /\ txnWriteSets'[t] = txnWriteSets[t])
  BY DEF txnRecordWriteSet
<1> QED
  BY <1>1, <1>3, <1>4 DEF TxnTypes

\* The write sets that are recorded are sets of keys.
LEMMA TxnTypesSteps ==
  ASSUME TypeOK, NEW c \in Calls, Step(c)
  PROVE  TxnTypes'
<1>t. TxnTypes
  BY TypesSplit
<1>1. CASE UNCHANGED txnVars
  BY <1>1, <1>t DEF TxnTypes, txnVars
<1>2. CASE \E ws \in SUBSET AllKeys : txnRecordWriteSet(ws)
  BY <1>2, <1>t, RecordTypes
<1>3. CASE Quiet(c)
  BY <1>1, <1>3 DEF Quiet
<1>4. CASE Writes(c)
  <2>1. writeSet(c) \in SUBSET AllKeys /\ {AlarmKey} \in SUBSET AllKeys
        /\ {k \in AllKeys : View[k] # Absent} \in SUBSET AllKeys
    BY DEF writeSet, AllKeys
  <2> QED
    BY <1>1, <1>2, <1>4, <2>1, Zenon DEF Writes, PutShadow, DeleteShadow, DeleteAllShadow, AlarmShadow, AlarmRecord, Commit
<1>5. CASE Flushes(c)
  BY <1>1, <1>5 DEF Flushes, FlushStart, FlushPut, FlushEnd, FlushRejects, FlushDelete, txnVars
<1> QED
  BY <1>3, <1>4, <1>5, StepKinds

\* The key sets of deletes that wait for the flush stay sets of keys.
LEMMA DeleteTypesSteps ==
  ASSUME TypeOK, NEW c \in Calls, Step(c)
  PROVE  DeleteTypes'
<1>t. DeleteTypes
  BY TypesSplit
<1>1. CASE Quiet(c)
  BY <1>1, <1>t DEF Quiet, delVars, flushVars, DeleteTypes
<1>2. CASE Writes(c)
  BY <1>2, <1>t DEF Writes, PutShadow, DeleteShadow, DeleteAllShadow, AlarmShadow, AlarmRecord, Commit,
     delVars, flushVars, DeleteTypes
<1>3. CASE FlushStart(c) \/ FlushEnd(c)
  BY <1>3, <1>t DEF FlushStart, FlushEnd, FinishFlush, flushVars, DeleteTypes
<1>4. CASE FlushPut(c) \/ FlushRejects(c)
  BY <1>4, <1>t DEF FlushPut, FlushRejects, delVars, flushVars, DeleteTypes
<1>5. ASSUME NEW d \in Calls, FlushDelete(c, d) PROVE DeleteTypes'
  <2>1. Cardinality({k \in deletedKeySet[d] : inner[k] # Absent}) \in Nat
    <3>1. deletedKeySet[d] \subseteq Keys
      BY DEF TypeOK
    <3> QED
      BY <3>1, FS_Subset, FS_CardinalityType, KeysFinite
  <2> QED
    BY <1>5, <1>t, <2>1 DEF FlushDelete, DeleteTypes
<1> QED
  BY <1>1, <1>2, <1>3, <1>4, <1>5, StepKinds, Zenon DEF Flushes

\* What the store holds is what was written to it.
LEMMA StoreTypesSteps ==
  ASSUME TypeOK, FlushMatches, NEW c \in Calls, Step(c)
  PROVE  StoreTypes'
<1>t. StoreTypes /\ written \in [Calls -> [Keys -> Stored \union {None}]]
      /\ txnAlarm \in [Calls -> AlarmTimes \union {Absent, None}] /\ deletedKeySet \in [Calls -> SUBSET Keys]
  BY DEF TypeOK, StoreTypes
<1>k. AlarmKey \notin Keys /\ AlarmKey \in AllKeys /\ Keys \subseteq AllKeys /\ None # Absent
  BY AlarmKeyReserved, SentinelsDistinct DEF AllKeys
<1>s. Absent \in Stored /\ (\A t \in AlarmTimes : t # None)
  BY SentinelsDistinct DEF Stored, AlarmTimes
<1>o. /\ Overwritten(c) \in [AllKeys -> Stored \union {None}]
      /\ Overwritten(c)[AlarmKey] = copies[AlarmKey]
  BY <1>t, <1>k DEF Overwritten, writeSet, StoreTypes
<1>f. InFlush(c) => flushEntries = copies
  BY DEF FlushMatches
<1>1. CASE Quiet(c)
  BY <1>1, <1>t DEF Quiet, storeVars, flushVars, StoreTypes
<1>2. CASE PutShadow(c)
  BY <1>2, <1>t, <1>o DEF PutShadow, flushVars, StoreTypes
<1>3. CASE DeleteShadow(c)
  BY <1>3, <1>t, <1>o DEF DeleteShadow, flushVars, StoreTypes
<1>4. CASE DeleteAllShadow(c)
  BY <1>4, <1>t, <1>k, <1>s DEF DeleteAllShadow, flushVars, StoreTypes
<1>5. CASE AlarmShadow(c)
  BY <1>5, <1>t DEF AlarmShadow, flushVars, StoreTypes
<1>6. CASE AlarmRecord(c)
  BY <1>6, <1>t DEF AlarmRecord, storeVars, flushVars, StoreTypes
<1>7. CASE Commit(c)
  BY <1>7, <1>t, <1>o DEF Commit, flushVars, StoreTypes
<1>8. CASE FlushStart(c)
  <2>1. inner' = [inner EXCEPT ![AlarmKey] = IF alarm = None THEN @ ELSE alarm] /\ copies' = copies
        /\ scheduled' = (IF alarm = None THEN scheduled ELSE alarm) /\ alarm' = None
        /\ UNCHANGED <<failed, lastAlarm>> /\ alarm \notin InvalidTimes
    BY <1>8 DEF FlushStart
  <2>2. flushEntries' = flushEntries \/ flushEntries' = copies
    BY <1>8 DEF FlushStart, flushVars
  <2>3. inner' \in [AllKeys -> Stored \union AlarmTimes] /\ inner'[AlarmKey] \in AlarmTimes \union {Absent}
        /\ \A k \in Keys : inner'[k] \in Stored
    BY <1>t, <1>k, <1>s, <2>1 DEF StoreTypes
  <2>4. scheduled' \in Times \union {Absent} /\ flushEntries' \in [AllKeys -> Stored \union {None}]
    BY <1>t, <2>1, <2>2 DEF StoreTypes, AlarmTimes
  <2> QED
    BY <1>t, <2>1, <2>3, <2>4 DEF StoreTypes
<1>9. CASE FlushPut(c)
  <2>1. inner' = [k \in AllKeys |-> IF k \in putEntries THEN copies[k] ELSE inner[k]]
        /\ putEntries = {k \in AllKeys : copies[k] \notin {None, Absent}}
    BY <1>9, <1>f DEF FlushPut, Flushing, InFlush, putEntries
  <2>2. UNCHANGED <<copies, alarm, scheduled, flushEntries, failed, lastAlarm>>
    BY <1>9 DEF FlushPut, flushVars
  <2> QED
    BY <1>t, <1>k, <2>1, <2>2 DEF StoreTypes
<1>10. CASE FlushEnd(c)
  <2>1. /\ inner' = [k \in AllKeys |-> IF k \in deleteKeys THEN Absent ELSE inner[k]]
        /\ copies' = [k \in AllKeys |-> IF copies[k] = flushEntries[k] THEN None ELSE copies[k]]
        /\ flushEntries' = NoEntries
        /\ UNCHANGED <<alarm, scheduled, failed, lastAlarm>>
    BY <1>10 DEF FlushEnd
  <2> QED
    BY <1>t, <1>k, <1>s, <2>1 DEF StoreTypes, NoEntries
<1>11. ASSUME NEW d \in Calls, FlushDelete(c, d) PROVE StoreTypes'
  BY <1>11, <1>t, <1>k, <1>s DEF FlushDelete, StoreTypes
<1>12. CASE FlushRejects(c)
  <2>1. UNCHANGED <<copies, alarm, scheduled, lastAlarm>> /\ failed' = TRUE /\ flushEntries' = NoEntries
    BY <1>12 DEF FlushRejects
  <2>2. \/ inner' = [inner EXCEPT ![AlarmKey] = alarm] /\ alarm \in AlarmTimes \union {Absent}
        \/ inner' = inner
        \/ \E part \in SUBSET AllKeys : inner' = [k \in AllKeys |-> IF k \in part THEN Absent ELSE inner[k]]
        \/ \E part \in SUBSET putEntries :
             InFlush(c) /\ inner' = [k \in AllKeys |-> IF k \in part THEN flushEntries[k] ELSE inner[k]]
    <3>1. \A d \in flushSets : SUBSET deletedKeySet[d] \subseteq SUBSET AllKeys
      BY <1>t, <1>k DEF TypeOK
    <3>2. SUBSET deleteKeys \subseteq SUBSET AllKeys
      BY DEF deleteKeys
    <3>3. alarm \in AlarmTimes \union {Absent, None}
      BY <1>t DEF StoreTypes
    <3> QED
      BY <1>12, <3>1, <3>2, <3>3 DEF FlushRejects, Flushing, InFlush, AlarmTimes
  <2>3. /\ inner' \in [AllKeys -> Stored \union AlarmTimes] /\ \A k \in Keys : inner'[k] \in Stored
        /\ inner'[AlarmKey] \in AlarmTimes \union {Absent}
    BY <1>t, <1>k, <1>s, <1>f, <2>2 DEF StoreTypes, putEntries, AlarmTimes
  <2> QED
    BY <1>t, <2>1, <2>3 DEF StoreTypes, NoEntries
<1> QED
  BY <1>1, <1>2, <1>3, <1>4, <1>5, <1>6, <1>7, <1>8, <1>9, <1>10, <1>11, <1>12, StepKinds, Zenon
  DEF Writes, Flushes

-----------------------------------------------------------------------------
(***************************************************************************)
(* The flush.                                                              *)
(***************************************************************************)

\* Where the flush in progress gets: the others are where they were.
LEMMA OthersInFlush ==
  ASSUME TypeOK, NEW c \in Calls, Step(c), NEW d \in Calls \ {c}
  PROVE  /\ InFlush(d)' <=> InFlush(d)
         /\ pc'[d] = "flushRest" <=> pc[d] = "flushRest"
         /\ pc'[d] \in AppliedLocs \ {"done"} <=> pc[d] \in AppliedLocs \ {"done"}
         /\ pc[d] # "syncing" => pc'[d] = pc[d]
<1>1. pc'[d] = pc[d] \/ Synced(d)
  BY OwnSteps
<1> QED
  BY <1>1 DEF InFlush, Synced, AppliedLocs

\* Every step keeps the flush entries those of the copies still to be flushed.
LEMMA FlushMatchesSteps ==
  ASSUME TypeOK, Lock!IInv, CallsPlaced, FlushMatches, NEW c \in Calls, Step(c)
  PROVE  FlushMatches'
<1>t. pc \in [Calls -> Locs] /\ DOMAIN inner = AllKeys
  BY DEF TypeOK
<1>o. \A d \in Calls \ {c} : (InFlush(d)' <=> InFlush(d)) /\ (pc'[d] = "flushRest" <=> pc[d] = "flushRest")
  BY OthersInFlush
<1>w. ASSUME Writes(c) \/ Flushes(c) PROVE \A d \in Calls \ {c} : ~ InFlush(d)
  BY <1>w, WritesLocked, FlushAlone
<1>e. \* Nobody flushes when the step is done.
      ASSUME Writes(c) \/ Flushes(c), ~ InFlush(c)', flushSets' = {}, flushEntries' = NoEntries
      PROVE  FlushMatches'
  <2>1. \A d \in Calls : ~ InFlush(d)'
    BY <1>e, <1>o, <1>w
  <2>2. \A d \in Calls : pc'[d] # "flushRest"
    BY <2>1 DEF InFlush
  <2> QED
    BY <1>e, <2>1, <2>2 DEF FlushMatches
<1>1. CASE Quiet(c)
  <2>1. ~ InFlush(c) /\ ~ InFlush(c)' /\ pc[c] # "flushRest" /\ pc'[c] # "flushRest"
    BY <1>1 DEF Quiet, InFlush, AppliedLocs
  <2>2. \A d \in Calls : (InFlush(d)' <=> InFlush(d)) /\ (pc'[d] = "flushRest" <=> pc[d] = "flushRest")
    BY <1>o, <2>1
  <2>3. UNCHANGED <<inner, copies, alarm, deletedKeySets, flushSets, flushEntries>>
    BY <1>1 DEF Quiet, storeVars, delVars, flushVars
  <2> QED
    BY <2>2, <2>3 DEF FlushMatches
<1>2. CASE Writes(c)
  <2>1. UNCHANGED flushVars /\ pc[c] \in {"locked", "alarmSet", "validate"} /\ pc'[c] \in {"yield", "flush", "alarmSet"}
    BY <1>2, <1>t DEF Writes, PutShadow, DeleteShadow, DeleteAllShadow, AlarmShadow, AlarmRecord, Commit, Locked,
       Validating, Goto
  <2>2. \A d \in Calls : ~ InFlush(d)
    BY <1>2, <1>w, <2>1 DEF InFlush
  <2> QED
    BY <1>2, <1>e, <2>1, <2>2 DEF FlushMatches, flushVars, InFlush
<1>3. ASSUME FinishFlush(c) PROVE ~ InFlush(c)'
  BY <1>3, <1>t DEF FinishFlush, Settle, InFlush
<1>4. CASE FlushStart(c)
  <2>1. \A d \in Calls : ~ InFlush(d)
    BY <1>4, <1>w DEF Flushes, FlushStart, Flushing, InFlush
  <2>2. CASE FinishFlush(c) /\ UNCHANGED flushVars
    BY <1>3, <1>4, <1>e, <2>1, <2>2 DEF FlushMatches, flushVars, Flushes
  <2>3. CASE copies # NoEntries /\ flushSets' = deletedKeySets /\ deletedKeySets' = {} /\ flushEntries' = copies
             /\ Goto(c, "flushing")
    <3>1. pc'[c] = "flushing" /\ copies' = copies /\ alarm' = None
      BY <1>4, <2>3, <1>t DEF Goto, FlushStart
    <3>2. \A d \in Calls : (InFlush(d)' <=> d = c) /\ pc'[d] # "flushRest"
      BY <1>o, <2>1, <3>1 DEF InFlush
    <3> QED
      BY <2>3, <3>1, <3>2 DEF FlushMatches
  <2> QED
    BY <1>4, <2>2, <2>3 DEF FlushStart
<1>5. ASSUME NEW d \in Calls, FlushDelete(c, d) PROVE FlushMatches'
  <2>1. /\ UNCHANGED <<pc, copies, alarm, flushEntries, deletedKeySets>>
        /\ pc[c] = "flushing"
    BY <1>5 DEF FlushDelete, Flushing
  <2>2. \A e \in Calls : pc[e] # "flushRest" /\ (InFlush(e) <=> e = c)
    BY <1>5, <1>w, <2>1, Zenon DEF Flushes, InFlush
  <2> QED
    BY <2>1, <2>2 DEF FlushMatches, InFlush
<1>6. CASE FlushPut(c)
  <2>1. /\ UNCHANGED <<copies, alarm, flushEntries, deletedKeySets, flushSets>>
        /\ pc[c] = "flushing" /\ pc'[c] = "flushRest" /\ flushSets = {}
        /\ inner' = [k \in AllKeys |-> IF k \in putEntries THEN flushEntries[k] ELSE inner[k]]
    BY <1>6, <1>t DEF FlushPut, Flushing, Goto, delVars, flushVars
  <2>2. \A e \in Calls : InFlush(e)' <=> e = c
    BY <1>6, <1>w, <1>o, <2>1, Zenon DEF Flushes, InFlush
  <2>3. \A k \in AllKeys : flushEntries[k] \notin {None, Absent} => inner'[k] = flushEntries[k]
    BY <2>1 DEF putEntries
  <2>4. InFlush(c)
    BY <2>1 DEF InFlush
  <2> QED
    BY <2>1, <2>2, <2>3, <2>4 DEF FlushMatches, InFlush
<1>7. CASE FlushEnd(c)
  <2>1. pc[c] = "flushRest" /\ FinishFlush(c) /\ flushEntries' = NoEntries /\ flushSets' = flushSets
    BY <1>7 DEF FlushEnd, Flushing
  <2> QED
    BY <1>3, <1>7, <1>e, <2>1 DEF FlushMatches, Flushes
<1>8. CASE FlushRejects(c)
  <2>1. flushEntries' = NoEntries /\ flushSets' = {} /\ Settle(c, "rejected")
    BY <1>8 DEF FlushRejects
  <2>2. ~ InFlush(c)'
    BY <2>1, <1>t DEF Settle, InFlush
  <2> QED
    BY <1>8, <1>e, <2>1, <2>2 DEF Flushes
<1> QED
  BY <1>1, <1>2, <1>4, <1>5, <1>6, <1>7, <1>8, StepKinds, Zenon DEF Flushes

\* Where writes and flushes take a call.
LEMMA WritesMove ==
  ASSUME TypeOK, NEW c \in Calls, Writes(c)
  PROVE  pc[c] \in {"locked", "alarmSet", "validate"} /\ pc'[c] \in {"alarmSet", "yield", "flush"} /\ kind' = kind
<1>t. pc \in [Calls -> Locs]
  BY DEF TypeOK
<1> QED
  BY <1>t DEF Writes, PutShadow, DeleteShadow, DeleteAllShadow, AlarmShadow, AlarmRecord, Commit, Locked,
     Validating, Goto

\* The end of a flush clears all the copies.
LEMMA FlushClears ==
  ASSUME TypeOK, FlushMatches, NEW c \in Calls, FlushEnd(c)
  PROVE  copies' = NoEntries /\ alarm' = None /\ alarm = None /\ copies = flushEntries /\ KeySets = {}
         /\ pc[c] = "flushRest" /\ FinishFlush(c) /\ UNCHANGED <<written, kind, failed, deletedKeySets, flushSets>>
<1>1. pc[c] = "flushRest" /\ copies' = [k \in AllKeys |-> IF copies[k] = flushEntries[k] THEN None ELSE copies[k]]
      /\ alarm' = alarm /\ FinishFlush(c) /\ UNCHANGED <<written, kind, failed, deletedKeySets, flushSets>>
  BY DEF FlushEnd, Flushing
<1> QED
  BY <1>1 DEF FlushMatches, InFlush, NoEntries, KeySets

\* No copy is left without somebody who is going to flush it.
LEMMA FlushesToComeSteps ==
  ASSUME TypeOK, Lock!IInv, FlushMatches, FlushesToCome, NEW c \in Calls, Step(c)
  PROVE  FlushesToCome'
<1>t. pc \in [Calls -> Locs]
  BY DEF TypeOK
<1>o. \A d \in Calls \ {c} : pc[d] \in ToFlush => pc'[d] \in ToFlush
  <2>1. \A d \in Calls \ {c} : pc[d] # "syncing" => pc'[d] = pc[d]
    BY OthersInFlush
  <2> QED
    BY <2>1 DEF ToFlush
<1>c. pc'[c] \in ToFlush => FlushesToCome'
  BY DEF FlushesToCome
<1>1. CASE Quiet(c)
  <2>1. pc[c] \in ToFlush => pc'[c] \in ToFlush
    BY <1>1 DEF Quiet, ToFlush, AppliedLocs
  <2>2. UNCHANGED <<failed, copies, alarm>>
    BY <1>1 DEF Quiet, storeVars
  <2> QED
    BY <1>o, <2>1, <2>2 DEF FlushesToCome
<1>2. CASE Writes(c)
  BY <1>2, <1>c, WritesMove DEF ToFlush
<1>3. CASE FlushStart(c)
  <2>1. CASE copies = NoEntries
    BY <1>3, <2>1 DEF FlushStart, FlushesToCome
  <2>2. CASE copies # NoEntries
    BY <1>3, <1>t, <1>c, <2>2 DEF FlushStart, Goto, ToFlush
  <2> QED
    BY <2>1, <2>2
<1>4. CASE FlushPut(c)
  BY <1>4, <1>t, <1>c DEF FlushPut, Goto, ToFlush
<1>5. ASSUME NEW d \in Calls, FlushDelete(c, d) PROVE FlushesToCome'
  BY <1>5, <1>c DEF FlushDelete, Flushing, ToFlush
<1>6. CASE FlushEnd(c)
  BY <1>6, FlushClears DEF FlushesToCome
<1>7. CASE FlushRejects(c)
  BY <1>7 DEF FlushRejects, FlushesToCome
<1> QED
  BY <1>1, <1>2, <1>3, <1>4, <1>5, <1>6, <1>7, StepKinds, Zenon DEF Flushes

-----------------------------------------------------------------------------
(***************************************************************************)
(* What calls write.                                                       *)
(***************************************************************************)

\* The part of WritesMatch that is about one call.
Planned(c, l, op, w) ==
  /\ \A k \in Keys : w[k] \in {None, Absent, c}
  /\ w # Nothing => (l = "locked" /\ op \in {"put", "delete", "deleteAll"}) \/ l = "validate"
  /\ l = "locked" /\ op \in {"delete", "deleteAll"} =>
       \A k \in Keys : w[k] = Absent \/ (op = "delete" /\ w[k] = None)

\* What a call is going to write is as it was asked, until it is written.
LEMMA PlannedSteps ==
  ASSUME TypeOK, CallsPlaced, NEW c \in Calls, Planned(c, pc[c], kind[c], written[c]), Step(c)
  PROVE  Planned(c, pc'[c], kind'[c], written'[c])
<1>t. pc \in [Calls -> Locs] /\ kind \in [Calls -> AllKinds \union {None}]
      /\ written \in [Calls -> [Keys -> Stored \union {None}]]
  BY DEF TypeOK
<1>p. Placed(pc[c], kind[c], phase[c])
  BY DEF CallsPlaced
<1> DEFINE Goal == Planned(c, pc'[c], kind'[c], written'[c])
<1>n. \A l, op : ~ (l = "locked" /\ op \in {"delete", "deleteAll"}) => Planned(c, l, op, Nothing)
  BY DEF Planned, Nothing
<1>l. \* A call that goes elsewhere without a plan.
      ASSUME written'[c] = written[c], pc[c] \notin {"locked", "validate"}, pc'[c] # "locked" PROVE Goal
  BY <1>l, <1>n DEF Planned
<1>d. ASSUME written'[c] = Nothing, pc'[c] # "locked" PROVE Goal
  BY <1>d, <1>n
<1>1. ASSUME NEW op, NEW w, Asked(c, op, w), StartWrite(c, op, w) PROVE Goal
  <2>1. Planned(c, "locked", op, w)
    BY <1>1 DEF Asked, Planned, Writing, Nothing
  <2> QED
    BY <1>1, <1>t, <2>1 DEF StartWrite, Goto
<1>2. ASSUME NEW ks \in SUBSET Keys, StartGet(c, ks) PROVE Goal
  <2>1. written'[c] = written[c] /\ pc[c] = "idle" /\ pc'[c] = "locked" /\ kind'[c] = "get"
    BY <1>2, <1>t DEF StartGet, Goto
  <2>2. written[c] = Nothing
    BY <2>1 DEF Planned
  <2> QED
    BY <1>n, <2>1, <2>2
<1>3. CASE StartTransaction(c) \/ Sync(c)
  BY <1>3, <1>t, <1>l DEF StartTransaction, Sync, Goto
<1>4. CASE PutShadow(c) \/ DeleteShadow(c) \/ DeleteAllShadow(c)
  BY <1>4, <1>t, <1>d DEF PutShadow, DeleteShadow, DeleteAllShadow, Goto
<1>5. CASE AlarmShadow(c)
  <2>1. written'[c] = written[c] /\ pc[c] = "locked" /\ pc'[c] = "alarmSet" /\ kind[c] \in {"setAlarm", "deleteAlarm"}
    BY <1>5, <1>t DEF AlarmShadow, Locked, Goto
  <2> QED
    BY <1>d, <2>1 DEF Planned
<1>6. CASE AlarmRecord(c) \/ Relock(c) \/ BeginTransaction(c) \/ GetReturns(c)
  BY <1>6, <1>t, <1>l DEF AlarmRecord, Relock, BeginTransaction, GetReturns, Goto
<1>7. CASE Retry(c) \/ Commit(c)
  BY <1>7, <1>t, <1>d DEF Retry, Commit, DropTransaction, Goto
<1>8. CASE Rollback(c)
  BY <1>8, <1>t, <1>d DEF Rollback, DropTransaction, Settle
<1>9. CASE Get(c)
  <2>1. written'[c] = written[c] /\ pc[c] = "locked" /\ pc'[c] # "locked" /\ kind[c] = "get"
    BY <1>9, <1>t DEF Get, ReadShadow, Goto
  <2> QED
    BY <1>d, <2>1 DEF Planned
<1>10. ASSUME NEW k \in Keys, ReadInner(c, k) PROVE Goal
  BY <1>10, <1>t, <1>l DEF ReadInner, Goto
<1>11. ASSUME NEW ks \in SUBSET Keys, TxnGet(c, ks) PROVE Goal
  BY <1>11, <1>t, <1>l DEF TxnGet, InClosure, ReadShadow, Goto
<1>12. CASE TxnGetAlarm(c)
  BY <1>12, <1>l DEF TxnGetAlarm, InClosure
<1>13. CASE FinishClosure(c)
  <2>1. PICK w \in TxnWrites(c) : written' = [written EXCEPT ![c] = w]
    BY <1>13 DEF FinishClosure
  <2>2. pc'[c] = "validate" /\ written'[c] = w /\ \A k \in Keys : w[k] \in {None, Absent, c}
    BY <1>13, <1>t, <2>1 DEF FinishClosure, Goto, TxnWrites
  <2> QED
    BY <2>2 DEF Planned
<1>14. CASE Flushes(c)
  <2>1. written' = written /\ pc[c] \in {"flush", "flushing", "flushRest"}
    BY <1>14 DEF Flushes, FlushStart, FlushPut, FlushEnd, FlushRejects, FlushDelete, Flushing
  <2>2. pc'[c] # "locked"
    BY <1>14, <1>t DEF Flushes, FlushStart, FlushPut, FlushEnd, FlushRejects, FlushDelete, FinishFlush, Flushing, Goto, Settle
  <2> QED
    BY <1>l, <2>1, <2>2
<1>15. Start(c) => Goal
  BY Starts, <1>1, <1>2, <1>3
<1>16. Closure(c) => Goal
  BY <1>8, <1>11, <1>12, <1>13 DEF Closure
<1> QED
  BY <1>4, <1>5, <1>6, <1>7, <1>9, <1>10, <1>14, <1>15, <1>16, Zenon DEF Step, Proceed, Flushes

\* The shadow copies are of calls that have not returned.
CopiesOwned == \A k \in Keys : copies[k] \in Calls => pc[copies[k]] \in AppliedLocs \ {"done"}

\* Copies and stored values are treated apart in what follows.
LEMMA WritesSplit ==
  WritesMatch <=> CopiesOwned /\ \A c \in Calls : Planned(c, pc[c], kind[c], written[c])
BY DEF WritesMatch, CopiesOwned, Planned

\* The copies that writes make.
LEMMA WritesCopy ==
  ASSUME TypeOK, CallsPlaced, WritesMatch, NEW c \in Calls, Writes(c)
  PROVE  /\ \A k \in AllKeys : copies'[k] = copies[k] \/ copies'[k] \in {Absent, c}
         /\ \A k \in AllKeys : copies[k] # None => copies'[k] # None
         /\ copies' = NoEntries => copies = NoEntries
         /\ UNCHANGED <<flushSets, failed, inner, scheduled, deletedKeyResults>>
<1>t. DOMAIN copies = AllKeys /\ Keys \subseteq AllKeys
  BY DEF TypeOK, AllKeys
<1>s. None \notin Calls /\ None # Absent
  BY SentinelsDistinct
<1>w. /\ writeSet(c) \subseteq Keys
      /\ \A k \in writeSet(c) : written[c][k] \in {Absent, c}
  BY DEF writeSet, WritesMatch
<1>1. \/ copies' = copies
      \/ copies' = Overwritten(c)
      \/ copies' = [k \in AllKeys |-> IF k \in {n \in AllKeys : View[n] # Absent} THEN Absent ELSE copies[k]]
  BY DEF Writes, PutShadow, DeleteShadow, DeleteAllShadow, AlarmShadow, AlarmRecord, Commit, storeVars
<1>2. /\ \A k \in AllKeys : copies'[k] = copies[k] \/ copies'[k] \in {Absent, c}
      /\ DOMAIN copies' = AllKeys
  BY <1>1, <1>t, <1>w DEF Overwritten
<1>3. \A k \in AllKeys : copies[k] # None => copies'[k] # None
  BY <1>2, <1>s
<1>4. ASSUME copies' = NoEntries PROVE copies = NoEntries
  <2>1. \A k \in AllKeys : copies[k] = None
    BY <1>3, <1>4 DEF NoEntries
  <2>2. copies = [k \in AllKeys |-> copies[k]]
    BY DEF TypeOK
  <2> QED
    BY <2>1, <2>2 DEF NoEntries
<1>5. UNCHANGED <<flushSets, failed, inner, scheduled, deletedKeyResults>>
  BY DEF Writes, PutShadow, DeleteShadow, DeleteAllShadow, AlarmShadow, AlarmRecord, Commit, storeVars, delVars, flushVars
<1> QED
  BY <1>2, <1>3, <1>4, <1>5

\* A copy is of a call that has not returned: its flush is to come.
LEMMA WritesSteps ==
  ASSUME TypeOK, Lock!IInv, CallsPlaced, FlushMatches, WritesMatch, NEW c \in Calls, Step(c)
  PROVE  WritesMatch'
<1>t. pc \in [Calls -> Locs]
  BY DEF TypeOK
<1>s. None \notin Calls /\ Absent \notin Calls
  BY SentinelsDistinct
<1>m. CopiesOwned /\ \A d \in Calls : Planned(d, pc[d], kind[d], written[d])
  BY WritesSplit
<1>1. \A d \in Calls : Planned(d, pc'[d], kind'[d], written'[d])
  <2>1. ASSUME NEW d \in Calls \ {c} PROVE Planned(d, pc'[d], kind'[d], written'[d])
    <3>1. written'[d] = written[d] /\ kind'[d] = kind[d] /\ (pc'[d] = pc[d] \/ Synced(d))
      BY OwnSteps DEF Rests
    <3> QED
      BY <1>m, <3>1 DEF Planned, Synced
  <2>2. Planned(c, pc'[c], kind'[c], written'[c])
    BY <1>m, PlannedSteps
  <2> QED
    BY <2>1, <2>2
<1>2. CopiesOwned'
  <2>o. \A d \in Calls \ {c} : pc[d] \in AppliedLocs \ {"done"} => pc'[d] \in AppliedLocs \ {"done"}
    BY OthersInFlush
  <2>1. ASSUME pc[c] \in AppliedLocs \ {"done"} => pc'[c] \in AppliedLocs \ {"done"}, UNCHANGED copies
        PROVE  CopiesOwned'
    BY <1>m, <2>o, <2>1 DEF CopiesOwned
  <2>2. CASE Quiet(c)
    BY <2>1, <2>2 DEF Quiet, AppliedLocs, storeVars
  <2>3. CASE Writes(c)
    <3>1. (pc[c] \notin AppliedLocs /\ pc'[c] \in {"yield", "flush"}) \/ UNCHANGED copies
      BY <2>3, <1>t DEF Writes, PutShadow, DeleteShadow, DeleteAllShadow, AlarmShadow, AlarmRecord, Commit,
         Locked, Validating, Goto, AppliedLocs, storeVars
    <3>2. pc[c] \notin AppliedLocs
      BY <2>3, WritesMove DEF AppliedLocs
    <3>3. \A k \in Keys : copies'[k] = copies[k] \/ copies'[k] \in {Absent, c}
      BY <2>3, WritesCopy DEF AllKeys
    <3>4. CASE UNCHANGED copies
      BY <2>1, <3>2, <3>4
    <3>5. CASE pc'[c] \in {"yield", "flush"}
      BY <1>m, <1>s, <2>o, <3>3, <3>5 DEF CopiesOwned, AppliedLocs
    <3> QED
      BY <3>1, <3>4, <3>5
  <2>4. CASE copies' = NoEntries
    BY <1>s, <2>4 DEF CopiesOwned, NoEntries, AllKeys
  <2>5. CASE FlushStart(c) \/ FlushPut(c)
    BY <1>t, <2>1, <2>4, <2>5 DEF FlushStart, FlushPut, Flushing, Goto, AppliedLocs
  <2>6. ASSUME NEW d \in Calls, FlushDelete(c, d) PROVE CopiesOwned'
    BY <2>1, <2>6 DEF FlushDelete
  <2>7. CASE FlushEnd(c)
    BY <2>4, <2>7, FlushClears
  <2>8. CASE FlushRejects(c)
    BY <1>t, <2>1, <2>8 DEF FlushRejects, Settle, AppliedLocs
  <2> QED
    BY <2>2, <2>3, <2>5, <2>6, <2>7, <2>8, StepKinds, Zenon DEF Flushes
<1> QED
  BY <1>1, <1>2, WritesSplit DEF WritesMatch, CopiesOwned, Planned

-----------------------------------------------------------------------------
(***************************************************************************)
(* Deletes.                                                                *)
(***************************************************************************)

\* A call returns from a flush when no key set is left.
LEMMA Finished ==
  ASSUME TypeOK, DeletesMatch, NoneMissed, KeySets = {}, NEW c \in Calls, Step(c), FinishFlush(c),
         UNCHANGED <<failed, kind, deletedKeySets, flushSets>>, pc[c] \in {"flush", "flushRest"}
  PROVE  DeletesMatch' /\ NoneMissed'
<1>t. pc \in [Calls -> Locs] /\ deletedKeyResults \in [Calls -> Nat \union {None}]
      /\ deletedKeySet \in [Calls -> SUBSET Keys] /\ kind \in [Calls -> AllKinds \union {None}]
  BY DEF TypeOK
<1>o. \A d \in Calls \ {c} : /\ deletedKeySet'[d] = deletedKeySet[d] /\ kind'[d] = kind[d]
                             /\ pc'[d] \in AppliedLocs \ {"done"} <=> pc[d] \in AppliedLocs \ {"done"}
                             /\ pc'[d] = "rejected" => pc[d] = "rejected"
  <2>1. \A d \in Calls \ {c} : Rests(d) /\ (pc'[d] = pc[d] \/ Synced(d))
    BY OwnSteps
  <2> QED
    BY <2>1, OthersInFlush DEF Rests, Synced
<1>r. deletedKeyResults' = [deletedKeyResults EXCEPT ![c] = None]
  BY DEF FinishFlush
<1>k. KeySets' = {}
  BY DEF KeySets
<1>1. \/ deletedKeySet[c] # {} /\ deletedKeyResults[c] # None /\ deletedKeySet'[c] = {} /\ pc'[c] = "done"
      \/ /\ kind[c] = "delete" /\ deletedKeySet[c] # {} /\ deletedKeyResults[c] = None
         /\ deletedKeySet' = deletedKeySet /\ pc'[c] = "rejected"
      \/ deletedKeySet[c] = {} /\ deletedKeySet'[c] = {} /\ pc'[c] = "done"
  <2>1. deletedKeySet[c] # {} => kind[c] = "delete"
    BY DEF DeletesMatch
  <2>2. CASE /\ kind[c] = "delete" /\ deletedKeySet[c] # {} /\ deletedKeyResults[c] # None
             /\ deletedKeySet' = [deletedKeySet EXCEPT ![c] = {}]
             /\ Settle(c, "done")
    BY <1>t, <2>2 DEF Settle
  <2>3. CASE /\ kind[c] = "delete" /\ deletedKeySet[c] # {} /\ deletedKeyResults[c] = None
             /\ Settle(c, "rejected") /\ UNCHANGED deletedKeySet
    BY <1>t, <2>3 DEF Settle
  <2>4. CASE ~ (kind[c] = "delete" /\ deletedKeySet[c] # {}) /\ Settle(c, "done") /\ UNCHANGED deletedKeySet
    BY <1>t, <2>1, <2>4 DEF Settle
  <2> QED
    BY <2>2, <2>3, <2>4, Zenon DEF FinishFlush
<1>2. DeletesMatch'
  <2>1. ASSUME NEW d \in Calls, deletedKeySet'[d] # {} \/ deletedKeyResults'[d] # None
        PROVE  kind'[d] = "delete" /\ pc'[d] \in AppliedLocs \ {"done"}
    BY <1>1, <1>o, <1>r, <1>t, <2>1 DEF DeletesMatch, AppliedLocs
  <2> QED
    BY <1>k, <2>1 DEF DeletesMatch
<1>3. NoneMissed'
  <2>1. deletedKeySets' = {}
    BY <1>k DEF KeySets
  <2>2. ASSUME ~ failed, NEW d \in Calls
        PROVE  pc'[d] # "rejected" /\ (deletedKeySet'[d] # {} => deletedKeyResults'[d] # None)
    <3>1. deletedKeySet[d] # {} => deletedKeyResults[d] # None
      BY <2>2 DEF NoneMissed
    <3> QED
      BY <1>1, <1>o, <1>r, <1>t, <2>2, <3>1 DEF NoneMissed
  <2> QED
    BY <2>1, <2>2 DEF NoneMissed
<1> QED
  BY <1>2, <1>3

\* A delete keeps the keys it does not know of to itself, until their set is
\* deleted.
LEMMA DeletesSteps ==
  ASSUME TypeOK, Lock!IInv, CallsPlaced, FlushMatches, WritesMatch, DeletesMatch, NoneMissed,
         NEW c \in Calls, Step(c)
  PROVE  DeletesMatch' /\ NoneMissed'
<1>t. pc \in [Calls -> Locs] /\ deletedKeyResults \in [Calls -> Nat \union {None}]
      /\ deletedKeySet \in [Calls -> SUBSET Keys] /\ kind \in [Calls -> AllKinds \union {None}]
      /\ copies \in [AllKeys -> Stored \union {None}] /\ deletedKeySets \subseteq Calls /\ flushSets \subseteq Calls
  BY DEF TypeOK
<1>k. Keys \subseteq AllKeys /\ KeySets \subseteq Calls
  BY <1>t DEF AllKeys, KeySets
<1>o. \A d \in Calls \ {c} : /\ deletedKeySet'[d] = deletedKeySet[d] /\ kind'[d] = kind[d]
                             /\ pc'[d] \in AppliedLocs \ {"done"} <=> pc[d] \in AppliedLocs \ {"done"}
                             /\ pc'[d] = "rejected" <=> pc[d] = "rejected"
  <2>1. \A d \in Calls \ {c} : Rests(d) /\ (pc'[d] = pc[d] \/ Synced(d))
    BY OwnSteps
  <2> QED
    BY <2>1, OthersInFlush DEF Rests, Synced
<1> DEFINE Goal == DeletesMatch' /\ NoneMissed'
<1>s. \* The key sets stay, and no copy goes.
      ASSUME UNCHANGED <<deletedKeySet, deletedKeyResults, deletedKeySets, flushSets, failed>>,
             \A k \in AllKeys : copies[k] # None => copies'[k] # None,
             copies' = NoEntries => copies = NoEntries,
             pc'[c] # "rejected",
             kind[c] = "delete" /\ pc[c] \in AppliedLocs \ {"done"} =>
               kind'[c] = "delete" /\ pc'[c] \in AppliedLocs \ {"done"}
      PROVE  Goal
  <2>1. KeySets' = KeySets
    BY <1>s DEF KeySets
  <2>2. \A d \in Calls : kind[d] = "delete" /\ pc[d] \in AppliedLocs \ {"done"} =>
                           kind'[d] = "delete" /\ pc'[d] \in AppliedLocs \ {"done"}
    BY <1>o, <1>s
  <2>3. DeletesMatch'
    <3>1. \A d \in KeySets : \A k \in deletedKeySet[d] : copies'[k] # None
      BY <1>k, <1>s, <1>t DEF DeletesMatch
    <3> QED
      BY <1>s, <2>1, <2>2, <3>1 DEF DeletesMatch
  <2>4. \A d \in Calls : pc[d] # "rejected" => pc'[d] # "rejected"
    BY <1>o, <1>s
  <2>5. NoneMissed'
    BY <1>s, <2>1, <2>4 DEF NoneMissed
  <2> QED
    BY <2>3, <2>5
<1>1. CASE Quiet(c)
  <2>1. UNCHANGED <<deletedKeySet, deletedKeyResults, deletedKeySets, flushSets, failed, copies>>
    BY <1>1 DEF Quiet, storeVars, delVars, flushVars
  <2>2. pc'[c] # "rejected" /\ (kind[c] = "delete" /\ pc[c] \in AppliedLocs \ {"done"} =>
               kind'[c] = "delete" /\ pc'[c] \in AppliedLocs \ {"done"})
    BY <1>1 DEF Quiet, AppliedLocs
  <2> QED
    BY <1>s, <2>1, <2>2
<1>w. ASSUME Writes(c)
      PROVE  /\ pc[c] \notin AppliedLocs /\ pc'[c] # "rejected"
             /\ \A k \in AllKeys : copies[k] # None => copies'[k] # None
             /\ copies' = NoEntries => copies = NoEntries
             /\ UNCHANGED <<flushSets, failed, deletedKeyResults>>
  BY <1>w, WritesMove, WritesCopy DEF AppliedLocs
<1>2. CASE Writes(c) /\ UNCHANGED <<deletedKeySet, deletedKeySets>>
  BY <1>2, <1>s, <1>w
<1>3. CASE DeleteShadow(c)
  <2> DEFINE unknown == {k \in writeSet(c) : copies[k] = None}
  <2>1. /\ deletedKeySet' = [deletedKeySet EXCEPT ![c] = unknown]
        /\ deletedKeySets' = deletedKeySets \union {d \in {c} : unknown # {}}
        /\ copies' = Overwritten(c) /\ kind[c] = "delete" /\ kind' = kind /\ pc'[c] = "yield"
    <3>1. writeSet(c) \ {k \in writeSet(c) : copies[k] # None} = unknown
      OBVIOUS
    <3> QED
      BY <1>3, <1>t, <3>1 DEF DeleteShadow, Locked, Goto
  <2>2. Writes(c)
    BY <1>3 DEF Writes
  <2>w. /\ \A k \in AllKeys : copies[k] # None => copies'[k] # None
        /\ copies' = NoEntries => copies = NoEntries
        /\ UNCHANGED <<flushSets, failed, deletedKeyResults>>
        /\ pc[c] \notin AppliedLocs
    BY <1>w, <2>2
  <2>3. c \notin KeySets /\ deletedKeyResults[c] = None /\ deletedKeySet[c] = {}
    BY <2>w DEF DeletesMatch
  <2>4. unknown \subseteq Keys /\ \A k \in unknown : copies'[k] # None
    BY <1>k, <2>1 DEF writeSet, Overwritten
  <2>5. KeySets' = KeySets \union {d \in {c} : unknown # {}}
    BY <2>1, <2>w DEF KeySets
  <2>6. /\ deletedKeySet'[c] = unknown
        /\ \A d \in KeySets : d # c /\ deletedKeySet'[d] = deletedKeySet[d]
    BY <1>k, <1>t, <2>1, <2>3
  <2>7. DeletesMatch'
    <3>1. ASSUME NEW d \in Calls, deletedKeySet'[d] # {} \/ deletedKeyResults'[d] # None \/ d \in KeySets'
          PROVE  kind'[d] = "delete" /\ pc'[d] \in AppliedLocs \ {"done"}
      <4>1. CASE d = c
        BY <2>1, <4>1 DEF AppliedLocs
      <4>2. CASE d # c
        BY <1>o, <2>5, <2>w, <3>1, <4>2 DEF DeletesMatch
      <4> QED
        BY <4>1, <4>2
    <3>2. ASSUME NEW d \in KeySets'
          PROVE  /\ deletedKeySet'[d] # {} /\ deletedKeyResults'[d] = None
                 /\ \A k \in deletedKeySet'[d] : copies'[k] # None
      <4>1. CASE d = c
        BY <2>3, <2>4, <2>5, <2>6, <2>w, <3>2, <4>1
      <4>2. CASE d # c
        <5>1. d \in KeySets /\ deletedKeySet'[d] = deletedKeySet[d] /\ deletedKeySet[d] \subseteq AllKeys
          BY <1>k, <1>t, <2>5, <2>6, <3>2, <4>2
        <5> QED
          BY <2>w, <5>1 DEF DeletesMatch
      <4> QED
        BY <4>1, <4>2
    <3>3. ASSUME NEW d \in KeySets', NEW e \in KeySets', d # e
          PROVE  deletedKeySet'[d] \intersect deletedKeySet'[e] = {}
      <4>1. ASSUME NEW f \in KeySets PROVE deletedKeySet[f] \intersect unknown = {}
        BY DEF DeletesMatch
      <4> QED
        BY <2>5, <2>6, <3>3, <4>1 DEF DeletesMatch
    <3> QED
      BY <3>1, <3>2, <3>3 DEF DeletesMatch
  <2>8. NoneMissed'
    <3>1. copies' = NoEntries => deletedKeySets' = {}
      <4>1. copies' = NoEntries => unknown = {}
        BY <1>k, <2>4 DEF NoEntries
      <4> QED
        BY <2>1, <2>w, <4>1 DEF NoneMissed
    <3>2. ASSUME ~ failed, NEW d \in Calls
          PROVE  pc'[d] # "rejected" /\ (deletedKeySet'[d] # {} => d \in KeySets' \/ deletedKeyResults'[d] # None)
      <4>1. CASE d = c
        BY <2>1, <2>5, <2>6, <4>1
      <4>2. CASE d # c
        BY <1>o, <2>5, <2>w, <3>2, <4>2 DEF NoneMissed
      <4> QED
        BY <4>1, <4>2
    <3> QED
      BY <2>w, <3>1, <3>2 DEF NoneMissed
  <2> QED
    BY <2>7, <2>8
<1>n. (\A d \in Calls : ~ InFlush(d)) => flushSets = {}
  BY DEF FlushMatches
<1>f. ASSUME Flushes(c) PROVE \A d \in Calls \ {c} : ~ InFlush(d)
  BY <1>f, WritesLocked, FlushAlone
<1>4. CASE FlushStart(c)
  <2>1. pc[c] = "flush" /\ UNCHANGED <<failed, kind, copies>>
    BY <1>4 DEF FlushStart, Flushing
  <2>2. flushSets = {}
    BY <1>4, <1>f, <1>n, <2>1 DEF Flushes, InFlush
  <2>3. CASE copies = NoEntries
    <3>1. FinishFlush(c) /\ UNCHANGED <<deletedKeySets, flushSets>>
      BY <1>4, <2>3 DEF FlushStart, flushVars
    <3>2. KeySets = {}
      BY <2>2, <2>3 DEF KeySets, NoneMissed
    <3> QED
      BY <2>1, <3>1, <3>2, Finished
  <2>4. CASE copies # NoEntries
    <3>1. /\ flushSets' = deletedKeySets /\ deletedKeySets' = {} /\ pc'[c] = "flushing"
          /\ UNCHANGED <<deletedKeyResults, deletedKeySet>>
      BY <1>4, <1>t, <2>4 DEF FlushStart, Goto
    <3>2. KeySets' = KeySets
      BY <2>2, <3>1 DEF KeySets
    <3>3. \A d \in Calls : (pc[d] \in AppliedLocs \ {"done"} <=> pc'[d] \in AppliedLocs \ {"done"})
                           /\ (pc'[d] = "rejected" <=> pc[d] = "rejected")
      BY <1>o, <2>1, <3>1 DEF AppliedLocs
    <3>4. DeletesMatch'
      BY <2>1, <3>1, <3>2, <3>3 DEF DeletesMatch
    <3>5. NoneMissed'
      BY <2>1, <3>1, <3>2, <3>3 DEF NoneMissed
    <3> QED
      BY <3>4, <3>5
  <2> QED
    BY <2>3, <2>4
<1>5. CASE FlushPut(c)
  <2>1. UNCHANGED <<deletedKeySet, deletedKeyResults, deletedKeySets, flushSets, failed, copies, kind>>
        /\ pc'[c] = "flushRest"
    BY <1>5, <1>t DEF FlushPut, Goto, delVars, flushVars
  <2> QED
    BY <1>s, <2>1 DEF AppliedLocs
<1>6. ASSUME NEW d \in Calls, FlushDelete(c, d) PROVE Goal
  <2>1. /\ d \in flushSets /\ flushSets' = flushSets \ {d}
        /\ UNCHANGED <<deletedKeySet, deletedKeySets, failed, copies, kind, pc>> /\ InFlush(c)
        /\ deletedKeyResults' = [deletedKeyResults EXCEPT ![d] = Cardinality({k \in deletedKeySet[d] : inner[k] # Absent})]
    BY <1>6 DEF FlushDelete, Flushing, InFlush
  <2>2. deletedKeySets = {}
    BY <2>1 DEF FlushMatches
  <2>3. KeySets' = KeySets \ {d} /\ d \in KeySets
    BY <2>1, <2>2 DEF KeySets
  <2>4. deletedKeyResults'[d] # None
    <3>1. Cardinality({k \in deletedKeySet[d] : inner[k] # Absent}) \in Nat
      BY <1>t, FS_Subset, FS_CardinalityType, KeysFinite
    <3> QED
      BY <1>t, <2>1, <3>1, SentinelsDistinct
  <2>5. \A e \in Calls \ {d} : deletedKeyResults'[e] = deletedKeyResults[e]
    BY <1>t, <2>1
  <2>6. DeletesMatch'
    BY <1>k, <2>1, <2>3, <2>5 DEF DeletesMatch
  <2>7. NoneMissed'
    BY <2>1, <2>2, <2>3, <2>4, <2>5 DEF NoneMissed
  <2> QED
    BY <2>6, <2>7
<1>7. CASE FlushEnd(c)
  BY <1>7, FlushClears, Finished
<1>8. CASE FlushRejects(c)
  <2>1. /\ flushSets' = {} /\ failed' = TRUE /\ Settle(c, "rejected") /\ pc[c] \in {"flush", "flushing", "flushRest"}
        /\ UNCHANGED <<copies, deletedKeySets, deletedKeyResults, deletedKeySet, kind>>
    BY <1>8 DEF FlushRejects, Flushing, delVars
  <2>2. KeySets' \subseteq KeySets
    BY <2>1 DEF KeySets
  <2>3. pc'[c] = "rejected"
    BY <1>t, <2>1 DEF Settle
  <2>4. \A d \in Calls : pc[d] \in AppliedLocs \ {"done"} => pc'[d] \in AppliedLocs \ {"done"}
    BY <1>o, <2>3 DEF AppliedLocs
  <2>5. DeletesMatch'
    BY <2>1, <2>2, <2>4 DEF DeletesMatch
  <2>6. NoneMissed'
    BY <2>1 DEF NoneMissed
  <2> QED
    BY <2>5, <2>6
<1>9. Writes(c) => Goal
  <2>1. PutShadow(c) \/ DeleteAllShadow(c) \/ AlarmShadow(c) \/ AlarmRecord(c) \/ Commit(c) =>
          UNCHANGED <<deletedKeySet, deletedKeySets>>
    BY DEF PutShadow, DeleteAllShadow, AlarmShadow, AlarmRecord, Commit, delVars
  <2> QED
    BY <1>2, <1>3, <2>1 DEF Writes
<1> QED
  BY <1>1, <1>4, <1>5, <1>6, <1>7, <1>8, <1>9, StepKinds, Zenon DEF Flushes

-----------------------------------------------------------------------------
(***************************************************************************)
(* What readers see.                                                       *)
(***************************************************************************)

\* The storage as it is read, before and after a step.
LEMMA Views ==
  ASSUME NEW k \in Keys
  PROVE  /\ View[k] = IF copies[k] # None THEN copies[k] ELSE inner[k]
         /\ View'[k] = IF copies'[k] # None THEN copies'[k] ELSE inner'[k]
BY DEF View, AllKeys

\* A flush does not change what readers see, whether it works or not.
LEMMA FlushesHidden ==
  ASSUME TypeOK, FlushMatches, DeletesMatch, NEW c \in Calls, Flushes(c), NEW k \in Keys
  PROVE  View'[k] = View[k] /\ (copies[k] = None => copies'[k] = None) /\ UNCHANGED txnVars
<1>t. inner \in [AllKeys -> Stored \union AlarmTimes] /\ copies \in [AllKeys -> Stored \union {None}]
      /\ flushSets \subseteq Calls
  BY DEF TypeOK
<1>k. k \in AllKeys /\ k # AlarmKey
  BY AlarmKeyReserved DEF AllKeys
<1>d. \A d \in flushSets : k \in deletedKeySet[d] => copies[k] # None
  BY DEF DeletesMatch, KeySets
<1>f. InFlush(c) => flushEntries = copies
  BY DEF FlushMatches
<1>v. \* Only what has a copy changes in the inner storage.
      ASSUME copies' = copies, copies[k] = None => inner'[k] = inner[k] PROVE View'[k] = View[k]
  BY <1>v, Views
<1>0. UNCHANGED txnVars
  BY DEF Flushes, FlushStart, FlushPut, FlushEnd, FlushRejects, FlushDelete
<1>1. CASE FlushStart(c)
  BY <1>0, <1>1, <1>t, <1>k, <1>v DEF FlushStart
<1>2. CASE FlushPut(c)
  BY <1>0, <1>2, <1>k, <1>f, <1>v DEF FlushPut, Flushing, InFlush, putEntries
<1>3. ASSUME NEW d \in Calls, FlushDelete(c, d) PROVE View'[k] = View[k] /\ copies' = copies
  BY <1>3, <1>k, <1>d, <1>v DEF FlushDelete
<1>4. CASE FlushEnd(c)
  <2>1. /\ inner' = [n \in AllKeys |-> IF n \in deleteKeys THEN Absent ELSE inner[n]]
        /\ copies' = NoEntries /\ copies = flushEntries /\ pc[c] = "flushRest"
    BY <1>4, FlushClears DEF FlushEnd
  <2>2. copies[k] \notin {None, Absent} => inner[k] = copies[k]
    BY <1>k, <2>1 DEF FlushMatches
  <2> QED
    BY <1>0, <1>k, <2>1, <2>2, Views, SentinelsDistinct DEF NoEntries, deleteKeys
<1>5. CASE FlushRejects(c)
  <2>1. copies' = copies
    BY <1>5 DEF FlushRejects
  <2>2. \/ inner' = [inner EXCEPT ![AlarmKey] = alarm]
        \/ inner' = inner
        \/ \E d \in flushSets : \E part \in SUBSET deletedKeySet[d] :
             inner' = [n \in AllKeys |-> IF n \in part THEN Absent ELSE inner[n]]
        \/ InFlush(c) /\ \E part \in SUBSET putEntries :
             inner' = [n \in AllKeys |-> IF n \in part THEN flushEntries[n] ELSE inner[n]]
        \/ InFlush(c) /\ \E part \in SUBSET deleteKeys :
             inner' = [n \in AllKeys |-> IF n \in part THEN Absent ELSE inner[n]]
    BY <1>5 DEF FlushRejects, Flushing, InFlush
  <2>3. copies[k] = None => inner'[k] = inner[k]
    <3>1. InFlush(c) /\ copies[k] = None => k \notin putEntries /\ k \notin deleteKeys
      BY <1>f, SentinelsDistinct DEF putEntries, deleteKeys
    <3> QED
      BY <1>t, <1>k, <1>d, <2>2, <3>1
  <2> QED
    BY <1>0, <1>v, <2>1, <2>3
<1> QED
  BY <1>0, <1>1, <1>2, <1>3, <1>4, <1>5 DEF Flushes

\* A write changes what it records, and nothing else.
LEMMA WritesRecorded ==
  ASSUME TypeOK, NEW c \in Calls, Writes(c)
  PROVE  \/ UNCHANGED txnVars /\ UNCHANGED <<copies, inner>>
         \/ \E ws \in SUBSET AllKeys :
              txnRecordWriteSet(ws) /\ \A k \in Keys \ ws : copies'[k] = copies[k] /\ inner'[k] = inner[k]
<1>k. Keys \subseteq AllKeys
  BY DEF AllKeys
<1> DEFINE Same(ws) == \A k \in Keys \ ws : copies'[k] = copies[k] /\ inner'[k] = inner[k]
<1>1. CASE copies' = Overwritten(c) /\ inner' = inner /\ txnRecordWriteSet(writeSet(c))
  <2>1. writeSet(c) \in SUBSET AllKeys
    BY <1>k DEF writeSet
  <2>2. Same(writeSet(c))
    BY <1>1, <1>k DEF Overwritten
  <2> QED
    BY <1>1, <2>1, <2>2
<1>2. CASE PutShadow(c) \/ DeleteShadow(c) \/ Commit(c)
  BY <1>1, <1>2 DEF PutShadow, DeleteShadow, Commit
<1>3. CASE DeleteAllShadow(c)
  <2> DEFINE names == {k \in AllKeys : View[k] # Absent}
  <2>1. txnRecordWriteSet(names) /\ copies' = [k \in AllKeys |-> IF k \in names THEN Absent ELSE copies[k]]
        /\ inner' = inner
    BY <1>3 DEF DeleteAllShadow
  <2>2. Same(names)
    BY <1>k, <2>1
  <2> QED
    BY <2>1, <2>2
<1>4. CASE AlarmShadow(c)
  BY <1>4 DEF AlarmShadow
<1>5. CASE AlarmRecord(c)
  BY <1>5 DEF AlarmRecord, storeVars, AllKeys
<1> QED
  BY <1>2, <1>3, <1>4, <1>5 DEF Writes

\* A conflict that will be noticed stays one.
LEMMA NoticedStays ==
  ASSUME TypeOK, NEW d \in Calls, NEW k, Noticed(d, k),
         kind'[d] = kind[d], k \in readSet'[d], startTxnCount'[d] = startTxnCount[d],
         UNCHANGED txnVars \/ \E ws : txnRecordWriteSet(ws)
  PROVE  Noticed(d, k)'
<1>t. txnCount \in Nat /\ startTxnCount[d] \in Nat
  BY DEF TypeOK
<1>1. PICK t \in startTxnCount[d] + 1 .. txnCount : t \in DOMAIN txnWriteSets => k \in txnWriteSets[t]
  BY DEF Noticed
<1>2. CASE UNCHANGED txnVars
  BY <1>2 DEF Noticed, txnVars
<1>3. CASE \E ws : txnRecordWriteSet(ws)
  <2>1. txnCount' = txnCount + 1 /\ t # txnCount + 1 /\ t \in startTxnCount[d] + 1 .. txnCount + 1
    BY <1>t, <1>1, <1>3 DEF txnRecordWriteSet
  <2>2. t \in DOMAIN txnWriteSets' => t \in DOMAIN txnWriteSets /\ txnWriteSets'[t] = txnWriteSets[t]
    BY <1>3, <2>1 DEF txnRecordWriteSet
  <2>3. t \in startTxnCount'[d] + 1 .. txnCount' /\ (t \in DOMAIN txnWriteSets' => k \in txnWriteSets'[t])
    BY <1>1, <2>1, <2>2
  <2> QED
    BY <2>3 DEF Noticed
<1> QED
  BY <1>2, <1>3

\* Who read a key that is then written will notice it.
LEMMA NoticedNow ==
  ASSUME TypeOK, NEW d \in Calls, NEW ws, txnRecordWriteSet(ws), NEW k \in ws,
         kind'[d] = "transaction", k \in readSet'[d], startTxnCount'[d] = startTxnCount[d],
         startTxnCount[d] <= txnCount
  PROVE  Noticed(d, k)'
<1>t. txnCount \in Nat /\ startTxnCount[d] \in Nat
  BY DEF TypeOK
<1>1. txnCount' = txnCount + 1 /\ txnCount + 1 \in startTxnCount'[d] + 1 .. txnCount'
  BY <1>t DEF txnRecordWriteSet
<1>2. txnCount + 1 \in DOMAIN txnWriteSets' => txnWriteSets'[txnCount + 1] = ws
  BY <1>t DEF txnRecordWriteSet
<1> QED
  BY <1>1, <1>2 DEF Noticed

\* What a step does to what the others read.
LEMMA ReadersKept ==
  ASSUME TypeOK, Lock!IInv, CallsPlaced, FlushMatches, DeletesMatch, NEW c \in Calls, Step(c),
         NEW d \in Calls \ {c}, ReadRight(d)
  PROVE  ReadRight(d)'
<1>t. txnCount \in Nat /\ startTxnCount[d] \in Nat /\ wants[d] \subseteq Keys
      /\ observed[d] \in [Keys -> Stored \union {None}]
  BY DEF TypeOK
<1>r. Rests(d) /\ (pc'[d] = pc[d] \/ Synced(d))
  BY OwnSteps
<1>l. (UNCHANGED txnVars \/ \E ws : txnRecordWriteSet(ws)) => txnCount <= txnCount' /\ txnCount' \in Nat
  BY <1>t DEF txnRecordWriteSet, txnVars
<1> DEFINE Same(k) == View'[k] = View[k] /\ (copies[k] = None => copies'[k] = None)
<1>s. \* The log is longer or the same; what changes is noticed.
      ASSUME UNCHANGED txnVars \/ \E ws : txnRecordWriteSet(ws),
             \A k \in Keys : Same(k) \/ observed[d][k] = None \/ Noticed(d, k)',
             pc[d] = "innerRead" => \A k \in wants[d] : Same(k) \/ Noticed(d, k)'
      PROVE  ReadRight(d)'
  <2>1. \A k \in Keys : Noticed(d, k) => Noticed(d, k)'
    <3> SUFFICES ASSUME NEW k \in Keys, Noticed(d, k) PROVE Noticed(d, k)'
      OBVIOUS
    <3>1. k \in readSet'[d]
      BY <1>r DEF Rests, Noticed
    <3> QED
      BY <1>r, <1>s, <3>1, NoticedStays DEF Rests
  <2>2. startTxnCount'[d] <= txnCount'
    BY <1>t, <1>r, <1>s, <1>l DEF ReadRight, Rests
  <2>3. observed'[d] # Nothing => pc'[d] \in {"closure", "innerRead", "validate"}
    BY <1>r DEF ReadRight, Rests, Synced
  <2>4. \A k \in Keys : observed'[d][k] # None =>
          /\ observed'[d][k] = View'[k] \/ Noticed(d, k)'
          /\ kind'[d] = "transaction" => k \in readSet'[d]
    BY <1>r, <1>s, <2>1 DEF ReadRight, Rests
  <2>5. pc'[d] = "innerRead" => \A k \in wants'[d] :
          /\ copies'[k] = None \/ Noticed(d, k)'
          /\ kind'[d] = "transaction" => k \in readSet'[d]
    BY <1>t, <1>r, <1>s, <2>1 DEF ReadRight, Rests, Synced
  <2> QED
    BY <2>2, <2>3, <2>4, <2>5 DEF ReadRight
<1>1. CASE Quiet(c)
  <2>1. UNCHANGED txnVars /\ UNCHANGED <<copies, inner>>
    BY <1>1 DEF Quiet, storeVars
  <2>2. \A k \in Keys : Same(k)
    BY <2>1, Views
  <2> QED
    BY <1>t, <1>s, <2>1, <2>2
<1>2. CASE Flushes(c)
  <2>1. UNCHANGED txnVars
    BY <1>2 DEF Flushes, FlushStart, FlushPut, FlushEnd, FlushRejects, FlushDelete
  <2>2. \A k \in Keys : Same(k)
    BY <1>2, FlushesHidden
  <2> QED
    BY <1>t, <1>s, <2>1, <2>2
<1>3. CASE Writes(c)
  <2>1. CASE UNCHANGED txnVars /\ UNCHANGED <<copies, inner>>
    <3>1. \A k \in Keys : Same(k)
      BY <2>1, Views
    <3> QED
      BY <1>t, <1>s, <2>1, <3>1
  <2>2. ASSUME NEW ws \in SUBSET AllKeys, txnRecordWriteSet(ws),
               \A k \in Keys \ ws : copies'[k] = copies[k] /\ inner'[k] = inner[k]
        PROVE  ReadRight(d)'
    <3>1. \A k \in Keys \ ws : Same(k)
      BY <2>2, Views
    <3>2. \* A get has the read lock while it reads: nobody writes.
          pc[d] \in {"closure", "innerRead", "validate"} => kind[d] = "transaction"
      <4>1. phase[c] = "writing"
        BY <1>3, WritesLocked
      <4>2. phase[d] # "reading"
        BY <4>1, WriterAlone
      <4> QED
        BY <4>2 DEF CallsPlaced, Placed
    <3>3. startTxnCount[d] <= txnCount
      BY DEF ReadRight
    <3>4. \A k \in Keys : kind[d] = "transaction" /\ k \in ws /\ k \in readSet[d] => Noticed(d, k)'
      BY <1>r, <2>2, <3>3, NoticedNow DEF Rests
    <3>5. ASSUME NEW k \in Keys, observed[d][k] # None PROVE kind[d] = "transaction" /\ k \in readSet[d]
      <4>1. observed[d] # Nothing
        BY <3>5 DEF Nothing
      <4> QED
        BY <3>2, <3>5, <4>1 DEF ReadRight
    <3>6. ASSUME pc[d] = "innerRead", NEW k \in wants[d] PROVE kind[d] = "transaction" /\ k \in readSet[d]
      BY <3>2, <3>6 DEF ReadRight
    <3> QED
      BY <1>s, <1>t, <2>2, <3>1, <3>4, <3>5, <3>6
  <2> QED
    BY <1>3, <2>1, <2>2, WritesRecorded
<1> QED
  BY <1>1, <1>2, <1>3, StepKinds

\* What a step of a call does to what it has read itself.
LEMMA ReaderSteps ==
  ASSUME TypeOK, CallsPlaced, NEW c \in Calls, Step(c), ReadRight(c)
  PROVE  ReadRight(c)'
<1>t. /\ pc \in [Calls -> Locs] /\ kind \in [Calls -> AllKinds \union {None}]
      /\ txnCount \in Nat /\ startTxnCount \in [Calls -> Nat]
      /\ wants \in [Calls -> SUBSET Keys] /\ readSet \in [Calls -> SUBSET AllKeys]
      /\ observed \in [Calls -> [Keys -> Stored \union {None}]]
  BY DEF TypeOK
<1>w. wants[c] \in SUBSET Keys
  BY <1>t
<1>f. startTxnCount[c] <= txnCount
  BY DEF ReadRight
<1> DEFINE Goal == ReadRight(c)'
<1>n. \* A call that has read nothing, and is not about to.
      ASSUME observed'[c] = Nothing, pc'[c] # "innerRead", startTxnCount'[c] <= txnCount' PROVE Goal
  BY <1>n DEF ReadRight, Nothing
<1>l. \* A call that is not in a transaction or a get.
      ASSUME pc[c] \notin {"closure", "innerRead", "validate"}, pc'[c] # "innerRead", observed'[c] = observed[c],
             startTxnCount'[c] = startTxnCount[c] \/ startTxnCount'[c] = txnCount,
             txnCount' = txnCount \/ txnCount' = txnCount + 1
      PROVE  Goal
  <2>1. observed'[c] = Nothing
    BY <1>l DEF ReadRight
  <2>2. startTxnCount'[c] <= txnCount'
    BY <1>f, <1>l, <1>t
  <2> QED
    BY <1>n, <1>l, <2>1, <2>2
<1>v. ASSUME UNCHANGED <<inner, copies>>, NEW k \in Keys PROVE View'[k] = View[k]
  BY <1>v, Views
<1>m. ASSUME UNCHANGED txnVars, UNCHANGED kind, startTxnCount'[c] = startTxnCount[c], readSet[c] \subseteq readSet'[c],
             NEW k \in Keys, Noticed(c, k)
      PROVE  Noticed(c, k)'
  <2>1. k \in readSet'[c]
    BY <1>m DEF Noticed
  <2> QED
    BY <1>m, <2>1, NoticedStays
<1>r. \* A step of a transaction or a get that leaves the storage alone.
      ASSUME UNCHANGED <<inner, copies>>, UNCHANGED txnVars, UNCHANGED kind, startTxnCount'[c] = startTxnCount[c],
             readSet[c] \subseteq readSet'[c], pc'[c] \in {"closure", "innerRead", "validate"},
             \A k \in Keys : observed'[c][k] \in {observed[c][k], None} \/
               /\ observed'[c][k] = View[k] \/ Noticed(c, k)
               /\ kind[c] = "transaction" => k \in readSet'[c],
             pc'[c] = "innerRead" => \A k \in wants'[c] :
               /\ k \in Keys
               /\ copies[k] = None \/ Noticed(c, k)
               /\ kind[c] = "transaction" => k \in readSet'[c]
      PROVE  Goal
  <2>1. startTxnCount'[c] <= txnCount'
    BY <1>f, <1>r DEF txnVars
  <2>2. ASSUME NEW k \in Keys, observed'[c][k] # None
        PROVE  /\ observed'[c][k] = View'[k] \/ Noticed(c, k)'
               /\ kind'[c] = "transaction" => k \in readSet'[c]
    <3>1. /\ observed'[c][k] = View[k] \/ Noticed(c, k)
          /\ kind[c] = "transaction" => k \in readSet'[c]
      BY <1>r, <2>2 DEF ReadRight
    <3>2. View'[k] = View[k] /\ (Noticed(c, k) => Noticed(c, k)')
      BY <1>r, <1>v, <1>m
    <3> QED
      BY <1>r, <3>1, <3>2
  <2>3. ASSUME pc'[c] = "innerRead", NEW k \in wants'[c]
        PROVE  /\ copies'[k] = None \/ Noticed(c, k)'
               /\ kind'[c] = "transaction" => k \in readSet'[c]
    BY <1>r, <1>m, <2>3
  <2> QED
    BY <1>r, <2>1, <2>2, <2>3 DEF ReadRight
<1>1. ASSUME NEW op, NEW w, Asked(c, op, w), StartWrite(c, op, w) PROVE Goal
  BY <1>1, <1>t, <1>l DEF StartWrite, Goto, readVars, txnObject, txnVars
<1>2. ASSUME NEW ks \in SUBSET Keys, StartGet(c, ks) PROVE Goal
  BY <1>2, <1>t, <1>l DEF StartGet, Goto, txnObject, txnVars
<1>3. CASE StartTransaction(c) \/ Sync(c)
  BY <1>3, <1>t, <1>l DEF StartTransaction, Sync, Goto, readVars, txnObject, txnVars
<1>4. CASE PutShadow(c) \/ DeleteShadow(c) \/ DeleteAllShadow(c) \/ AlarmShadow(c)
  BY <1>4, <1>t, <1>l DEF PutShadow, DeleteShadow, DeleteAllShadow, AlarmShadow, Locked, txnRecordWriteSet,
     Goto, readVars, txnObject, txnVars
<1>5. CASE AlarmRecord(c) \/ Relock(c)
  BY <1>5, <1>t, <1>l DEF AlarmRecord, Relock, txnRecordWriteSet, Goto, readVars, txnObject, txnVars
<1>6. CASE BeginTransaction(c)
  <2>1. pc[c] = "begin" /\ pc'[c] = "closure" /\ observed' = observed /\ startTxnCount'[c] = txnCount /\ txnCount' = txnCount
    BY <1>6, <1>t DEF BeginTransaction, Goto, txnVars
  <2> QED
    BY <1>l, <2>1
<1>7. ASSUME DropTransaction(c), pc'[c] # "innerRead", txnCount' \in Nat PROVE Goal
  <2>1. observed'[c] = Nothing /\ startTxnCount'[c] = 0
    BY <1>7, <1>t DEF DropTransaction
  <2> QED
    BY <1>n, <1>7, <2>1
<1>8. CASE Retry(c) \/ Rollback(c)
  BY <1>7, <1>8, <1>t DEF Retry, Rollback, Settle, Goto, txnVars
<1>9. CASE Commit(c)
  BY <1>7, <1>9, <1>t DEF Commit, txnRecordWriteSet, Goto
<1>10. CASE GetReturns(c)
  <2>1. observed'[c] = Nothing /\ pc'[c] = "done" /\ startTxnCount' = startTxnCount /\ txnCount' = txnCount
    BY <1>10, <1>t DEF GetReturns, Goto, txnObject, txnVars
  <2> QED
    BY <1>f, <1>n, <2>1
<1>11. CASE TxnGetAlarm(c)
  <2>1. /\ UNCHANGED <<inner, copies>> /\ UNCHANGED txnVars /\ UNCHANGED kind /\ UNCHANGED <<observed, wants, pc, startTxnCount>>
        /\ readSet[c] \subseteq readSet'[c] /\ pc[c] = "closure"
    BY <1>11, <1>t DEF TxnGetAlarm, InClosure, storeVars
  <2> QED
    BY <1>r, <2>1
<1>12. CASE FinishClosure(c)
  <2>1. /\ UNCHANGED <<inner, copies>> /\ UNCHANGED txnVars /\ UNCHANGED kind /\ UNCHANGED <<observed, wants, readSet, startTxnCount>>
        /\ pc'[c] = "validate"
    BY <1>12, <1>t DEF FinishClosure, Goto, storeVars
  <2> QED
    BY <1>r, <2>1
<1>13. ASSUME NEW ks \in SUBSET Keys, ReadShadow(c, ks), UNCHANGED <<inner, copies>>, UNCHANGED txnVars, UNCHANGED kind,
              startTxnCount' = startTxnCount, readSet[c] \subseteq readSet'[c],
              kind[c] = "transaction" => ks \subseteq readSet'[c]
       PROVE  Goal
  <2> DEFINE shadowed == {k \in ks : copies[k] # None}
  <2>1. /\ \A k \in Keys : observed'[c][k] = IF k \in shadowed THEN copies[k] ELSE observed[c][k]
        /\ wants'[c] = ks \ shadowed
        /\ pc'[c] \in {"closure", "innerRead"}
    BY <1>13, <1>t DEF ReadShadow, Goto
  <2>2. \A k \in shadowed : k \in Keys /\ copies[k] = View[k]
    BY Views
  <2>3. \A k \in wants'[c] : k \in Keys /\ copies[k] = None /\ k \in ks
    BY <2>1
  <2> QED
    BY <1>r, <1>13, <2>1, <2>2, <2>3
<1>14. ASSUME NEW ks \in SUBSET Keys, TxnGet(c, ks) PROVE Goal
  <2>1. /\ ReadShadow(c, ks) /\ UNCHANGED <<inner, copies>> /\ UNCHANGED txnVars /\ UNCHANGED kind
        /\ startTxnCount' = startTxnCount /\ readSet'[c] = readSet[c] \union ks
    BY <1>14, <1>t DEF TxnGet, storeVars
  <2> QED
    BY <1>13, <2>1
<1>15. CASE Get(c)
  <2>1. /\ ReadShadow(c, wants[c]) /\ UNCHANGED <<inner, copies>> /\ UNCHANGED txnVars /\ UNCHANGED kind
        /\ startTxnCount' = startTxnCount /\ readSet' = readSet /\ kind[c] = "get"
    BY <1>15 DEF Get, storeVars, txnObject
  <2> QED
    BY <1>13, <1>w, <2>1
<1>16. ASSUME NEW k \in Keys, ReadInner(c, k) PROVE Goal
  <2>1. /\ pc[c] = "innerRead" /\ k \in wants[c]
        /\ UNCHANGED <<inner, copies>> /\ UNCHANGED txnVars /\ UNCHANGED kind
        /\ startTxnCount' = startTxnCount /\ readSet' = readSet
        /\ pc'[c] \in {"closure", "innerRead"} /\ wants'[c] = wants[c] \ {k}
        /\ \A n \in Keys : observed'[c][n] = IF n = k THEN inner[k] ELSE observed[c][n]
    BY <1>16, <1>t DEF ReadInner, Goto, storeVars, txnObject
  <2>2. /\ inner[k] = View[k] \/ Noticed(c, k)
        /\ kind[c] = "transaction" => k \in readSet[c]
    BY <2>1, Views DEF ReadRight
  <2>3. \A n \in wants'[c] : n \in Keys /\ (copies[n] = None \/ Noticed(c, n)) /\ (kind[c] = "transaction" => n \in readSet[c])
    BY <1>w, <2>1 DEF ReadRight
  <2> QED
    BY <1>r, <2>1, <2>2, <2>3
<1>17. CASE Flushes(c)
  <2>1. pc[c] \in {"flush", "flushing", "flushRest"} /\ UNCHANGED <<observed, startTxnCount, txnCount>>
    BY <1>17 DEF Flushes, FlushStart, FlushPut, FlushEnd, FlushRejects, FlushDelete, Flushing, readVars, txnObject, txnVars
  <2>2. pc'[c] # "innerRead"
    BY <1>17, <1>t DEF Flushes, FlushStart, FlushPut, FlushEnd, FlushRejects, FlushDelete, Flushing, FinishFlush, Goto, Settle
  <2> QED
    BY <1>l, <2>1, <2>2
<1>18. Start(c) => Goal
  BY Starts, <1>1, <1>2, <1>3
<1>19. Closure(c) => Goal
  BY <1>8, <1>11, <1>12, <1>14 DEF Closure
<1> QED
  BY <1>4, <1>5, <1>6, <1>8, <1>9, <1>10, <1>15, <1>16, <1>17, <1>18, <1>19, Zenon DEF Step, Proceed, Flushes

\* Every step keeps what calls have read current, or a conflict that is noticed.
LEMMA ReadsSteps ==
  ASSUME TypeOK, Lock!IInv, CallsPlaced, FlushMatches, DeletesMatch, ReadsMatch, NEW c \in Calls, Step(c)
  PROVE  ReadsMatch'
<1> SUFFICES ASSUME NEW d \in Calls PROVE ReadRight(d)'
  BY DEF ReadsMatch
<1>1. ReadRight(d)
  BY DEF ReadsMatch
<1> QED
  BY <1>1, ReaderSteps, ReadersKept

-----------------------------------------------------------------------------
(***************************************************************************)
(* The invariant.                                                          *)
(***************************************************************************)
\* The storage starts in the invariant: nothing is called, copied or locked.
LEMMA InitInvariant ==
  ASSUME Init
  PROVE  IInv
<1>1. Lock!IInv
  <2>1. Lock!MutexInit
    BY DEF Init, Mutex!MutexInit, Lock!MutexInit
  <2> QED
    BY <2>1, Lock!InitInvariant, FiniteCalls
<1>2. Pending = {} /\ Cardinality(Pending) = 0
  <2>1. Pending = {}
    BY NoKind DEF Init, Pending, AllKinds
  <2> QED
    BY <2>1, FS_EmptySet
<1>3. CallsPlaced
  BY DEF Init, Mutex!MutexInit, CallsPlaced, Placed
<1>4. TxnTypes /\ DeleteTypes
  BY DEF Init, TxnTypes, DeleteTypes
<1>s. StoreTypes
  <2>1. PICK present \in SUBSET Keys : inner = [k \in AllKeys |-> IF k \in present THEN Initial ELSE Absent]
    BY DEF Init
  <2>2. /\ inner \in [AllKeys -> Stored \union AlarmTimes] /\ inner[AlarmKey] = Absent
        /\ \A k \in Keys : inner[k] \in Stored
    BY <2>1, AlarmKeyReserved DEF AllKeys, Stored, Values
  <2>3. NoEntries \in [AllKeys -> Stored \union {None}] /\ NoEntries[AlarmKey] = None
    BY DEF NoEntries, AllKeys
  <2> QED
    BY <2>2, <2>3 DEF Init, StoreTypes
<1>5. CallTypes
  BY DEF Init, CallTypes, Locs, Nothing
<1>6. TypeOK
  BY <1>1, <1>4, <1>5, <1>s, LockTypes, TypesSplit DEF Init
<1>7. PendingCounted /\ FlushMatches /\ FlushesToCome
  BY <1>2 DEF Init, PendingCounted, FlushMatches, FlushesToCome, InFlush
<1>8. WritesMatch
  BY SentinelsDistinct DEF Init, WritesMatch, Nothing, NoEntries, AllKeys
<1>9. DeletesMatch /\ NoneMissed
  BY DEF Init, DeletesMatch, NoneMissed, KeySets
<1>10. ReadsMatch
  BY DEF Init, ReadsMatch, ReadRight, Nothing
<1> QED
  BY <1>1, <1>3, <1>6, <1>7, <1>8, <1>9, <1>10 DEF IInv

\* Every step of the storage keeps the invariant.
LEMMA StepInvariant ==
  ASSUME IInv, [Next]_vars
  PROVE  IInv'
<1> USE DEF IInv
<1>1. ASSUME NEW c \in Calls, Step(c) PROVE IInv'
  <2>1. Lock!IInv'
    BY <1>1, LockSteps
  <2>2. CallsPlaced' /\ PendingCounted'
    BY <1>1, PlacedSteps, PendingSteps
  <2>3. FlushMatches' /\ FlushesToCome'
    BY <1>1, FlushMatchesSteps, FlushesToComeSteps
  <2>4. WritesMatch' /\ DeletesMatch' /\ NoneMissed' /\ ReadsMatch'
    BY <1>1, WritesSteps, DeletesSteps, ReadsSteps
  <2>5. pendingFlushes' \in Nat
    <3>1. Pending' \subseteq Calls
      BY DEF Pending
    <3>2. Cardinality(Pending') \in Nat
      BY <3>1, CallsFinite, FS_Subset, FS_CardinalityType
    <3> QED
      BY <2>2, <3>2 DEF PendingCounted
  <2>6. CallTypes' /\ StoreTypes' /\ TxnTypes' /\ DeleteTypes'
    BY <1>1, OwnSteps, StoreTypesSteps, TxnTypesSteps, DeleteTypesSteps
  <2>7. Mutex!MutexTypeOK'
    BY <2>1 DEF Lock!IInv, Lock!MutexTypeOK, Mutex!MutexTypeOK, Lock!Phases, Mutex!Phases
  <2>8. TypeOK'
    BY <2>5, <2>6, <2>7 DEF TypeOK, CallTypes, StoreTypes, TxnTypes, DeleteTypes
  <2> QED
    BY <2>1, <2>2, <2>3, <2>4, <2>8
<1>2. CASE UNCHANGED vars
  <2>1. Lock!IInv'
    BY <1>2, LockRests DEF vars
  <2>2. TypeOK'
    BY <1>2 DEF TypeOK, Mutex!MutexTypeOK, vars, mutexVars, storeVars, txnVars, delVars, flushVars, readVars, txnObject
  <2>3. CallsPlaced' /\ PendingCounted' /\ FlushMatches' /\ FlushesToCome'
    BY <1>2 DEF vars, mutexVars, storeVars, txnVars, delVars, flushVars, readVars, txnObject,
       CallsPlaced, PendingCounted, Pending, FlushMatches, FlushesToCome, InFlush
  <2>4. WritesMatch' /\ DeletesMatch' /\ NoneMissed'
    BY <1>2 DEF vars, storeVars, delVars, flushVars, WritesMatch, DeletesMatch, NoneMissed, KeySets
  <2>5. ReadsMatch'
    BY <1>2 DEF vars, storeVars, txnVars, readVars, txnObject, ReadsMatch, ReadRight, View, Noticed
  <2> QED
    BY <2>1, <2>2, <2>3, <2>4, <2>5
<1> QED
  BY <1>1, <1>2, Zenon DEF Next, Step

\* The invariant holds of every behaviour of the storage.
THEOREM InductiveInvariant == Spec => []IInv
<1>1. Init => IInv
  BY InitInvariant
<1>2. IInv /\ [Next]_vars => IInv'
  BY StepInvariant
<1> QED
  BY <1>1, <1>2, PTL DEF Spec

\* The storage's maps, sets and counters hold what they are for, and the lock
\* under it too.
THEOREM TypeCorrect == Spec => []TypeOK
<1>1. IInv => TypeOK
  BY DEF IInv
<1> QED
  BY <1>1, InductiveInvariant, PTL

\* flush() asks whether its entries can change while it awaits the inner
\* storage: they cannot, whoever else uses the storage meanwhile.
THEOREM CopiesAreStable == Spec => []CopiesStableDuringFlush
<1>1. IInv => CopiesStableDuringFlush
  BY DEF IInv, FlushMatches, CopiesStableDuringFlush, InFlush
<1> QED
  BY <1>1, InductiveInvariant, PTL

\* A put that has returned is not in the shadow copies any more: the inner
\* storage has it, or a later write of the key.
THEOREM ReturnedWritesAreDurable == Spec => []ReturnedWriteIsDurable
<1>1. IInv => ReturnedWriteIsDurable
  BY DEF IInv, WritesMatch, ReturnedWriteIsDurable
<1> QED
  BY <1>1, InductiveInvariant, PTL

\* When the last pending write returns and wakes sync(), every write has
\* returned and nothing is left to flush, unless a flush failed.
THEOREM SyncWaitsForWrites == Spec => SyncIsDurable
<1>1. ASSUME IInv, [Next]_vars,
             NEW s \in Calls, pc[s] = "syncing", pc'[s] = "synced"
      PROVE  /\ \A c \in Calls : kind[c] \in WriteKinds => pc'[c] \in ReturnedLocs
             /\ ~ failed' => copies' = NoEntries /\ alarm' = None
  <2>1. IInv'
    BY <1>1, StepInvariant
  <2>2. PICK c \in Calls : Step(c)
    <3>1. ~ UNCHANGED vars
      BY <1>1 DEF vars
    <3> QED
      BY <1>1, <3>1, Zenon DEF Next, Step
  <2>3. Synced(s)
    <3>1. pc[c] # "syncing"
      <4>1. pc[c] \in {"flush", "flushing", "flushRest"} \/ ~ Flushes(c)
        BY DEF Flushes, FlushStart, FlushPut, FlushEnd, FlushRejects, FlushDelete, Flushing
      <4> QED
        BY <1>1, <2>2, <4>1, StepKinds, WritesMove DEF IInv, Quiet
    <3> QED
      BY <1>1, <2>2, <3>1, OwnSteps DEF IInv
  <2>4. Ends(c)
    <3>1. Begins(c) \/ Continues(c) \/ Ends(c)
      BY <1>1, <2>2, PendingMoves DEF IInv
    <3> QED
      BY <2>3, <3>1 DEF Synced, Begins, Continues
  <2>5. \A d \in Calls : kind'[d] = kind[d]
    BY <1>1, <2>2, <2>4, OwnSteps DEF Rests, Ends, IInv
  <2>6. Pending' = {}
    <3>1. IsFiniteSet(Pending') /\ Cardinality(Pending') = 0
      <4>1. Pending' \subseteq Calls
        BY DEF Pending
      <4> QED
        BY <2>1, <2>3, <4>1, CallsFinite, FS_Subset DEF IInv, PendingCounted, Synced
    <3> QED
      BY <3>1, FS_EmptySet
  <2>7. \A d \in Calls : kind'[d] \in WriteKinds => pc'[d] \in ReturnedLocs
    BY <2>6 DEF Pending
  <2>8. \A d \in Calls : pc'[d] \in ToFlush => kind'[d] \in WriteKinds /\ pc'[d] \notin ReturnedLocs
    BY <2>1 DEF IInv, CallsPlaced, Placed, ToFlush, ReturnedLocs, SimpleKinds, WriteKinds
  <2>9. ~ failed' => copies' = NoEntries /\ alarm' = None
    BY <2>1, <2>7, <2>8 DEF IInv, FlushesToCome
  <2> QED
    BY <2>5, <2>7, <2>9
<1>2. IInv /\ [Next]_vars =>
        [\A s \in Calls : pc[s] = "syncing" /\ pc'[s] = "synced" =>
          /\ \A c \in Calls : kind[c] \in WriteKinds => pc'[c] \in ReturnedLocs
          /\ ~ failed' => copies' = NoEntries /\ alarm' = None]_vars
  BY <1>1
<1> QED
  BY <1>2, InductiveInvariant, PTL DEF Spec, SyncIsDurable

-----------------------------------------------------------------------------
(***************************************************************************)
(* The replies of deletes.                                                 *)
(***************************************************************************)
Deleting(c) == kind[c] = "delete" /\ pc[c] \in AppliedLocs
There(c) == {k \in deletedKeySet[c] : inner[k] # Absent}

\* The cases of Reply.
ReplyIs(c) ==
  /\ ~ Deleting(c) => Reply(c) = None
  /\ Deleting(c) /\ deletedKeySet[c] = {} => Reply(c) = deleted[c]
  /\ Deleting(c) /\ deletedKeySet[c] # {} /\ c \in KeySets => Reply(c) = deleted[c] + Cardinality(There(c))
  /\ Deleting(c) /\ deletedKeySet[c] # {} /\ c \notin KeySets /\ deletedKeyResults[c] # None =>
       Reply(c) = deleted[c] + deletedKeyResults[c]
  /\ Deleting(c) /\ deletedKeySet[c] # {} /\ c \notin KeySets /\ deletedKeyResults[c] = None => Reply(c) = Lost

\* What the reply of a call is in the mapping to the store, place by place.
LEMMA Replies ==
  ASSUME NEW c \in Calls
  PROVE  ReplyIs(c) /\ ReplyIs(c)'
<1>1. ReplyIs(c)
  <2>1. ~ Deleting(c) => Reply(c) = None
    BY DEF Reply, Deleting
  <2>2. Deleting(c) /\ deletedKeySet[c] = {} => Reply(c) = deleted[c]
    BY DEF Reply, Deleting
  <2>3. Deleting(c) /\ deletedKeySet[c] # {} /\ c \in KeySets =>
          Reply(c) = deleted[c] + Cardinality(There(c))
    BY DEF Reply, Deleting, There, KeySets
  <2>4. Deleting(c) /\ deletedKeySet[c] # {} /\ c \notin KeySets /\ deletedKeyResults[c] # None =>
          Reply(c) = deleted[c] + deletedKeyResults[c]
    BY DEF Reply, Deleting, KeySets
  <2>5. Deleting(c) /\ deletedKeySet[c] # {} /\ c \notin KeySets /\ deletedKeyResults[c] = None =>
          Reply(c) = Lost
    BY DEF Reply, Deleting, KeySets
  <2> QED
    BY <2>1, <2>2, <2>3, <2>4, <2>5 DEF ReplyIs
<1>2. ReplyIs(c)'
  <2>1. ~ Deleting(c)' => Reply(c)' = None
    BY DEF Reply, Deleting
  <2>2. Deleting(c)' /\ deletedKeySet'[c] = {} => Reply(c)' = deleted'[c]
    BY DEF Reply, Deleting
  <2>3. Deleting(c)' /\ deletedKeySet'[c] # {} /\ c \in KeySets' =>
          Reply(c)' = deleted'[c] + Cardinality(There(c)')
    BY DEF Reply, Deleting, There, KeySets
  <2>4. Deleting(c)' /\ deletedKeySet'[c] # {} /\ c \notin KeySets' /\ deletedKeyResults'[c] # None =>
          Reply(c)' = deleted'[c] + deletedKeyResults'[c]
    BY DEF Reply, Deleting, KeySets
  <2>5. Deleting(c)' /\ deletedKeySet'[c] # {} /\ c \notin KeySets' /\ deletedKeyResults'[c] = None =>
          Reply(c)' = Lost
    BY DEF Reply, Deleting, KeySets
  <2> QED
    BY <2>1, <2>2, <2>3, <2>4, <2>5 DEF ReplyIs
<1> QED
  BY <1>1, <1>2

\* No assertion of flush() or delete() fails unless the inner storage does.
THEOREM AssertionsNeverFail == Spec => []AssertionsHold
<1>1. ASSUME IInv PROVE AssertionsHold
  <2>1. copies = NoEntries => deletedKeySets = {}
    BY <1>1 DEF IInv, NoneMissed
  <2>2. ASSUME ~ failed, NEW c \in Calls PROVE Reply(c) # Lost
    <3>1. deletedKeySet[c] # {} => c \in KeySets \/ deletedKeyResults[c] # None
      BY <1>1, <2>2 DEF IInv, NoneMissed
    <3>2. /\ deleted[c] \in Nat /\ deletedKeyResults[c] \in Nat \union {None}
          /\ deletedKeySet[c] \subseteq Keys
      BY <1>1 DEF IInv, TypeOK
    <3>3. Cardinality(There(c)) \in Nat
      BY <3>2, KeysFinite, FS_Subset, FS_CardinalityType DEF There
    <3>4. Reply(c) \in Nat \union {None}
      BY <3>1, <3>2, <3>3, Replies DEF ReplyIs
    <3> QED
      BY <3>4, SentinelsDistinct
  <2> QED
    BY <1>1, <2>1, <2>2 DEF AssertionsHold, IInv, NoneMissed
<1> QED
  BY <1>1, InductiveInvariant, PTL

\* A reply depends on what the delete has, on its key set and, while that is
\* to be deleted, on the inner storage.
LEMMA ReplySame ==
  ASSUME NEW d \in Calls,
         Deleting(d) <=> Deleting(d)',
         deleted'[d] = deleted[d], deletedKeySet'[d] = deletedKeySet[d],
         deletedKeyResults'[d] = deletedKeyResults[d], d \in KeySets' <=> d \in KeySets,
         d \in KeySets => \A k \in deletedKeySet[d] : inner'[k] = inner[k]
  PROVE  Reply(d)' = Reply(d)
<1>1. d \in KeySets => There(d)' = There(d)
  BY DEF There
<1> QED
  BY <1>1, Replies DEF ReplyIs

\* A delete that returns adds up what it replied all along.
LEMMA ReplyFinished ==
  ASSUME TypeOK, DeletesMatch, KeySets = {}, NEW c \in Calls, Step(c), FinishFlush(c),
         UNCHANGED <<kind, deletedKeySets, flushSets>>, pc[c] \in {"flush", "flushRest"}, NEW d \in Calls
  PROVE  Reply(d)' = Reply(d)
<1>t. pc \in [Calls -> Locs] /\ deletedKeyResults \in [Calls -> Nat \union {None}]
      /\ deletedKeySet \in [Calls -> SUBSET Keys] /\ deleted \in [Calls -> Nat]
  BY DEF TypeOK
<1>k. KeySets' = {} /\ deletedKeyResults' = [deletedKeyResults EXCEPT ![c] = None]
  BY DEF KeySets, FinishFlush
<1>1. CASE d # c
  <2>1. Rests(d) /\ (pc'[d] = pc[d] \/ Synced(d))
    BY <1>1, OwnSteps
  <2>2. Deleting(d) <=> Deleting(d)'
    BY <2>1 DEF Deleting, Rests, Synced, AppliedLocs
  <2> QED
    BY <1>1, <1>k, <1>t, <2>1, <2>2, ReplySame DEF Rests
<1>2. CASE d = c
  <2>1. CASE /\ kind[c] = "delete" /\ deletedKeySet[c] # {} /\ deletedKeyResults[c] # None
             /\ deleted' = [deleted EXCEPT ![c] = @ + deletedKeyResults[c]]
             /\ deletedKeySet' = [deletedKeySet EXCEPT ![c] = {}]
             /\ Settle(c, "done")
    <3>1. deleted'[c] = deleted[c] + deletedKeyResults[c] /\ deletedKeySet'[c] = {} /\ Deleting(c) /\ Deleting(c)'
      BY <1>t, <2>1 DEF Settle, Deleting, AppliedLocs
    <3> QED
      BY <1>2, <2>1, <3>1, Replies DEF ReplyIs
  <2>2. CASE /\ kind[c] = "delete" /\ deletedKeySet[c] # {} /\ deletedKeyResults[c] = None
             /\ Settle(c, "rejected") /\ UNCHANGED <<deleted, deletedKeySet>>
    <3>1. Deleting(c) /\ Deleting(c)' /\ deletedKeyResults'[c] = None
      BY <1>t, <1>k, <2>2 DEF Settle, Deleting, AppliedLocs
    <3> QED
      BY <1>2, <1>k, <2>2, <3>1, Replies DEF ReplyIs
  <2>3. CASE ~ (kind[c] = "delete" /\ deletedKeySet[c] # {}) /\ Settle(c, "done") /\ UNCHANGED <<deleted, deletedKeySet>>
    <3>1. deletedKeySet[c] = {} /\ (Deleting(c) <=> Deleting(c)')
      BY <1>t, <2>3 DEF Settle, Deleting, AppliedLocs, DeletesMatch
    <3> QED
      BY <1>2, <2>3, <3>1, Replies DEF ReplyIs
  <2> QED
    BY <2>1, <2>2, <2>3, Zenon DEF FinishFlush
<1> QED
  BY <1>1, <1>2

\* The other calls, as their replies see them.
LEMMA OthersReply ==
  ASSUME TypeOK, NEW c \in Calls, Step(c), NEW d \in Calls \ {c}
  PROVE  /\ pc'[d] \in AppliedLocs <=> pc[d] \in AppliedLocs
         /\ Deleting(d) <=> Deleting(d)'
         /\ deleted'[d] = deleted[d] /\ deletedKeySet'[d] = deletedKeySet[d]
         /\ observed'[d] = observed[d] /\ written'[d] = written[d]
<1>1. Rests(d) /\ (pc'[d] = pc[d] \/ Synced(d))
  BY OwnSteps
<1> QED
  BY <1>1 DEF Rests, Synced, AppliedLocs, Deleting

\* A flush that works neither applies calls nor changes replies.
LEMMA FlushesReply ==
  ASSUME IInv, NEW c \in Calls, Flushes(c), ~ FlushRejects(c), NEW d \in Calls
  PROVE  Reply(d)' = Reply(d) /\ (pc'[d] \in AppliedLocs <=> pc[d] \in AppliedLocs)
<1>t. pc \in [Calls -> Locs] /\ deletedKeyResults \in [Calls -> Nat \union {None}]
      /\ deletedKeySet \in [Calls -> SUBSET Keys] /\ inner \in [AllKeys -> Stored \union AlarmTimes]
      /\ flushSets \subseteq Calls
  BY DEF IInv, TypeOK
<1>k. \A e \in Calls : \A k \in deletedKeySet[e] : k \in AllKeys /\ k # AlarmKey
  BY <1>t, AlarmKeyReserved DEF AllKeys
<1>s. Step(c)
  BY DEF Step, Proceed, Flushes
<1>a. \* The flushing call has taken effect before.
      pc[c] \in AppliedLocs /\ pc'[c] \in AppliedLocs
  BY <1>t DEF Flushes, FlushStart, FlushPut, FlushEnd, FlushDelete, FlushRejects, Flushing, FinishFlush, Goto, Settle, AppliedLocs
<1>b. pc'[d] \in AppliedLocs <=> pc[d] \in AppliedLocs
  BY <1>s, <1>a, OthersReply DEF IInv
<1>e. ASSUME kind' = kind, UNCHANGED <<deleted, deletedKeySet>>, deletedKeyResults'[d] = deletedKeyResults[d],
             d \in KeySets' <=> d \in KeySets,
             d \in KeySets => \A k \in deletedKeySet[d] : inner'[k] = inner[k]
      PROVE  Reply(d)' = Reply(d)
  <2>1. Deleting(d) <=> Deleting(d)'
    BY <1>b, <1>e DEF Deleting
  <2> QED
    BY <1>e, <2>1, ReplySame
<1>n. \A e \in Calls \ {c} : ~ InFlush(e)
  BY WritesLocked, FlushAlone DEF IInv
<1>1. CASE FlushStart(c)
  <2>1. pc[c] = "flush" /\ UNCHANGED kind
        /\ inner' = [inner EXCEPT ![AlarmKey] = IF alarm = None THEN @ ELSE alarm]
    BY <1>1 DEF FlushStart, Flushing
  <2>2. flushSets = {}
    BY <1>n, <2>1 DEF IInv, FlushMatches, InFlush
  <2>3. \A e \in Calls : \A k \in deletedKeySet[e] : inner'[k] = inner[k]
    BY <1>k, <1>t, <2>1
  <2>4. CASE copies = NoEntries
    <3>1. FinishFlush(c) /\ UNCHANGED <<deletedKeySets, flushSets>>
      BY <1>1, <2>4 DEF FlushStart, flushVars
    <3>2. KeySets = {}
      BY <2>2, <2>4 DEF KeySets, NoneMissed, IInv
    <3> QED
      BY <1>s, <1>b, <2>1, <3>1, <3>2, ReplyFinished DEF IInv
  <2>5. CASE copies # NoEntries
    <3>1. /\ flushSets' = deletedKeySets /\ deletedKeySets' = {} /\ UNCHANGED <<deletedKeyResults, deleted, deletedKeySet>>
      BY <1>1, <2>5 DEF FlushStart
    <3>2. KeySets' = KeySets
      BY <2>2, <3>1 DEF KeySets
    <3> QED
      BY <1>b, <1>e, <2>1, <2>3, <3>1, <3>2
  <2> QED
    BY <2>4, <2>5
<1>2. CASE FlushPut(c)
  <2>1. pc[c] = "flushing" /\ flushSets = {} /\ UNCHANGED <<kind, deleted, deletedKeySet, deletedKeyResults, deletedKeySets, flushSets>>
    BY <1>2 DEF FlushPut, Flushing, delVars, flushVars
  <2>2. deletedKeySets = {}
    BY <2>1 DEF IInv, FlushMatches, InFlush
  <2> QED
    BY <1>b, <1>e, <2>1, <2>2 DEF KeySets
<1>3. ASSUME NEW e \in Calls, FlushDelete(c, e) PROVE Reply(d)' = Reply(d)
  <2>1. /\ e \in flushSets /\ flushSets' = flushSets \ {e} /\ InFlush(c)
        /\ UNCHANGED <<kind, pc, deleted, deletedKeySet, deletedKeySets>>
        /\ deletedKeyResults' = [deletedKeyResults EXCEPT ![e] = Cardinality(There(e))]
        /\ inner' = [k \in AllKeys |-> IF k \in deletedKeySet[e] THEN Absent ELSE inner[k]]
    BY <1>3 DEF FlushDelete, Flushing, InFlush, There
  <2>2. KeySets' = KeySets \ {e} /\ e \in KeySets
    BY <2>1 DEF KeySets, IInv, FlushMatches
  <2>3. CASE d # e
    <3>1. \A k \in deletedKeySet[d] : d \in KeySets => k \notin deletedKeySet[e]
      BY <2>2, <2>3 DEF IInv, DeletesMatch
    <3>2. d \in KeySets => \A k \in deletedKeySet[d] : inner'[k] = inner[k]
      BY <1>k, <2>1, <3>1
    <3>3. deletedKeyResults'[d] = deletedKeyResults[d]
      BY <1>t, <2>1, <2>3
    <3> QED
      BY <1>e, <2>1, <2>2, <2>3, <3>2, <3>3
  <2>4. CASE d = e
    <3>1. deletedKeyResults'[e] = Cardinality(There(e)) /\ Cardinality(There(e)) # None
      <4>1. Cardinality(There(e)) \in Nat
        BY <1>t, KeysFinite, FS_Subset, FS_CardinalityType DEF There
      <4> QED
        BY <1>t, <2>1, <4>1, SentinelsDistinct
    <3>2. /\ deletedKeySet[e] # {} /\ deletedKeySet'[e] = deletedKeySet[e] /\ deleted'[e] = deleted[e]
          /\ e \in KeySets /\ e \notin KeySets' /\ (Deleting(e) <=> Deleting(e)')
      BY <1>b, <2>1, <2>2, <2>4 DEF IInv, DeletesMatch, Deleting
    <3> QED
      BY <2>4, <3>1, <3>2, Replies DEF ReplyIs
  <2> QED
    BY <2>3, <2>4
<1>4. CASE FlushEnd(c)
  <2>1. KeySets = {} /\ pc[c] = "flushRest" /\ FinishFlush(c) /\ UNCHANGED <<kind, deletedKeySets, flushSets>>
    BY <1>4, FlushClears DEF IInv
  <2> QED
    BY <1>s, <1>b, <2>1, ReplyFinished DEF IInv
<1> QED
  BY <1>b, <1>1, <1>2, <1>3, <1>4 DEF Flushes

\* A flush that fails loses replies, and changes no other.
LEMMA RejectsReply ==
  ASSUME IInv, NEW c \in Calls, FlushRejects(c), NEW d \in Calls
  PROVE  /\ Reply(d)' = Reply(d) \/ (Reply(d)' = Lost /\ pc[d] \in AppliedLocs)
         /\ pc'[d] \in AppliedLocs <=> pc[d] \in AppliedLocs
<1>t. pc \in [Calls -> Locs] /\ deletedKeySet \in [Calls -> SUBSET Keys] /\ inner \in [AllKeys -> Stored \union AlarmTimes]
  BY DEF IInv, TypeOK
<1>k. \A k \in deletedKeySet[d] : k \in AllKeys /\ k # AlarmKey
  BY <1>t, AlarmKeyReserved DEF AllKeys
<1>s. Step(c) /\ Flushes(c)
  BY DEF Step, Proceed, Flushes
<1>1. /\ flushSets' = {} /\ Settle(c, "rejected") /\ pc[c] \in {"flush", "flushing", "flushRest"}
      /\ UNCHANGED <<deletedKeySets, deletedKeyResults, deleted, deletedKeySet, kind>>
  BY DEF FlushRejects, Flushing, delVars
<1>a. pc[c] \in AppliedLocs /\ pc'[c] \in AppliedLocs
  BY <1>1, <1>t DEF Settle, AppliedLocs
<1>b. pc'[d] \in AppliedLocs <=> pc[d] \in AppliedLocs
  BY <1>s, <1>a, OthersReply DEF IInv
<1>2. CASE d \in KeySets /\ d \notin KeySets'
  <2>1. /\ deletedKeySet'[d] # {} /\ deletedKeyResults'[d] = None
        /\ pc[d] \in AppliedLocs
    BY <1>1, <1>2 DEF IInv, DeletesMatch
  <2>2. Reply(d)' = Lost
    BY <1>1, <1>2, <1>b, <2>1, Replies DEF ReplyIs, IInv, DeletesMatch, Deleting
  <2> QED
    BY <1>b, <2>1, <2>2
<1>3. CASE d \in KeySets' <=> d \in KeySets
  <2>1. ASSUME d \in KeySets PROVE \A k \in deletedKeySet[d] : inner'[k] = inner[k]
    <3>1. ~ InFlush(c)
      BY <1>1, <1>3, <2>1 DEF IInv, FlushMatches, KeySets
    <3>2. inner' = [inner EXCEPT ![AlarmKey] = alarm] \/ inner' = inner
      BY <3>1 DEF FlushRejects, Flushing, InFlush
    <3> QED
      BY <1>k, <1>t, <3>2
  <2>2. Deleting(d) <=> Deleting(d)'
    BY <1>1, <1>b DEF Deleting
  <2>3. Reply(d)' = Reply(d)
    BY <1>1, <1>3, <2>1, <2>2, ReplySame
  <2> QED
    BY <1>b, <2>3
<1> QED
  BY <1>1, <1>2, <1>3 DEF KeySets

\* A write that is not a delete replies nothing, and no reply of others.
LEMMA WritesReply ==
  ASSUME IInv, NEW c \in Calls, Writes(c), ~ DeleteShadow(c), NEW d \in Calls
  PROVE  Reply(d)' = Reply(d)
<1>1. /\ UNCHANGED <<deleted, deletedKeySet, deletedKeySets, deletedKeyResults, flushSets, inner, kind>>
      /\ kind[c] # "delete"
  BY DEF Writes, PutShadow, DeleteAllShadow, AlarmShadow, AlarmRecord, Commit, Locked, Validating,
     delVars, flushVars, storeVars, IInv, CallsPlaced, Placed
<1>2. Step(c)
  BY DEF Step, Proceed, Writes
<1>3. Deleting(d) <=> Deleting(d)'
  <2>1. CASE d = c
    BY <1>1, <2>1 DEF Deleting
  <2>2. CASE d # c
    BY <1>2, <2>2, OthersReply DEF IInv
  <2> QED
    BY <2>1, <2>2
<1> QED
  BY <1>1, <1>3, ReplySame DEF KeySets

\* A delete counts the keys that were there: the ones it knows of, and the
\* ones its key set will find.
LEMMA DeleteReply ==
  ASSUME IInv, NEW c \in Calls, DeleteShadow(c)
  PROVE  /\ \A d \in Calls \ {c} : Reply(d)' = Reply(d)
         /\ Reply(c)' = Cardinality({k \in Keys : written[c][k] = Absent /\ View[k] # Absent})
<1>t. pc \in [Calls -> Locs] /\ deletedKeyResults \in [Calls -> Nat \union {None}]
      /\ deletedKeySet \in [Calls -> SUBSET Keys] /\ deleted \in [Calls -> Nat]
  BY DEF IInv, TypeOK
<1>s. Step(c)
  BY DEF Step, Proceed
<1> DEFINE shadowed == {k \in writeSet(c) : copies[k] # None}
           unknown == writeSet(c) \ shadowed
           known == {k \in shadowed : copies[k] # Absent}
           found == {k \in unknown : inner[k] # Absent}
           removed == {k \in Keys : written[c][k] = Absent /\ View[k] # Absent}
<1>1. /\ deleted' = [deleted EXCEPT ![c] = Cardinality(known)]
      /\ deletedKeySet' = [deletedKeySet EXCEPT ![c] = unknown]
      /\ deletedKeySets' = deletedKeySets \union {d \in {c} : unknown # {}}
      /\ UNCHANGED <<inner, flushSets, deletedKeyResults, kind>>
      /\ pc[c] = "locked" /\ kind[c] = "delete" /\ pc'[c] = "yield"
  BY <1>t DEF DeleteShadow, Locked, Goto, flushVars
<1>2. ASSUME NEW d \in Calls \ {c} PROVE Reply(d)' = Reply(d)
  <2>1. d \in KeySets' <=> d \in KeySets
    BY <1>1 DEF KeySets
  <2> QED
    BY <1>1, <1>s, <2>1, OthersReply, ReplySame DEF IInv
<1>3. deleted'[c] = Cardinality(known) /\ deletedKeySet'[c] = unknown /\ Deleting(c)'
  BY <1>1, <1>t DEF Deleting, AppliedLocs
<1>4. known \subseteq Keys /\ found \subseteq Keys /\ IsFiniteSet(known) /\ IsFiniteSet(found)
  BY KeysFinite, FS_Subset DEF writeSet
<1>5. known \union found = removed
  <2>1. \A k \in writeSet(c) : k \in Keys /\ written[c][k] = Absent
    BY <1>1 DEF writeSet, IInv, WritesMatch
  <2>2. \A k \in removed : k \in writeSet(c)
    BY SentinelsDistinct DEF writeSet
  <2>3. \A k \in writeSet(c) : View[k] # Absent <=> k \in known \/ k \in found
    BY <2>1, Views
  <2> QED
    BY <2>1, <2>2, <2>3
<1>6. Cardinality(removed) = Cardinality(known) + Cardinality(found)
  <2>1. known \intersect found = {}
    OBVIOUS
  <2> HIDE DEF known, found, removed
  <2>2. Cardinality(known \union found) = Cardinality(known) + Cardinality(found) - Cardinality(known \intersect found)
    BY <1>4, FS_Union
  <2>3. Cardinality(known \intersect found) = 0 /\ Cardinality(known) \in Nat /\ Cardinality(found) \in Nat
    BY <1>4, <2>1, FS_EmptySet, FS_CardinalityType
  <2> QED
    BY <1>5, <2>2, <2>3
<1>7. CASE unknown = {}
  <2>1. found = {} /\ Cardinality(found) = 0 /\ Cardinality(known) \in Nat
    BY <1>4, <1>7, FS_EmptySet, FS_CardinalityType
  <2> QED
    BY <1>2, <1>3, <1>6, <1>7, <2>1, Replies DEF ReplyIs
<1>8. CASE unknown # {}
  <2>1. c \in KeySets'
    BY <1>1, <1>8 DEF KeySets
  <2>2. There(c)' = found
    BY <1>1, <1>3 DEF There
  <2> QED
    BY <1>2, <1>3, <1>6, <1>8, <2>1, <2>2, Replies DEF ReplyIs
<1> QED
  BY <1>7, <1>8

-----------------------------------------------------------------------------
(***************************************************************************)
(* Every call takes effect in one step.                                    *)
(***************************************************************************)

\* Transaction c commits: nothing that it read has changed.
LEMMA ReadsValid ==
  ASSUME IInv, NEW c \in Calls, Commit(c), NEW k \in Keys, observed[c][k] # None
  PROVE  observed[c][k] = View[k]
<1>1. k \in readSet[c] /\ kind[c] = "transaction"
  <2>1. kind[c] = "transaction"
    BY DEF Commit, Validating, IInv, CallsPlaced, Placed
  <2> QED
    BY <2>1 DEF IInv, ReadsMatch, ReadRight
<1>2. ~ Noticed(c, k)
  <2>1. ~ Conflicts(c)
    BY DEF Commit
  <2> QED
    BY <1>1, <2>1 DEF Conflicts, Noticed
<1> QED
  BY <1>2 DEF IInv, ReadsMatch, ReadRight

\* What the step does in which a write takes effect.
LEMMA WriteApplies ==
  ASSUME IInv, NEW c \in Calls, Writes(c), ~ AlarmShadow(c)
  PROVE  /\ pc[c] \notin AppliedLocs /\ pc'[c] \in AppliedLocs
         /\ \A k \in Keys : observed[c][k] # None => observed[c][k] = View[k]
         /\ \A k \in Keys : View'[k] = IF written[c][k] = None THEN View[k] ELSE written[c][k]
<1>t. pc \in [Calls -> Locs]
  BY DEF IInv, TypeOK
<1>s. None # Absent /\ Keys \subseteq AllKeys
  BY SentinelsDistinct DEF AllKeys
<1>1. pc[c] \notin AppliedLocs /\ pc'[c] \in AppliedLocs
  BY <1>t DEF Writes, PutShadow, DeleteShadow, DeleteAllShadow, AlarmShadow, AlarmRecord, Commit, Locked, Validating, Goto, AppliedLocs
<1>2. ASSUME NEW k \in Keys, observed[c][k] # None PROVE observed[c][k] = View[k]
  <2>1. CASE Commit(c)
    BY <1>2, <2>1, ReadsValid
  <2>2. CASE ~ Commit(c)
    <3>1. pc[c] \in {"locked", "alarmSet"}
      BY <2>2 DEF Writes, PutShadow, DeleteShadow, DeleteAllShadow, AlarmShadow, AlarmRecord, Locked
    <3>2. observed[c] = Nothing
      BY <3>1 DEF IInv, ReadsMatch, ReadRight
    <3> QED
      BY <1>2, <3>2 DEF Nothing
  <2> QED
    BY <2>1, <2>2
<1>3. ASSUME NEW k \in Keys PROVE View'[k] = IF written[c][k] = None THEN View[k] ELSE written[c][k]
  <2>1. CASE PutShadow(c) \/ DeleteShadow(c) \/ Commit(c)
    <3>1. copies' = Overwritten(c) /\ inner' = inner
      BY <2>1 DEF PutShadow, DeleteShadow, Commit
    <3> QED
      BY <1>s, <3>1, Views DEF Overwritten, writeSet
  <2>2. CASE DeleteAllShadow(c)
    <3>1. /\ copies' = [n \in AllKeys |-> IF n \in {m \in AllKeys : View[m] # Absent} THEN Absent ELSE copies[n]]
          /\ inner' = inner /\ pc[c] = "locked" /\ kind[c] = "deleteAll"
      BY <2>2 DEF DeleteAllShadow, Locked
    <3>2. written[c][k] = Absent
      BY <3>1 DEF IInv, WritesMatch
    <3> QED
      BY <1>s, <3>1, <3>2, Views
  <2>3. CASE AlarmRecord(c)
    <3>1. copies' = copies /\ inner' = inner /\ pc[c] = "alarmSet"
      BY <2>3 DEF AlarmRecord, storeVars
    <3>2. written[c] = Nothing
      BY <3>1 DEF IInv, WritesMatch
    <3> QED
      BY <3>1, <3>2, Views DEF Nothing
  <2> QED
    BY <2>1, <2>2, <2>3 DEF Writes
<1> QED
  BY <1>1, <1>2, <1>3

\* What SerialStore sees of the storage.
Store   == [k \in Keys |-> View[k]]
Applied == {c \in Calls : pc[c] \in AppliedLocs}
Given   == [c \in Calls |-> Reply(c)]

\* The storage starts as a store on which no call was made.
LEMMA SerialInit ==
  ASSUME Init
  PROVE  Serial!Init
<1>1. IInv
  BY InitInvariant
<1>2. Store \in [Keys -> Values \union {Absent}]
  <2>1. \A k \in Keys : inner[k] \in Stored /\ copies[k] = None
    BY DEF Init, NoEntries, AllKeys, Stored, Values
  <2> QED
    BY <2>1, Views DEF Store, Stored
<1>3. Applied = {}
  BY DEF Init, Applied, AppliedLocs
<1>4. Given = [c \in Calls |-> None]
  BY Replies DEF Init, Given, ReplyIs, Deleting, AppliedLocs
<1> QED
  BY <1>2, <1>3, <1>4 DEF Init, Serial!Init, Store, Applied, Given, Nothing

\* Every step of the storage is one of the store, or changes nothing there.
LEMMA SerialSteps ==
  ASSUME IInv, [Next]_vars
  PROVE  [Serial!Next]_(Serial!vars)
<1> DEFINE Goal == Serial!Next \/ UNCHANGED <<Store, observed, written, Applied, Given>>
<1>g. Goal => [Serial!Next]_(Serial!vars)
  BY DEF Serial!vars, Store, Applied, Given
<1>1. ASSUME NEW c \in Calls, Step(c) PROVE Goal
  <2>t. TypeOK /\ observed \in [Calls -> [Keys -> Stored \union {None}]]
    BY DEF IInv, TypeOK
  <2>o. \A d \in Calls \ {c} : /\ pc'[d] \in AppliedLocs <=> pc[d] \in AppliedLocs
                               /\ observed'[d] = observed[d] /\ written'[d] = written[d]
    BY <1>1, OthersReply DEF IInv
  <2>p. \* A step that only prepares.
        ASSUME \A k \in Keys : View'[k] = View[k], \A d \in Calls : Reply(d)' = Reply(d),
               pc'[c] \in AppliedLocs <=> pc[c] \in AppliedLocs
        PROVE  Goal
    <3>1. Store' = Store /\ Applied' = Applied /\ Given' = Given
      BY <2>o, <2>p DEF Store, Applied, Given
    <3>2. Serial!Others(c)
      BY <2>o DEF Serial!Others
    <3>3. Serial!Prepare(c)
      BY <3>1, <3>2 DEF Serial!Prepare, Store, Applied, Given
    <3> QED
      BY <3>3 DEF Serial!Next
  <2>a. \* The step in which call c takes effect.
        ASSUME pc[c] \notin AppliedLocs, pc'[c] \in AppliedLocs,
               \A k \in Keys : observed[c][k] # None => observed[c][k] = View[k],
               \A k \in Keys : View'[k] = IF written[c][k] = None THEN View[k] ELSE written[c][k],
               \A d \in Calls \ {c} : Reply(d)' = Reply(d),
               Reply(c)' = Reply(c) \/
                 Reply(c)' = Cardinality({k \in Keys : written[c][k] = Absent /\ View[k] # Absent})
        PROVE  Goal
    <3> DEFINE removed == {k \in Keys : written[c][k] = Absent /\ View[k] # Absent}
    <3>1. c \notin Applied /\ Applied' = Applied \union {c}
      BY <2>o, <2>a DEF Applied
    <3>2. Store' = [k \in Keys |-> IF written[c][k] = None THEN Store[k] ELSE written[c][k]]
      BY <2>a DEF Store
    <3>3. \A k \in Keys : observed[c][k] # None => observed[c][k] = Store[k]
      BY <2>a DEF Store
    <3>4. Given' = Given \/ Given' = [Given EXCEPT ![c] = Cardinality(removed)]
      BY <2>a DEF Given
    <3>5. removed = {k \in Keys : written[c][k] = Absent /\ Store[k] # Absent}
      BY DEF Store
    <3>6. Serial!Others(c)
      BY <2>o DEF Serial!Others
    <3>7. \A S : Serial!Cardinality(S) = Cardinality(S)
      BY Zenon DEF Cardinality, Serial!Cardinality
    <3>8. Serial!Apply(c)
      BY <3>1, <3>2, <3>3, <3>4, <3>5, <3>6, <3>7 DEF Serial!Apply, Store, Applied, Given
    <3> QED
      BY <3>8 DEF Serial!Next
  <2>1. CASE Quiet(c)
    <3>1. UNCHANGED <<copies, inner, deletedKeySets, flushSets, deletedKeyResults, deleted, deletedKeySet>>
      BY <2>1 DEF Quiet, storeVars, delVars, flushVars
    <3>2. \A k \in Keys : View'[k] = View[k]
      BY <3>1, Views
    <3>3. Deleting(c) <=> Deleting(c)'
      BY <2>1 DEF Quiet, Deleting, AppliedLocs
    <3>4. ASSUME NEW d \in Calls PROVE Reply(d)' = Reply(d)
      <4>1. Deleting(d) <=> Deleting(d)'
        BY <1>1, <2>t, <3>3, OthersReply
      <4> QED
        BY <3>1, <4>1, ReplySame DEF KeySets
    <3>5. CASE GetReturns(c) /\ pc'[c] = "done" /\ pc[c] \notin AppliedLocs
      <4>1. pc[c] = "closure" /\ kind[c] = "get"
        BY <3>5 DEF GetReturns
      <4>2. \A k \in Keys : written[c][k] = None
        BY <4>1 DEF IInv, WritesMatch, Nothing
      <4>3. \A k \in Keys : observed[c][k] # None => observed[c][k] = View[k]
        BY <4>1 DEF IInv, ReadsMatch, ReadRight, Noticed
      <4>4. pc'[c] \in AppliedLocs
        BY <3>5 DEF AppliedLocs
      <4> QED
        BY <2>a, <3>2, <3>4, <3>5, <4>2, <4>3, <4>4
    <3>6. CASE pc'[c] \in AppliedLocs <=> pc[c] \in AppliedLocs
      BY <2>p, <3>2, <3>4, <3>6
    <3> QED
      BY <2>1, <3>5, <3>6 DEF Quiet, AppliedLocs
  <2>2. CASE AlarmShadow(c)
    <3>1. UNCHANGED <<copies, inner>> /\ pc[c] = "locked" /\ pc'[c] = "alarmSet" /\ Writes(c) /\ ~ DeleteShadow(c)
      BY <2>2, <2>t DEF AlarmShadow, DeleteShadow, Locked, Goto, Writes, TypeOK
    <3>2. \A k \in Keys : View'[k] = View[k]
      BY <3>1, Views
    <3> QED
      BY <2>p, <3>1, <3>2, WritesReply DEF AppliedLocs
  <2>3. CASE Writes(c) /\ ~ AlarmShadow(c)
    <3>1. \A d \in Calls \ {c} : Reply(d)' = Reply(d)
      BY <2>3, WritesReply, DeleteReply
    <3>2. Reply(c)' = Reply(c) \/
            Reply(c)' = Cardinality({k \in Keys : written[c][k] = Absent /\ View[k] # Absent})
      BY <2>3, WritesReply, DeleteReply
    <3> QED
      BY <2>3, <2>a, <3>1, <3>2, WriteApplies
  <2>4. CASE Flushes(c) /\ ~ FlushRejects(c)
    <3>1. \A k \in Keys : View'[k] = View[k]
      BY <2>4, FlushesHidden DEF IInv
    <3> QED
      BY <2>4, <2>p, <3>1, FlushesReply
  <2>5. CASE FlushRejects(c)
    <3>1. Flushes(c) /\ UNCHANGED <<observed, written>>
      BY <2>5 DEF Flushes, FlushRejects, readVars
    <3>2. Store' = Store
      BY <3>1, FlushesHidden DEF IInv, Store
    <3>3. Applied' = Applied
      BY <2>5, RejectsReply DEF Applied
    <3> DEFINE L == {d \in Calls : Reply(d)' # Reply(d)}
    <3>4. L \subseteq Applied /\ \A d \in L : Reply(d)' = Lost
      BY <2>5, RejectsReply DEF Applied
    <3>5. Given' = [d \in Calls |-> IF d \in L THEN Lost ELSE Given[d]]
      BY <3>4 DEF Given
    <3>6. Serial!LoseReplies
      BY <3>1, <3>2, <3>3, <3>4, <3>5 DEF Serial!LoseReplies, Store, Applied, Given
    <3> QED
      BY <3>6 DEF Serial!Next
  <2> QED
    BY <1>1, <2>t, <2>1, <2>2, <2>3, <2>4, <2>5, StepKinds, Zenon
<1>2. ASSUME UNCHANGED vars PROVE Goal
  <2>1. UNCHANGED <<copies, inner, deletedKeySets, flushSets, deletedKeyResults, deleted, deletedKeySet,
                    kind, pc, observed, written>>
    BY <1>2 DEF vars, storeVars, delVars, flushVars, readVars
  <2>2. Store' = Store /\ Applied' = Applied
    BY <2>1, Views DEF Store, Applied
  <2>3. \A d \in Calls : Reply(d)' = Reply(d)
    BY <2>1, ReplySame DEF Deleting, KeySets
  <2> QED
    BY <2>1, <2>2, <2>3 DEF Given
<1> QED
  BY <1>1, <1>2, <1>g, Zenon DEF Next, Step

\* Every call takes effect in one step, however calls, flushes, retries and
\* failing writes interleave: the storage implements SerialStore.
THEOREM CallsAreSerial == Spec => Serializable
<1>1. Init => Serial!Init
  BY SerialInit
<1>2. IInv /\ [Next]_vars => [Serial!Next]_(Serial!vars)
  BY SerialSteps
<1> QED
  BY <1>1, <1>2, InductiveInvariant, PTL DEF Spec, Serializable, Serial!Spec
=============================================================================
