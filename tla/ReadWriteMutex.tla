--------------------------- MODULE ReadWriteMutex ---------------------------
(***************************************************************************)
(* packages/durable-objects/src/rwmutex.ts: the multi-reader single-writer *)
(* lock around a Durable Object's storage.  A client is one call of        *)
(* runWithRead or runWithWrite; it may call again after it returned.       *)
(*                                                                         *)
(* The lock belongs to a queued call from the moment unlock() resolves its *)
(* promise, although the call itself resumes in a later microtask: nobody  *)
(* else can take the lock in between, so "reading" and "writing" start     *)
(* at the resolve.  unlock() resolves all queued readers at once, so their *)
(* queue is a set; the writers' queue is served in order.                  *)
(***************************************************************************)
EXTENDS Naturals, Sequences, FiniteSets

CONSTANT Clients      \* the calls that use the lock

ASSUME ClientsFinite == IsFiniteSet(Clients)

VARIABLES
  readLockCount,      \* number of read locks held
  writeLocked,        \* whether the write lock is held
  readResolveQueue,   \* clients waiting for the read lock
  writeResolveQueue,  \* clients waiting for the write lock, in order
  phase               \* where each client is in runWithRead / runWithWrite

mutexVars == <<readLockCount, writeLocked, readResolveQueue, writeResolveQueue, phase>>

Phases == {"idle", "readQueued", "writeQueued", "reading", "writing"}

MutexInit ==
  /\ readLockCount = 0
  /\ writeLocked = FALSE
  /\ readResolveQueue = {}
  /\ writeResolveQueue = <<>>
  /\ phase = [c \in Clients |-> "idle"]

-----------------------------------------------------------------------------
\* Mutant of readLock: queued writers are not given precedence.
readLockBarging(c) ==
  /\ phase[c] = "idle"
  /\ \/ /\ ~writeLocked
        /\ readLockCount' = readLockCount + 1
        /\ phase' = [phase EXCEPT ![c] = "reading"]
        /\ UNCHANGED readResolveQueue
     \/ /\ writeLocked
        /\ readResolveQueue' = readResolveQueue \union {c}
        /\ phase' = [phase EXCEPT ![c] = "readQueued"]
        /\ UNCHANGED readLockCount
  /\ UNCHANGED <<writeLocked, writeResolveQueue>>

\* Mutant of readLock: the count goes down where it should go up.
readLockDecrements(c) ==
  /\ phase[c] = "idle"
  /\ writeResolveQueue = <<>> /\ ~writeLocked
  /\ readLockCount' = readLockCount - 1
  /\ phase' = [phase EXCEPT ![c] = "reading"]
  /\ UNCHANGED <<writeLocked, readResolveQueue, writeResolveQueue>>

\* runWithRead(closure) up to its first await or the start of the closure.
readLock(c) ==
  /\ phase[c] = "idle"
  /\ \/ /\ writeResolveQueue = <<>> /\ ~writeLocked
        /\ readLockCount' = readLockCount + 1
        /\ phase' = [phase EXCEPT ![c] = "reading"]
        /\ UNCHANGED readResolveQueue
     \/ /\ writeResolveQueue # <<>> \/ writeLocked
        /\ readResolveQueue' = readResolveQueue \union {c}
        /\ phase' = [phase EXCEPT ![c] = "readQueued"]
        /\ UNCHANGED readLockCount
  /\ UNCHANGED <<writeLocked, writeResolveQueue>>

\* Mutant of writeLock: only readers make a writer wait.
writeLockShared(c) ==
  /\ phase[c] = "idle"
  /\ \/ /\ readLockCount = 0
        /\ writeLocked' = TRUE
        /\ phase' = [phase EXCEPT ![c] = "writing"]
        /\ UNCHANGED writeResolveQueue
     \/ /\ readLockCount > 0
        /\ writeResolveQueue' = Append(writeResolveQueue, c)
        /\ phase' = [phase EXCEPT ![c] = "writeQueued"]
        /\ UNCHANGED writeLocked
  /\ UNCHANGED <<readLockCount, readResolveQueue>>

\* runWithWrite(closure) up to its first await or the start of the closure.
writeLock(c) ==
  /\ phase[c] = "idle"
  /\ \/ /\ readLockCount = 0 /\ ~writeLocked
        /\ writeLocked' = TRUE
        /\ phase' = [phase EXCEPT ![c] = "writing"]
        /\ UNCHANGED writeResolveQueue
     \/ /\ readLockCount > 0 \/ writeLocked
        /\ writeResolveQueue' = Append(writeResolveQueue, c)
        /\ phase' = [phase EXCEPT ![c] = "writeQueued"]
        /\ UNCHANGED writeLocked
  /\ UNCHANGED <<readLockCount, readResolveQueue>>

\* Mutant of unlock: the last one out wakes readers only.
unlockForgetsWriters(c, count) ==
  \/ /\ count > 0
     /\ readLockCount' = count
     /\ phase' = [phase EXCEPT ![c] = "idle"]
     /\ UNCHANGED <<writeLocked, readResolveQueue, writeResolveQueue>>
  \/ /\ count = 0
     /\ readLockCount' = Cardinality(readResolveQueue)
     /\ writeLocked' = FALSE
     /\ readResolveQueue' = {}
     /\ phase' = [d \in Clients |->
                    CASE d = c                    -> "idle"
                      [] d \in readResolveQueue   -> "reading"
                      [] OTHER                    -> phase[d]]
     /\ UNCHANGED writeResolveQueue

\* Mutant of unlock: a writer that leaves without a successor keeps the flag.
unlockKeepsFlag(c, count) ==
  \/ /\ count > 0
     /\ readLockCount' = count
     /\ phase' = [phase EXCEPT ![c] = "idle"]
     /\ UNCHANGED <<writeLocked, readResolveQueue, writeResolveQueue>>
  \/ /\ count = 0 /\ writeResolveQueue # <<>>
     /\ readLockCount' = count
     /\ writeLocked' = TRUE
     /\ writeResolveQueue' = Tail(writeResolveQueue)
     /\ phase' = [phase EXCEPT ![c] = "idle",
                               ![Head(writeResolveQueue)] = "writing"]
     /\ UNCHANGED readResolveQueue
  \/ /\ count = 0 /\ writeResolveQueue = <<>>
     /\ readLockCount' = count + Cardinality(readResolveQueue)
     /\ readResolveQueue' = {}
     /\ phase' = [d \in Clients |->
                    CASE d = c                    -> "idle"
                      [] d \in readResolveQueue   -> "reading"
                      [] OTHER                    -> phase[d]]
     /\ UNCHANGED <<writeLocked, writeResolveQueue>>

\* unlock() by client c, with count read locks left.
unlock(c, count) ==
  \/ /\ count > 0
     /\ readLockCount' = count
     /\ phase' = [phase EXCEPT ![c] = "idle"]
     /\ UNCHANGED <<writeLocked, readResolveQueue, writeResolveQueue>>
  \/ /\ count = 0 /\ writeResolveQueue # <<>>
     /\ readLockCount' = count
     /\ writeLocked' = TRUE
     /\ writeResolveQueue' = Tail(writeResolveQueue)
     /\ phase' = [phase EXCEPT ![c] = "idle",
                               ![Head(writeResolveQueue)] = "writing"]
     /\ UNCHANGED readResolveQueue
  \/ /\ count = 0 /\ writeResolveQueue = <<>>
     /\ readLockCount' = count + Cardinality(readResolveQueue)
     /\ writeLocked' = FALSE
     /\ readResolveQueue' = {}
     /\ phase' = [d \in Clients |->
                    CASE d = c                    -> "idle"
                      [] d \in readResolveQueue   -> "reading"
                      [] OTHER                    -> phase[d]]
     /\ UNCHANGED writeResolveQueue

\* Mutant of finishRead: the read lock count is not decremented.
finishReadKeepsCount(c) == phase[c] = "reading" /\ unlock(c, readLockCount)

\* The finally blocks: the closure returned or threw.
finishRead(c)  == phase[c] = "reading" /\ unlock(c, readLockCount - 1)
finishWrite(c) == phase[c] = "writing" /\ unlock(c, readLockCount)

MutexNext ==
  \E c \in Clients :
    readLock(c) \/ writeLock(c) \/ finishRead(c) \/ finishWrite(c)

\* Closures settle: every storage closure run under the lock awaits only
\* operations of the backing storage.  Nothing makes a client call again.
MutexFairness == \A c \in Clients : WF_mutexVars(finishRead(c)) /\ WF_mutexVars(finishWrite(c))

MutexSpec == MutexInit /\ [][MutexNext]_mutexVars /\ MutexFairness

-----------------------------------------------------------------------------
In(s) == {c \in Clients : phase[c] = s}

\* Type correctness.
MutexTypeOK ==
  /\ readLockCount \in Nat
  /\ writeLocked \in BOOLEAN
  /\ readResolveQueue \in SUBSET Clients
  /\ writeResolveQueue \in Seq(Clients)
  /\ phase \in [Clients -> Phases]

\* The counter, the flag and the queues are exactly the clients in each
\* phase: a lost or doubled decrement, or a waiter that is resolved but left
\* in its queue, breaks the count of some later unlock().
Bookkeeping ==
  /\ readLockCount = Cardinality(In("reading"))
  /\ writeLocked <=> In("writing") # {}
  /\ readResolveQueue = In("readQueued")
  /\ \A c \in Clients :
       phase[c] = "writeQueued" <=> \E i \in DOMAIN writeResolveQueue : writeResolveQueue[i] = c
  /\ \A i, j \in DOMAIN writeResolveQueue :
       writeResolveQueue[i] = writeResolveQueue[j] => i = j

\* "Multi-reader, single-writer": a writer runs alone, across every
\* interleaving of requests, hand-overs and releases.
Exclusion ==
  \A c, d \in Clients :
    phase[c] = "writing" /\ phase[d] \in {"reading", "writing"} => c = d

\* No lost wake-up: a call waits only while some other call holds the lock
\* and will wake it, and readers wait only behind a writer.
NoStrandedWaiter ==
  /\ In("writeQueued") # {} => In("reading") \union In("writing") # {}
  /\ In("readQueued") # {} => In("writing") \union In("writeQueued") # {}

\* A queued writer gets the lock however many readers keep arriving: readers
\* that come after it are queued behind it.
WriterProgress ==
  \A c \in Clients : phase[c] = "writeQueued" ~> phase[c] = "writing"

\* The counters and queues implement the abstract lock.
RW == INSTANCE RWLock
ImplementsRWLock == RW!Spec
=============================================================================
