------------------------ MODULE ReadWriteMutexProofs ------------------------
(***************************************************************************)
(* Proofs about the lock of a Durable Object's storage, for any finite set *)
(* of clients.  The argument has two layers: as long as the counter, the   *)
(* flag and the queues agree with the phases of the clients (Bookkeeping), *)
(* every step of the code is a step of the abstract lock; and steps of the *)
(* abstract lock keep writers alone and waiters attended.                  *)
(***************************************************************************)
EXTENDS ReadWriteMutex, FiniteSetTheorems, TLAPS

\* The inductive invariant: what the runs check, together.
IInv == MutexTypeOK /\ Bookkeeping /\ Exclusion /\ NoStrandedWaiter

-----------------------------------------------------------------------------
(***************************************************************************)
(* Counting clients.                                                       *)
(***************************************************************************)

\* The clients in one phase are finitely many, so they can be counted.
LEMMA InFinite ==
  ASSUME NEW s
  PROVE  IsFiniteSet(In(s)) /\ Cardinality(In(s)) \in Nat
<1>1. In(s) \subseteq Clients
  BY DEF In
<1>2. IsFiniteSet(In(s))
  BY <1>1, ClientsFinite, FS_Subset
<1> QED
  BY <1>2, FS_CardinalityType

\* Readers hold the lock exactly when the counter is positive, and without
\* one of them the counter is one less.
LEMMA CounterCounts ==
  ASSUME Bookkeeping
  PROVE  /\ readLockCount = 0 <=> In("reading") = {}
         /\ \A c \in In("reading") :
              /\ readLockCount - 1 = Cardinality(In("reading") \ {c})
              /\ readLockCount - 1 = 0 <=> In("reading") \ {c} = {}
              /\ readLockCount - 1 \in Nat
<1>1. readLockCount = Cardinality(In("reading"))
  BY DEF Bookkeeping
<1>2. IsFiniteSet(In("reading"))
  BY InFinite
<1>3. readLockCount = 0 <=> In("reading") = {}
  BY <1>1, <1>2, FS_EmptySet
<1>4. ASSUME NEW c \in In("reading")
      PROVE  /\ readLockCount - 1 = Cardinality(In("reading") \ {c})
             /\ readLockCount - 1 = 0 <=> In("reading") \ {c} = {}
             /\ readLockCount - 1 \in Nat
  <2>1. /\ IsFiniteSet(In("reading") \ {c})
        /\ Cardinality(In("reading") \ {c}) = Cardinality(In("reading")) - 1
    BY <1>2, FS_RemoveElement
  <2>2. Cardinality(In("reading") \ {c}) = 0 <=> In("reading") \ {c} = {}
    BY <2>1, FS_EmptySet
  <2>3. Cardinality(In("reading") \ {c}) \in Nat
    BY <2>1, FS_CardinalityType
  <2> QED
    BY <1>1, <2>1, <2>2, <2>3
<1> QED
  BY <1>3, <1>4

\* The writers' queue is empty exactly when nobody is in it.
LEMMA QueueHoldsWriters ==
  ASSUME MutexTypeOK, Bookkeeping
  PROVE  /\ writeResolveQueue = << >> <=> In("writeQueued") = {}
         /\ writeResolveQueue # << >> => Head(writeResolveQueue) \in In("writeQueued")
<1>1. writeResolveQueue \in Seq(Clients)
  BY DEF MutexTypeOK
<1>2. \A c \in Clients :
        phase[c] = "writeQueued" <=> \E i \in 1..Len(writeResolveQueue) : writeResolveQueue[i] = c
  BY <1>1 DEF Bookkeeping
<1>3. CASE writeResolveQueue = << >>
  <2>1. 1..Len(writeResolveQueue) = {}
    BY <1>3
  <2> QED
    BY <1>2, <1>3, <2>1 DEF In
<1>4. CASE writeResolveQueue # << >>
  <2>1. 1 \in 1..Len(writeResolveQueue) /\ Head(writeResolveQueue) = writeResolveQueue[1]
    BY <1>1, <1>4
  <2>2. Head(writeResolveQueue) \in Clients
    BY <1>1, <1>4
  <2> QED
    BY <1>2, <1>4, <2>1, <2>2 DEF In
<1> QED
  BY <1>3, <1>4

-----------------------------------------------------------------------------
(***************************************************************************)
(* The code takes steps of the abstract lock.                              *)
(***************************************************************************)

\* Giving the lock up with count readers left is the abstract release.
LEMMA UnlockReleases ==
  ASSUME MutexTypeOK, Bookkeeping,
         NEW c \in Clients, phase[c] \in {"reading", "writing"},
         NEW count \in Nat, count = 0 <=> In("reading") \ {c} = {},
         unlock(c, count)
  PROVE  RW!Release(c)
<1>1. In("readQueued") = readResolveQueue
  BY DEF Bookkeeping
<1>2. CASE count > 0 /\ phase' = [phase EXCEPT ![c] = "idle"]
  BY <1>2 DEF RW!Release, RW!In, In
<1>3. CASE /\ count = 0 /\ writeResolveQueue # << >>
           /\ phase' = [phase EXCEPT ![c] = "idle", ![Head(writeResolveQueue)] = "writing"]
  <2>1. Head(writeResolveQueue) \in RW!In("writeQueued")
    BY <1>3, QueueHoldsWriters DEF RW!In, In
  <2> QED
    BY <1>3, <2>1 DEF RW!Release, RW!In, In
<1>4. CASE /\ count = 0 /\ writeResolveQueue = << >>
           /\ phase' = [d \in Clients |->
                          CASE d = c                    -> "idle"
                            [] d \in readResolveQueue   -> "reading"
                            [] OTHER                    -> phase[d]]
  <2>1. RW!In("writeQueued") = {}
    BY <1>4, QueueHoldsWriters DEF RW!In, In
  <2>2. RW!In("readQueued") = readResolveQueue
    BY <1>1 DEF RW!In, In
  <2> QED
    BY <1>4, <2>1, <2>2 DEF RW!Release, RW!In, In
<1> QED
  BY <1>2, <1>3, <1>4 DEF unlock

\* Every step of the code is a step of the abstract lock.
LEMMA StepRefines ==
  ASSUME MutexTypeOK, Bookkeeping, [MutexNext]_mutexVars
  PROVE  [RW!Next]_phase
<1>1. ASSUME NEW c \in Clients, readLock(c)
      PROVE  RW!RequestRead(c)
  <2>1. writeLocked <=> RW!In("writing") # {}
    BY DEF Bookkeeping, In, RW!In
  <2>2. writeResolveQueue = << >> <=> RW!In("writeQueued") = {}
    BY QueueHoldsWriters DEF In, RW!In
  <2> QED
    BY <1>1, <2>1, <2>2 DEF readLock, RW!RequestRead
<1>2. ASSUME NEW c \in Clients, writeLock(c)
      PROVE  RW!RequestWrite(c)
  <2>1. writeLocked <=> RW!In("writing") # {}
    BY DEF Bookkeeping, In, RW!In
  <2>2. readLockCount = 0 <=> RW!In("reading") = {}
    BY CounterCounts DEF In, RW!In
  <2>3. readLockCount > 0 <=> readLockCount # 0
    BY DEF MutexTypeOK
  <2> QED
    BY <1>2, <2>1, <2>2, <2>3 DEF writeLock, RW!RequestWrite
<1>3. ASSUME NEW c \in Clients, finishRead(c)
      PROVE  RW!Release(c)
  <2>1. phase[c] = "reading" /\ unlock(c, readLockCount - 1)
    BY <1>3 DEF finishRead
  <2>2. c \in In("reading")
    BY <2>1 DEF In
  <2>3. /\ readLockCount - 1 \in Nat
        /\ readLockCount - 1 = 0 <=> In("reading") \ {c} = {}
    BY <2>2, CounterCounts
  <2> HIDE DEF unlock
  <2> QED
    BY <2>1, <2>3, UnlockReleases
<1>4. ASSUME NEW c \in Clients, finishWrite(c)
      PROVE  RW!Release(c)
  <2>1. phase[c] = "writing" /\ unlock(c, readLockCount)
    BY <1>4 DEF finishWrite
  <2>2. In("reading") \ {c} = In("reading")
    BY <2>1 DEF In
  <2>3. readLockCount \in Nat /\ (readLockCount = 0 <=> In("reading") \ {c} = {})
    BY <2>2, CounterCounts DEF MutexTypeOK
  <2> QED
    BY <2>1, <2>3, UnlockReleases
<1>5. CASE UNCHANGED mutexVars
  BY <1>5 DEF mutexVars
<1>6. CASE MutexNext
  BY <1>1, <1>2, <1>3, <1>4, <1>6 DEF MutexNext, RW!Next
<1> QED
  BY <1>5, <1>6

-----------------------------------------------------------------------------
(***************************************************************************)
(* Steps of the abstract lock keep writers alone and waiters attended.     *)
(***************************************************************************)
PhaseTypeOK == phase \in [Clients -> Phases]

\* Every step of the abstract lock keeps writers alone and waiters attended.
LEMMA AbstractStep ==
  ASSUME PhaseTypeOK, Exclusion, NoStrandedWaiter, [RW!Next]_phase
  PROVE  PhaseTypeOK' /\ Exclusion' /\ NoStrandedWaiter'
<1> USE DEF PhaseTypeOK, Phases
<1>1. CASE UNCHANGED phase
  BY <1>1 DEF Exclusion, NoStrandedWaiter, In
<1>2. ASSUME NEW c \in Clients, RW!RequestRead(c)
      PROVE  PhaseTypeOK' /\ Exclusion' /\ NoStrandedWaiter'
  <2>1. PhaseTypeOK'
    BY <1>2 DEF RW!RequestRead
  <2>2. Exclusion'
    BY <1>2 DEF RW!RequestRead, RW!In, Exclusion
  <2>3. NoStrandedWaiter'
    BY <1>2 DEF RW!RequestRead, RW!In, NoStrandedWaiter, In
  <2> QED
    BY <2>1, <2>2, <2>3
<1>3. ASSUME NEW c \in Clients, RW!RequestWrite(c)
      PROVE  PhaseTypeOK' /\ Exclusion' /\ NoStrandedWaiter'
  <2>1. PhaseTypeOK'
    BY <1>3 DEF RW!RequestWrite
  <2>2. Exclusion'
    BY <1>3 DEF RW!RequestWrite, RW!In, Exclusion
  <2>3. NoStrandedWaiter'
    BY <1>3 DEF RW!RequestWrite, RW!In, NoStrandedWaiter, In
  <2> QED
    BY <2>1, <2>2, <2>3
<1>4. ASSUME NEW c \in Clients, RW!Release(c)
      PROVE  PhaseTypeOK' /\ Exclusion' /\ NoStrandedWaiter'
  <2>1. PhaseTypeOK'
    BY <1>4 DEF RW!Release, RW!In
  <2>2. Exclusion'
    BY <1>4 DEF RW!Release, RW!In, Exclusion
  <2>3. NoStrandedWaiter'
    BY <1>4 DEF RW!Release, RW!In, NoStrandedWaiter, Exclusion, In
  <2> QED
    BY <2>1, <2>2, <2>3
<1>5. CASE RW!Next
  BY <1>2, <1>3, <1>4, <1>5 DEF RW!Next
<1> QED
  BY <1>1, <1>5

-----------------------------------------------------------------------------
(***************************************************************************)
(* The counter, the flag and the queues follow the phases.                 *)
(***************************************************************************)

\* Every step keeps the types, above all that of the counter.
LEMMA TypeStep ==
  ASSUME MutexTypeOK, Bookkeeping, [MutexNext]_mutexVars
  PROVE  MutexTypeOK'
<1> USE DEF MutexTypeOK, Phases
<1>1. ASSUME NEW c \in Clients, readLock(c)
      PROVE  MutexTypeOK'
  BY <1>1 DEF readLock
<1>2. ASSUME NEW c \in Clients, writeLock(c)
      PROVE  MutexTypeOK'
  <2>1. Append(writeResolveQueue, c) \in Seq(Clients)
    OBVIOUS
  <2>2. writeResolveQueue' \in Seq(Clients)
    BY <1>2, <2>1 DEF writeLock
  <2> QED
    BY <1>2, <2>2 DEF writeLock
<1>3. ASSUME NEW c \in Clients, NEW count \in Nat, unlock(c, count)
      PROVE  MutexTypeOK'
  <2>1. writeResolveQueue # << >> =>
          /\ Tail(writeResolveQueue) \in Seq(Clients)
          /\ Head(writeResolveQueue) \in Clients
    OBVIOUS
  <2>2. Cardinality(readResolveQueue) \in Nat
    BY InFinite DEF Bookkeeping
  <2>3. readLockCount' \in Nat
    BY <1>3, <2>2 DEF unlock
  <2>4. phase' \in [Clients -> Phases]
    BY <1>3, <2>1 DEF unlock
  <2>5. writeResolveQueue' \in Seq(Clients)
    BY <1>3, <2>1 DEF unlock
  <2> QED
    BY <1>3, <2>3, <2>4, <2>5 DEF unlock
<1>4. ASSUME NEW c \in Clients, finishRead(c)
      PROVE  MutexTypeOK'
  <2>1. readLockCount - 1 \in Nat
    BY <1>4, CounterCounts DEF finishRead, In
  <2> QED
    BY <1>3, <1>4, <2>1 DEF finishRead
<1>5. ASSUME NEW c \in Clients, finishWrite(c)
      PROVE  MutexTypeOK'
  BY <1>3, <1>5 DEF finishWrite
<1>6. CASE UNCHANGED mutexVars
  BY <1>6 DEF mutexVars
<1>7. CASE MutexNext
  BY <1>1, <1>2, <1>4, <1>5, <1>7 DEF MutexNext
<1> QED
  BY <1>6, <1>7

\* When c leaves with count other readers, the counter is still the number
\* of readers afterwards, and the flag tells whether there is a writer.
LEMMA UnlockCounts ==
  ASSUME IInv,
         NEW c \in Clients, phase[c] \in {"reading", "writing"},
         NEW count \in Nat, count = Cardinality(In("reading") \ {c}),
         count = 0 <=> In("reading") \ {c} = {},
         unlock(c, count)
  PROVE  /\ readLockCount' = Cardinality(In("reading"))'
         /\ (writeLocked <=> In("writing") # {})'
<1> USE DEF IInv, MutexTypeOK, Phases
<1>1. CASE /\ count > 0
           /\ readLockCount' = count
           /\ phase' = [phase EXCEPT ![c] = "idle"]
           /\ UNCHANGED <<writeLocked, readResolveQueue, writeResolveQueue>>
  <2>1. In("reading")' = In("reading") \ {c}
    BY <1>1 DEF In
  <2>2. In("writing")' = {} /\ In("writing") = {}
    BY <1>1 DEF In, Exclusion
  <2> QED
    BY <1>1, <2>1, <2>2 DEF Bookkeeping
<1>2. CASE /\ count = 0 /\ writeResolveQueue # << >>
           /\ readLockCount' = count
           /\ writeLocked' = TRUE
           /\ phase' = [phase EXCEPT ![c] = "idle", ![Head(writeResolveQueue)] = "writing"]
  <2>1. Head(writeResolveQueue) \in In("writeQueued")
    BY <1>2, QueueHoldsWriters
  <2>2. In("reading")' = In("reading") \ {c}
    BY <1>2, <2>1 DEF In
  <2>3. Head(writeResolveQueue) \in In("writing")'
    BY <1>2, <2>1 DEF In
  <2> QED
    BY <1>2, <2>2, <2>3
<1>3. CASE /\ count = 0 /\ writeResolveQueue = << >>
           /\ readLockCount' = count + Cardinality(readResolveQueue)
           /\ writeLocked' = FALSE
           /\ phase' = [d \in Clients |->
                          CASE d = c                    -> "idle"
                            [] d \in readResolveQueue   -> "reading"
                            [] OTHER                    -> phase[d]]
  <2>1. c \notin readResolveQueue
    BY DEF Bookkeeping, In
  <2>2. In("reading")' = readResolveQueue
    BY <1>3, <2>1 DEF In, Bookkeeping
  <2>3. In("writing")' = {}
    <3>1. In("writing") \subseteq {c}
      <4>1. CASE phase[c] = "writing"
        BY <4>1 DEF In, Exclusion
      <4>2. CASE phase[c] = "reading"
        BY <4>2 DEF In, Exclusion
      <4> QED
        BY <4>1, <4>2
    <3> QED
      BY <1>3, <3>1 DEF In
  <2>4. Cardinality(readResolveQueue) \in Nat
    BY InFinite DEF Bookkeeping
  <2> QED
    BY <1>3, <2>2, <2>3, <2>4
<1> QED
  BY <1>1, <1>2, <1>3 DEF unlock

\* The part of Bookkeeping that is about the queues.
QueuesFollow ==
  /\ readResolveQueue = In("readQueued")
  /\ \A c \in Clients :
       phase[c] = "writeQueued" <=> \E i \in DOMAIN writeResolveQueue : writeResolveQueue[i] = c
  /\ \A i, j \in DOMAIN writeResolveQueue :
       writeResolveQueue[i] = writeResolveQueue[j] => i = j

\* When c leaves, exactly the clients that wait are in the queues.
LEMMA UnlockQueues ==
  ASSUME MutexTypeOK, Bookkeeping,
         NEW c \in Clients, phase[c] \in {"reading", "writing"},
         NEW count \in Nat, unlock(c, count)
  PROVE  QueuesFollow'
<1> DEFINE q == writeResolveQueue
<1> USE DEF MutexTypeOK, Phases
<1>1. CASE /\ phase' = [phase EXCEPT ![c] = "idle"]
           /\ UNCHANGED <<readResolveQueue, writeResolveQueue>>
  BY <1>1 DEF Bookkeeping, QueuesFollow, In
<1>2. CASE /\ q # << >>
           /\ q' = Tail(q)
           /\ phase' = [phase EXCEPT ![c] = "idle", ![Head(q)] = "writing"]
           /\ UNCHANGED readResolveQueue
  <2>1. Head(q) \in In("writeQueued") /\ Head(q) = q[1]
    BY <1>2, QueueHoldsWriters
  <2>2. /\ Len(q) \in Nat /\ DOMAIN q = 1..Len(q)
        /\ DOMAIN q' = 1..(Len(q) - 1)
        /\ \A i \in DOMAIN q' : i + 1 \in DOMAIN q /\ q'[i] = q[i + 1]
    BY <1>2
  <2>3. \A i, j \in DOMAIN q : q[i] = q[j] => i = j
    BY DEF Bookkeeping
  <2>4. (\A i, j \in DOMAIN q : q[i] = q[j] => i = j)'
    <3> SUFFICES ASSUME NEW i \in DOMAIN q', NEW j \in DOMAIN q', q'[i] = q'[j]
                 PROVE  i = j
      OBVIOUS
    <3>1. i + 1 = j + 1
      BY <2>2, <2>3
    <3> QED
      BY <2>2, <3>1
  <2>5. readResolveQueue' = In("readQueued")'
    BY <1>2, <2>1 DEF Bookkeeping, In
  <2>6. ASSUME NEW d \in Clients
        PROVE  phase'[d] = "writeQueued" <=> \E i \in DOMAIN q' : q'[i] = d
    <3>1. phase'[d] = "writeQueued" <=> phase[d] = "writeQueued" /\ d # Head(q)
      BY <1>2, <2>1 DEF In
    <3>2. phase[d] = "writeQueued" <=> \E i \in DOMAIN q : q[i] = d
      BY DEF Bookkeeping
    <3>3. ASSUME NEW i \in DOMAIN q, q[i] = d, d # Head(q)
          PROVE  \E j \in DOMAIN q' : q'[j] = d
      <4>1. i # 1 /\ i - 1 \in DOMAIN q'
        BY <2>1, <2>2, <3>3
      <4> QED
        BY <2>2, <3>3, <4>1
    <3>4. ASSUME NEW j \in DOMAIN q', q'[j] = d
          PROVE  d # Head(q) /\ \E i \in DOMAIN q : q[i] = d
      <4>1. j + 1 \in DOMAIN q /\ q[j + 1] = d /\ j + 1 # 1 /\ 1 \in DOMAIN q
        BY <2>2, <3>4
      <4> QED
        BY <2>1, <2>3, <4>1
    <3> QED
      BY <3>1, <3>2, <3>3, <3>4
  <2> QED
    BY <2>4, <2>5, <2>6 DEF QueuesFollow
<1>3. CASE /\ q = << >>
           /\ readResolveQueue' = {}
           /\ phase' = [d \in Clients |->
                          CASE d = c                    -> "idle"
                            [] d \in readResolveQueue   -> "reading"
                            [] OTHER                    -> phase[d]]
           /\ UNCHANGED writeResolveQueue
  <2>1. In("readQueued")' = {}
    BY <1>3 DEF Bookkeeping, In
  <2>2. In("writeQueued")' = In("writeQueued") /\ In("writeQueued") = {}
    BY <1>3, QueueHoldsWriters DEF In
  <2>3. DOMAIN q = {} /\ q' = q
    BY <1>3
  <2> QED
    BY <1>3, <2>1, <2>2, <2>3 DEF QueuesFollow, In
<1> QED
  BY <1>1, <1>2, <1>3 DEF unlock

\* Requests: a client that is granted the lock is counted, one that waits is
\* queued; it was neither before.
LEMMA RequestStep ==
  ASSUME MutexTypeOK, Bookkeeping, NEW c \in Clients, readLock(c) \/ writeLock(c)
  PROVE  Bookkeeping'
<1> DEFINE q == writeResolveQueue
<1> USE DEF MutexTypeOK, Phases
<1>1. CASE /\ phase[c] = "idle" /\ writeResolveQueue = << >> /\ ~writeLocked
           /\ readLockCount' = readLockCount + 1
           /\ phase' = [phase EXCEPT ![c] = "reading"]
           /\ UNCHANGED <<writeLocked, readResolveQueue, writeResolveQueue>>
  <2>1. In("reading")' = In("reading") \union {c} /\ c \notin In("reading")
    BY <1>1 DEF In
  <2>2. Cardinality(In("reading") \union {c}) = Cardinality(In("reading")) + 1
    BY <2>1, InFinite, FS_AddElement
  <2>3. readLockCount' = Cardinality(In("reading"))'
    BY <1>1, <2>1, <2>2 DEF Bookkeeping
  <2> QED
    BY <1>1, <2>3 DEF Bookkeeping, In
<1>2. CASE /\ phase[c] = "idle"
           /\ readResolveQueue' = readResolveQueue \union {c}
           /\ phase' = [phase EXCEPT ![c] = "readQueued"]
           /\ UNCHANGED <<readLockCount, writeLocked, writeResolveQueue>>
  <2>1. In("reading")' = In("reading") /\ In("writing")' = In("writing")
    BY <1>2 DEF In
  <2>2. In("readQueued")' = In("readQueued") \union {c}
    BY <1>2 DEF In
  <2> QED
    BY <1>2, <2>1, <2>2 DEF Bookkeeping
<1>3. CASE /\ phase[c] = "idle" /\ readLockCount = 0 /\ ~writeLocked
           /\ writeLocked' = TRUE
           /\ phase' = [phase EXCEPT ![c] = "writing"]
           /\ UNCHANGED <<readLockCount, readResolveQueue, writeResolveQueue>>
  <2>1. In("reading")' = In("reading") /\ In("readQueued")' = In("readQueued")
    BY <1>3 DEF In
  <2>2. c \in In("writing")'
    BY <1>3 DEF In
  <2> QED
    BY <1>3, <2>1, <2>2 DEF Bookkeeping
<1>4. CASE /\ phase[c] = "idle"
           /\ writeResolveQueue' = Append(writeResolveQueue, c)
           /\ phase' = [phase EXCEPT ![c] = "writeQueued"]
           /\ UNCHANGED <<readLockCount, writeLocked, readResolveQueue>>
  <2>1. /\ In("reading")' = In("reading") /\ In("writing")' = In("writing")
        /\ In("readQueued")' = In("readQueued")
    BY <1>4 DEF In
  <2>2. /\ Len(q) \in Nat /\ DOMAIN q = 1..Len(q)
        /\ DOMAIN q' = 1..(Len(q) + 1)
        /\ q'[Len(q) + 1] = c
        /\ \A i \in DOMAIN q : i \in DOMAIN q' /\ i # Len(q) + 1 /\ q'[i] = q[i]
        /\ \A i \in DOMAIN q' : i = Len(q) + 1 \/ i \in DOMAIN q
    BY <1>4
  <2>3. /\ \A i \in DOMAIN q : q[i] # c
        /\ \A i, j \in DOMAIN q : q[i] = q[j] => i = j
    BY <1>4 DEF Bookkeeping
  <2>4. (\A i, j \in DOMAIN q : q[i] = q[j] => i = j)'
    BY <2>2, <2>3
  <2>5. ASSUME NEW d \in Clients
        PROVE  phase'[d] = "writeQueued" <=> \E i \in DOMAIN q' : q'[i] = d
    <3>1. phase[d] = "writeQueued" <=> \E i \in DOMAIN q : q[i] = d
      BY DEF Bookkeeping
    <3>2. phase'[d] = "writeQueued" <=> d = c \/ phase[d] = "writeQueued"
      BY <1>4
    <3>3. (\E i \in DOMAIN q' : q'[i] = d) <=> d = c \/ \E i \in DOMAIN q : q[i] = d
      BY <2>2
    <3> QED
      BY <3>1, <3>2, <3>3
  <2> QED
    BY <1>4, <2>1, <2>4, <2>5 DEF Bookkeeping
<1> QED
  BY <1>1, <1>2, <1>3, <1>4 DEF readLock, writeLock

\* Requests and releases together: every step keeps the bookkeeping right.
LEMMA BookkeepingStep ==
  ASSUME IInv, [MutexNext]_mutexVars
  PROVE  Bookkeeping'
<1> USE DEF IInv
<1>1. ASSUME NEW c \in Clients, readLock(c) \/ writeLock(c)
      PROVE  Bookkeeping'
  BY <1>1, RequestStep
<1>2. ASSUME NEW c \in Clients, finishRead(c)
      PROVE  Bookkeeping'
  <2>1. phase[c] = "reading" /\ unlock(c, readLockCount - 1)
    BY <1>2 DEF finishRead
  <2>2. /\ readLockCount - 1 = Cardinality(In("reading") \ {c})
        /\ readLockCount - 1 = 0 <=> In("reading") \ {c} = {}
        /\ readLockCount - 1 \in Nat
    BY <2>1, CounterCounts DEF In
  <2>3. /\ readLockCount' = Cardinality(In("reading"))'
        /\ (writeLocked <=> In("writing") # {})'
    BY <2>1, <2>2, UnlockCounts
  <2> HIDE DEF IInv
  <2>4. MutexTypeOK /\ Bookkeeping
    BY DEF IInv
  <2>5. QueuesFollow'
    BY <2>1, <2>2, <2>4, UnlockQueues
  <2> QED
    BY <2>3, <2>5 DEF Bookkeeping, QueuesFollow
<1>3. ASSUME NEW c \in Clients, finishWrite(c)
      PROVE  Bookkeeping'
  <2>1. phase[c] = "writing" /\ unlock(c, readLockCount)
    BY <1>3 DEF finishWrite
  <2>2. In("reading") \ {c} = In("reading")
    BY <2>1 DEF In
  <2>3. /\ readLockCount = Cardinality(In("reading") \ {c})
        /\ readLockCount = 0 <=> In("reading") \ {c} = {}
        /\ readLockCount \in Nat
    BY <2>2, CounterCounts DEF Bookkeeping, MutexTypeOK
  <2>4. /\ readLockCount' = Cardinality(In("reading"))'
        /\ (writeLocked <=> In("writing") # {})'
    BY <2>1, <2>3, UnlockCounts
  <2> HIDE DEF IInv
  <2>5. MutexTypeOK /\ Bookkeeping
    BY DEF IInv
  <2>6. QueuesFollow'
    BY <2>1, <2>3, <2>5, UnlockQueues
  <2> QED
    BY <2>4, <2>6 DEF Bookkeeping, QueuesFollow
<1>4. CASE UNCHANGED mutexVars
  BY <1>4 DEF mutexVars, Bookkeeping, In
<1>5. CASE MutexNext
  BY <1>1, <1>2, <1>3, <1>5 DEF MutexNext
<1> QED
  BY <1>4, <1>5

-----------------------------------------------------------------------------
(***************************************************************************)
(* The theorems.                                                           *)
(***************************************************************************)

\* The lock that was just made: nobody holds it, nobody waits.
LEMMA InitInvariant ==
  ASSUME MutexInit
  PROVE  IInv
<1>1. \A s \in Phases \ {"idle"} : In(s) = {}
  BY DEF MutexInit, In
<1>2. Cardinality(In("reading")) = 0
  BY <1>1, FS_EmptySet DEF Phases
<1>3. MutexTypeOK
  <2>1. << >> \in Seq(Clients)
    OBVIOUS
  <2>2. phase \in [Clients -> Phases]
    BY DEF MutexInit, Phases
  <2> QED
    BY <2>1, <2>2 DEF MutexInit, MutexTypeOK
<1>4. Bookkeeping
  BY <1>1, <1>2 DEF MutexInit, Bookkeeping, Phases
<1>5. Exclusion /\ NoStrandedWaiter
  BY <1>1 DEF MutexInit, Exclusion, NoStrandedWaiter, Phases
<1> QED
  BY <1>3, <1>4, <1>5 DEF IInv

\* The bookkeeping makes a step of the code a step of the abstract lock, and
\* that keeps the rest of the invariant.
LEMMA StepInvariant ==
  ASSUME IInv, [MutexNext]_mutexVars
  PROVE  IInv'
<1>1. MutexTypeOK'
  BY TypeStep DEF IInv
<1>2. Bookkeeping'
  BY BookkeepingStep
<1>3. Exclusion' /\ NoStrandedWaiter'
  BY StepRefines, AbstractStep DEF IInv, MutexTypeOK, PhaseTypeOK
<1> QED
  BY <1>1, <1>2, <1>3 DEF IInv

\* The inductive invariant holds in every reachable state.
THEOREM InductiveInvariant == MutexSpec => []IInv
<1>1. MutexInit => IInv
  BY InitInvariant
<1>2. IInv /\ [MutexNext]_mutexVars => IInv'
  BY StepInvariant
<1> QED
  BY <1>1, <1>2, PTL DEF MutexSpec

\* The variables keep their types: above all, the counter of read locks
\* never becomes negative and no unlock() wakes anyone but a client.
THEOREM TypeCorrect == MutexSpec => []MutexTypeOK
<1>1. IInv => MutexTypeOK
  BY DEF IInv
<1> QED
  BY <1>1, InductiveInvariant, PTL

\* The counter, the flag and the queues are those of the clients' phases.
THEOREM BookkeepingCorrect == MutexSpec => []Bookkeeping
<1>1. IInv => Bookkeeping
  BY DEF IInv
<1> QED
  BY <1>1, InductiveInvariant, PTL

\* A writer runs alone, however many clients there are.
THEOREM WritersExclusive == MutexSpec => []Exclusion
<1>1. IInv => Exclusion
  BY DEF IInv
<1> QED
  BY <1>1, InductiveInvariant, PTL

\* No waiter is left without somebody who will wake it.
THEOREM WaitersAttended == MutexSpec => []NoStrandedWaiter
<1>1. IInv => NoStrandedWaiter
  BY DEF IInv
<1> QED
  BY <1>1, InductiveInvariant, PTL

\* The lock of the code implements the abstract lock.
THEOREM Refinement == MutexSpec => ImplementsRWLock
<1>1. MutexInit => RW!Init
  BY DEF MutexInit, RW!Init
<1>2. IInv /\ [MutexNext]_mutexVars => [RW!Next]_phase
  BY StepRefines DEF IInv
<1> QED
  BY <1>1, <1>2, InductiveInvariant, PTL DEF MutexSpec, ImplementsRWLock, RW!Spec
=============================================================================
