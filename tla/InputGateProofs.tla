-------------------------- MODULE InputGateProofs --------------------------
(***************************************************************************)
(* Proofs about input gates, for any number of events and of calls of      *)
(* runWithClosed, however deep their blocks nest.                          *)
(*                                                                         *)
(* A call that has not returned holds its gate and all gates outside it; a *)
(* call that is unlocking holds some of the outer ones.  Either way what   *)
(* is held goes all the way out, which is why no gate is open around one   *)
(* that is closed.                                                         *)
(***************************************************************************)
EXTENDS InputGate, FiniteSetTheorems, SequenceTheorems, WellFoundedInduction, TLAPS

-----------------------------------------------------------------------------
(***************************************************************************)
(* The inductive invariant.                                                *)
(***************************************************************************)
Waiters(g) == Range(resolveQueue[g])
Held(i) == Range(ops[i].held)
Holders(g) == {i \in DOMAIN ops : g \in Held(i)}
Returned(i) == ops[i].at = "returned"
Releases(c) == c.do # "arrive"

EventStates == {"outside", "arriving", "waiting", "running", "awaiting", "away", "finished"}

\* A sequence of gates with paths p in which each is followed by those outside
\* it.
Outward(p, s) == \A j \in DOMAIN s : \A g \in Range(p[s[j]]) : \E k \in DOMAIN s : j <= k /\ s[k] = g

\* A gate and those outside it, each once.
GatesNest ==
  \A g \in Gates : IsInjective(path[g]) /\ Outward(path, path[g]) /\ g \in Range(path[g])

\* What a call holds goes all the way out, and is everything at first.
HeldNest ==
  \A i \in DOMAIN ops : /\ IsInjective(ops[i].held) /\ Outward(path, ops[i].held)
                        /\ ~ Returned(i) => ops[i].held = path[ops[i].gate]

\* A gate's count is the number of calls that hold it.
LocksCounted == \A g \in Gates : lockCount[g] = Cardinality(Holders(g))

\* A call that has returned has one callback to come, as long as it holds
\* something; before it has returned it has none.
CallbacksMatch ==
  /\ \A j \in DOMAIN immediates : Releases(immediates[j]) => Returned(immediates[j].op)
  /\ \A j, k \in DOMAIN immediates :
       /\ Releases(immediates[j]) /\ Releases(immediates[k])
       /\ immediates[j].op = immediates[k].op
       => j = k
  /\ \A i \in DOMAIN ops :
       Returned(i) /\ ops[i].held # << >> =>
         \E j \in DOMAIN immediates : Releases(immediates[j]) /\ immediates[j].op = i

\* Events wait once, for the gate they run under.
QueuesMatch ==
  \A g \in Gates : /\ IsInjective(resolveQueue[g])
                   /\ \A e \in Waiters(g) : at[e] = "waiting" /\ Last(context[e]) = g

\* A call that its event is waiting for.
Awaited(i) ==
  \/ ops[i].kind = "io" /\ ~ Returned(i)
  \/ ops[i].kind = "block" /\ ops[i].at = "locked"

\* An event waits for one call, of the gate it runs under.
AwaitsMatch ==
  /\ \A e \in Events : at[e] # "outside" => context[e] # << >>
  /\ \A i \in DOMAIN ops :
       Awaited(i) => at[ops[i].by] = "awaiting" /\ Last(context[ops[i].by]) = ops[i].gate
  /\ \A i, j \in DOMAIN ops : Awaited(i) /\ Awaited(j) /\ ops[i].by = ops[j].by => i = j

\* The calls of a gate that are under way are one event's.
OneCaller ==
  \A i, j \in DOMAIN ops :
    ~ Returned(i) /\ ~ Returned(j) /\ ops[i].gate = ops[j].gate => ops[i].by = ops[j].by

\* Events run one by one under a gate.
RunsAlone ==
  \A d, e \in Events :
    at[d] = "running" /\ at[e] = "running" /\ Last(context[d]) = Last(context[e]) => d = e

\* A call that lets waiters in at a gate still holds the gates outside it.
DrainsHold ==
  \A j \in DOMAIN immediates :
    immediates[j].do = "drain" =>
      Range(path[immediates[j].gate]) \ {immediates[j].gate} \subseteq Held(immediates[j].op)

\* Who waits at an open gate is let in by such a call.
WaitersNext ==
  \A g \in Gates :
    lockCount[g] = 0 /\ resolveQueue[g] # << >> =>
      \E j \in DOMAIN immediates : immediates[j].do = "drain" /\ immediates[j].gate = g

IInv ==
  /\ TypeOK
  /\ GatesNest /\ HeldNest /\ LocksCounted /\ CallbacksMatch
  /\ QueuesMatch /\ AwaitsMatch
  /\ OneCaller /\ RunsAlone /\ OneAtATime /\ DrainsHold /\ WaitersNext

-----------------------------------------------------------------------------
(***************************************************************************)
(* Sequences and numbers.                                                  *)
(***************************************************************************)

\* A set of natural numbers that is not empty has a least element.
LEMMA LeastNumber ==
  ASSUME NEW S, S \subseteq Nat, S # {}
  PROVE  Min(S) \in S /\ \A m \in S : Min(S) <= m
<1> DEFINE Less == {p \in Nat \X Nat : p[1] < p[2]}
<1>1. IsWellFoundedOn(Less, Nat)
  BY NatLessThanWellFounded DEF OpToRel
<1>2. PICK n \in S : \A m \in S : ~ (<<m, n>> \in Less)
  BY <1>1, WFMin
<1>3. \A m \in S : n <= m
  <2> SUFFICES ASSUME NEW m \in S
               PROVE  n <= m
    OBVIOUS
  <2>1. m \in Nat /\ n \in Nat /\ <<m, n>> \notin Less
    BY <1>2
  <2> QED
    BY <2>1
<1> QED
  BY <1>2, <1>3 DEF Min

\* An element is appended.
LEMMA Appended ==
  ASSUME NEW S, NEW s \in Seq(S), NEW x \in S
  PROVE  /\ Append(s, x) \in Seq(S) /\ Append(s, x) # << >>
         /\ Len(s) \in Nat /\ Len(Append(s, x)) = Len(s) + 1
         /\ DOMAIN s = 1 .. Len(s) /\ DOMAIN Append(s, x) = 1 .. Len(s) + 1
         /\ \A j \in DOMAIN s : Append(s, x)[j] = s[j]
         /\ Append(s, x)[Len(s) + 1] = x
         /\ DOMAIN Append(s, x) = DOMAIN s \union {Len(s) + 1} /\ Len(s) + 1 \notin DOMAIN s
         /\ Range(Append(s, x)) = Range(s) \union {x}
         /\ IsInjective(s) /\ x \notin Range(s) => IsInjective(Append(s, x))
<1> DEFINE t == Append(s, x)
<1>1. /\ t \in Seq(S) /\ t # << >> /\ Len(s) \in Nat /\ Len(t) = Len(s) + 1
      /\ DOMAIN s = 1 .. Len(s) /\ DOMAIN t = 1 .. Len(s) + 1
      /\ \A j \in 1 .. Len(s) : t[j] = s[j]
      /\ t[Len(s) + 1] = x
  OBVIOUS
<1> HIDE DEF t
<1>2. DOMAIN t = DOMAIN s \union {Len(s) + 1} /\ Len(s) + 1 \notin DOMAIN s
  BY <1>1
<1>3. Range(t) = Range(s) \union {x}
  <2>1. \A j \in DOMAIN s : j \in DOMAIN t /\ t[j] = s[j]
    BY <1>1, <1>2
  <2>2. Len(s) + 1 \in DOMAIN t
    BY <1>2
  <2>3. Range(t) \subseteq Range(s) \union {x}
    BY <1>1, <1>2, <2>1 DEF Range
  <2> QED
    BY <1>1, <2>1, <2>2, <2>3 DEF Range
<1>4. IsInjective(s) /\ x \notin Range(s) => IsInjective(t)
  BY <1>1, <1>2 DEF IsInjective, Range
<1> QED
  BY <1>1, <1>2, <1>3, <1>4 DEF t

\* The first element is taken away.
LEMMA Shifted ==
  ASSUME NEW S, NEW s \in Seq(S), s # << >>
  PROVE  /\ Tail(s) \in Seq(S) /\ Head(s) = s[1] /\ 1 \in DOMAIN s
         /\ Len(s) \in Nat \ {0} /\ Len(Tail(s)) = Len(s) - 1
         /\ DOMAIN s = 1 .. Len(s) /\ DOMAIN Tail(s) = 1 .. Len(s) - 1
         /\ \A j \in DOMAIN Tail(s) : j + 1 \in DOMAIN s /\ j + 1 # 1 /\ Tail(s)[j] = s[j + 1]
         /\ \A j, k \in DOMAIN Tail(s) : j + 1 = k + 1 => j = k
         /\ \A j \in DOMAIN s : j # 1 => j - 1 \in DOMAIN Tail(s) /\ Tail(s)[j - 1] = s[j]
         /\ Range(Tail(s)) \subseteq Range(s) /\ s[1] \in Range(s)
         /\ IsInjective(s) => IsInjective(Tail(s)) /\ Range(Tail(s)) = Range(s) \ {s[1]}
<1> DEFINE t == Tail(s)
<1>1. /\ t \in Seq(S) /\ Head(s) = s[1] /\ Len(s) \in Nat \ {0} /\ Len(t) = Len(s) - 1
      /\ DOMAIN s = 1 .. Len(s) /\ DOMAIN t = 1 .. Len(s) - 1
      /\ \A j \in 1 .. Len(s) - 1 : t[j] = s[j + 1]
  OBVIOUS
<1> HIDE DEF t
<1>2. 1 \in DOMAIN s
  BY <1>1
<1>3. /\ \A j \in DOMAIN t : j + 1 \in DOMAIN s /\ j + 1 # 1 /\ t[j] = s[j + 1]
      /\ \A j, k \in DOMAIN t : j + 1 = k + 1 => j = k
  BY <1>1
<1>4. ASSUME NEW j \in DOMAIN s, j # 1
      PROVE  j - 1 \in DOMAIN t /\ t[j - 1] = s[j]
  <2>1. j - 1 \in 1 .. Len(s) - 1 /\ (j - 1) + 1 = j
    BY <1>1, <1>4
  <2> QED
    BY <1>1, <2>1
<1>5. Range(t) \subseteq Range(s) /\ s[1] \in Range(s)
  BY <1>2, <1>3 DEF Range
<1>6. ASSUME IsInjective(s) PROVE IsInjective(t) /\ Range(t) = Range(s) \ {s[1]}
  <2>1. IsInjective(t)
    BY <1>3, <1>6 DEF IsInjective
  <2>2. s[1] \notin Range(t)
    BY <1>2, <1>3, <1>6 DEF IsInjective, Range
  <2>3. ASSUME NEW x \in Range(s), x # s[1] PROVE x \in Range(t)
    <3>1. PICK j \in DOMAIN s : x = s[j]
      BY DEF Range
    <3>2. j # 1
      BY <2>3, <3>1
    <3> QED
      BY <1>4, <3>1, <3>2 DEF Range
  <2> QED
    BY <1>5, <2>1, <2>2, <2>3
<1> QED
  BY <1>1, <1>2, <1>3, <1>4, <1>5, <1>6 DEF t

\* The last element is taken away.
LEMMA Shortened ==
  ASSUME NEW S, NEW s \in Seq(S), Len(s) > 1
  PROVE  /\ Front(s) \in Seq(S) /\ Len(Front(s)) = Len(s) - 1 /\ Front(s) # << >>
         /\ Front(s)[Len(s) - 1] = s[Len(s) - 1]
<1> DEFINE t == SubSeq(s, 1, Len(s) - 1)
<1>1. t \in Seq(S) /\ Len(t) = Len(s) - 1 /\ Len(s) - 1 \in Nat \ {0}
  <2>1. Len(s) \in Nat /\ Len(s) - 1 \in Nat \ {0}
    <3>1. Len(s) \in Nat
      OBVIOUS
    <3>2. \A n \in Nat : n > 1 => n - 1 \in Nat /\ n - 1 # 0
      OBVIOUS
    <3> QED
      BY <3>1, <3>2
  <2>2. Len(t) = Len(s) - 1
    BY <2>1
  <2>3. t \in Seq(S)
    OBVIOUS
  <2> QED
    BY <2>1, <2>2, <2>3
<1>2. \A j \in 1 .. Len(s) - 1 : t[j] = s[j]
  OBVIOUS
<1>3. Front(s) = t
  BY DEF Front
<1> HIDE DEF t
<1>4. Len(s) - 1 \in 1 .. Len(s) - 1 /\ t # << >>
  BY <1>1
<1> QED
  BY <1>1, <1>2, <1>3, <1>4

\* The first element is taken away, and another appended.
LEMMA Rotated ==
  ASSUME NEW S, NEW s \in Seq(S), s # << >>, NEW x \in S
  PROVE  LET t == Append(Tail(s), x)
             n == Len(s)
         IN  /\ t \in Seq(S) /\ n \in DOMAIN t /\ t[n] = x
             /\ \A j \in DOMAIN t : j # n => j + 1 \in DOMAIN s /\ j + 1 # 1 /\ t[j] = s[j + 1]
             /\ \A j, k \in DOMAIN t : j + 1 = k + 1 => j = k
             /\ \A j \in DOMAIN s : j # 1 => j - 1 \in DOMAIN t /\ t[j - 1] = s[j]
<1> DEFINE r == Tail(s)
           t == Append(r, x)
           n == Len(s)
<1>1. /\ r \in Seq(S) /\ n \in Nat \ {0} /\ Len(r) = n - 1 /\ DOMAIN s = 1 .. n /\ DOMAIN r = 1 .. n - 1
      /\ \A j \in DOMAIN r : j + 1 \in DOMAIN s /\ j + 1 # 1 /\ r[j] = s[j + 1]
      /\ \A j \in DOMAIN s : j # 1 => j - 1 \in DOMAIN r /\ r[j - 1] = s[j]
  BY Shifted
<1> HIDE DEF r
<1>2. /\ t \in Seq(S) /\ DOMAIN t = DOMAIN r \union {n} /\ t[n] = x
      /\ \A j \in DOMAIN r : t[j] = r[j]
  <2>1. Len(r) + 1 = n
    BY <1>1
  <2> QED
    BY <1>1, <2>1, Appended
<1> HIDE DEF t, n
<1>3. \A j, k \in DOMAIN t : j + 1 = k + 1 => j = k
  BY <1>1, <1>2
<1>4. \A j \in DOMAIN t : j # n => j + 1 \in DOMAIN s /\ j + 1 # 1 /\ t[j] = s[j + 1]
  BY <1>1, <1>2
<1>5. \A j \in DOMAIN s : j # 1 => j - 1 \in DOMAIN t /\ t[j - 1] = s[j]
  BY <1>1, <1>2
<1> QED
  BY <1>2, <1>3, <1>4, <1>5 DEF n, t, r

\* The first k elements are taken away.
LEMMA Dropped ==
  ASSUME NEW S, NEW s \in Seq(S), NEW k \in 0 .. Len(s)
  PROVE  /\ SubSeq(s, k + 1, Len(s)) \in Seq(S)
         /\ DOMAIN SubSeq(s, k + 1, Len(s)) = 1 .. Len(s) - k
         /\ \A j \in 1 .. Len(s) - k : SubSeq(s, k + 1, Len(s))[j] = s[j + k]
OBVIOUS

-----------------------------------------------------------------------------
(***************************************************************************)
(* What the invariant says of the state, in the form that is used below.   *)
(***************************************************************************)

\* Gates are numbered.
LEMMA GateTypes ==
  ASSUME IInv
  PROVE  /\ Len(path) \in Nat /\ Gates = 1 .. Len(path)
         /\ \A g \in Gates : path[g] \in Seq(Gates) /\ path[g] # << >>
         /\ \A g \in Gates : Range(path[g]) \subseteq Gates
         /\ lockCount \in [Gates -> Nat] /\ resolveQueue \in [Gates -> Seq(Events)]
<1>1. path \in Seq(Seq(Gates)) /\ lockCount \in [Gates -> Nat] /\ resolveQueue \in [Gates -> Seq(Events)]
  BY DEF IInv, TypeOK
<1> DEFINE M == Seq(Gates)
<1>2. path \in Seq(M)
  BY <1>1
<1> HIDE DEF M
<1>3. Len(path) \in Nat /\ DOMAIN path = 1 .. Len(path) /\ \A g \in DOMAIN path : path[g] \in M
  BY <1>2, LenProperties
<1>4. \A g \in Gates : path[g] \in Seq(Gates)
  BY <1>3 DEF M, Gates
<1>5. \A g \in Gates : Range(path[g]) \subseteq Gates
  BY <1>4, RangeOfSeq
<1>6. \A g \in Gates : path[g] # << >>
  BY DEF IInv, GatesNest, Range
<1> QED
  BY <1>1, <1>3, <1>4, <1>5, <1>6 DEF Gates

\* Calls are numbered.
LEMMA CallTypes ==
  ASSUME IInv
  PROVE  /\ Len(ops) \in Nat /\ DOMAIN ops = 1 .. Len(ops) /\ IsFiniteSet(DOMAIN ops)
         /\ \A i \in DOMAIN ops :
              /\ ops[i] \in [by : Events, gate : Gates, kind : {"io", "background", "block"},
                             at : {"locked", "closure", "returned"}, held : Seq(Gates)]
              /\ ops[i].by \in Events /\ ops[i].gate \in Gates /\ ops[i].held \in Seq(Gates)
              /\ ops[i].kind \in {"io", "background", "block"} /\ ops[i].at \in {"locked", "closure", "returned"}
              /\ Held(i) \subseteq Gates
<1> DEFINE M == [by : Events, gate : Gates, kind : {"io", "background", "block"},
                 at : {"locked", "closure", "returned"}, held : Seq(Gates)]
<1>1. ops \in Seq(M)
  BY DEF IInv, TypeOK
<1>2. Len(ops) \in Nat /\ DOMAIN ops = 1 .. Len(ops) /\ \A i \in DOMAIN ops : ops[i] \in M
  <2> HIDE DEF M
  <2> QED
    BY <1>1, LenProperties
<1>3. \A i \in DOMAIN ops : ops[i].held \in Seq(Gates)
  BY <1>2
<1>4. \A i \in DOMAIN ops : Held(i) \subseteq Gates
  BY <1>3, RangeOfSeq DEF Held
<1>5. IsFiniteSet(DOMAIN ops)
  BY <1>2, FS_Interval
<1> QED
  BY <1>2, <1>3, <1>4, <1>5

\* Callbacks name calls and gates that there are.
LEMMA CallbackTypes ==
  ASSUME IInv
  PROVE  /\ immediates \in Seq(Callbacks) /\ DOMAIN immediates = 1 .. Len(immediates) /\ Len(immediates) \in Nat
         /\ \A j \in DOMAIN immediates :
              /\ immediates[j] \in Callbacks
              /\ Releases(immediates[j]) => immediates[j].op \in DOMAIN ops
              /\ immediates[j].do = "drain" => immediates[j].gate \in Gates /\ Releases(immediates[j])
<1>1. immediates \in Seq(Callbacks)
  BY DEF IInv, TypeOK
<1>2. Len(immediates) \in Nat /\ DOMAIN immediates = 1 .. Len(immediates) /\ \A j \in DOMAIN immediates : immediates[j] \in Callbacks
  BY <1>1, LenProperties
<1>3. ASSUME NEW j \in DOMAIN immediates
      PROVE  /\ immediates[j] \in Callbacks
             /\ Releases(immediates[j]) => immediates[j].op \in DOMAIN ops
             /\ immediates[j].do = "drain" => immediates[j].gate \in Gates /\ Releases(immediates[j])
  <2> DEFINE c == immediates[j]
  <2>1. c \in Callbacks
    BY <1>2
  <2> HIDE DEF c
  <2>2. /\ Releases(c) => c.op \in DOMAIN ops
        /\ c.do = "drain" => c.gate \in Gates /\ Releases(c)
    BY <2>1 DEF Callbacks, Releases
  <2> QED
    BY <2>1, <2>2 DEF c
<1> QED
  BY <1>1, <1>2, <1>3

\* A gate that is not counted as closed is held by no call, and the other way
\* round.
LEMMA OpenIsFree ==
  ASSUME IInv, NEW g \in Gates
  PROVE  /\ IsFiniteSet(Holders(g)) /\ lockCount[g] \in Nat
         /\ lockCount[g] = 0 <=> \A i \in DOMAIN ops : g \notin Held(i)
         /\ lockCount[g] = 0 => \A i \in DOMAIN ops : ops[i].gate = g => Returned(i)
<1>1. IsFiniteSet(Holders(g))
  BY CallTypes, FS_Subset DEF Holders
<1>2. lockCount[g] = Cardinality(Holders(g)) /\ lockCount[g] \in Nat
  BY GateTypes DEF IInv, LocksCounted
<1>3. lockCount[g] = 0 <=> Holders(g) = {}
  BY <1>1, <1>2, FS_EmptySet
<1>4. \A i \in DOMAIN ops : ops[i].gate = g /\ ~ Returned(i) => g \in Held(i)
  BY DEF IInv, HeldNest, GatesNest, Held
<1> QED
  BY <1>1, <1>2, <1>3, <1>4 DEF Holders

\* Events that wait or run do so under a gate.
LEMMA EventTypes ==
  ASSUME IInv
  PROVE  /\ at \in [Events -> EventStates] /\ context \in [Events -> Seq(Gates)]
         /\ \A e \in Events : context[e] # << >> => Last(context[e]) \in Gates
<1>1. at \in [Events -> EventStates] /\ context \in [Events -> Seq(Gates)]
  BY DEF IInv, TypeOK, EventStates
<1>2. ASSUME NEW e \in Events, context[e] # << >> PROVE Last(context[e]) \in Gates
  <2>1. context[e] \in Seq(Gates)
    BY <1>1
  <2> QED
    BY <1>2, <2>1 DEF Last
<1> QED
  BY <1>1, <1>2

-----------------------------------------------------------------------------
(***************************************************************************)
(* Callbacks that come and go.                                             *)
(***************************************************************************)

\* A callback that lets an event arrive is none of a call's.
LEMMA ArriveIsNoRelease == \A e : ~ Releases(Arrive(e)) /\ Arrive(e).do # "drain"
BY DEF Releases, Arrive

\* Callbacks that were there before, of calls that hold what they held.
LEMMA DrainsStay ==
  ASSUME IInv, \A g \in Gates : path'[g] = path[g],
         \A j \in DOMAIN immediates' :
           immediates'[j].do = "drain" =>
             \E k \in DOMAIN immediates :
               /\ immediates'[j] = immediates[k]
               /\ ops'[immediates[k].op].held = ops[immediates[k].op].held
  PROVE  DrainsHold'
<1> SUFFICES ASSUME NEW j \in DOMAIN immediates', immediates'[j].do = "drain"
             PROVE  Range(path'[immediates'[j].gate]) \ {immediates'[j].gate} \subseteq Range(ops'[immediates'[j].op].held)
  BY DEF DrainsHold, Held
<1>1. PICK k \in DOMAIN immediates :
        /\ immediates'[j] = immediates[k]
        /\ ops'[immediates[k].op].held = ops[immediates[k].op].held
  OBVIOUS
<1>2. immediates[k].do = "drain" /\ immediates[k].gate \in Gates
  BY <1>1, CallbackTypes
<1>3. Range(path[immediates[k].gate]) \ {immediates[k].gate} \subseteq Range(ops[immediates[k].op].held)
  BY <1>2 DEF IInv, DrainsHold, Held
<1> QED
  BY <1>1, <1>2, <1>3

\* The callbacks of calls stay while one that is none of theirs comes.
LEMMA ArrivalComes ==
  ASSUME IInv, NEW e \in Events, immediates' = Append(immediates, Arrive(e)),
         ops' = ops, UNCHANGED gateVars
  PROVE  immediates' \in Seq(Callbacks') /\ CallbacksMatch' /\ DrainsHold' /\ WaitersNext'
<1> DEFINE c == Arrive(e)
<1>1. Callbacks' = Callbacks /\ c \in Callbacks /\ ~ Releases(c) /\ c.do # "drain"
  BY ArriveIsNoRelease DEF Callbacks, Gates, gateVars, Arrive
<1> HIDE DEF c
<1>2. immediates \in Seq(Callbacks)
  BY CallbackTypes
<1>3. /\ immediates' \in Seq(Callbacks)
      /\ DOMAIN immediates' = DOMAIN immediates \union {Len(immediates) + 1}
      /\ Len(immediates) + 1 \notin DOMAIN immediates
      /\ \A j \in DOMAIN immediates : immediates'[j] = immediates[j]
      /\ immediates'[Len(immediates) + 1] = c
  BY <1>1, <1>2, Appended DEF c
<1>4. CallbacksMatch'
  BY <1>1, <1>3 DEF IInv, CallbacksMatch, Returned
<1>5. WaitersNext'
  BY <1>3 DEF IInv, WaitersNext, Gates, gateVars
<1>6. DrainsHold'
  BY <1>1, <1>3, DrainsStay DEF gateVars
<1> QED
  BY <1>1, <1>3, <1>4, <1>5, <1>6

\* And while one goes that is none of theirs.
LEMMA ArrivalGoes ==
  ASSUME IInv, NEW e \in Events, immediates # << >>, Head(immediates) = Arrive(e),
         immediates' = Tail(immediates), ops' = ops, path' = path, lockCount' = lockCount,
         resolveQueue' \in [Gates -> Seq(Events)],
         \A g \in Gates : resolveQueue'[g] # << >> => resolveQueue[g] # << >> \/ lockCount[g] > 0
  PROVE  immediates' \in Seq(Callbacks') /\ CallbacksMatch' /\ DrainsHold' /\ WaitersNext'
<1> DEFINE c == Arrive(e)
<1>1. Callbacks' = Callbacks /\ ~ Releases(c) /\ c.do # "drain"
  BY ArriveIsNoRelease DEF Callbacks, Gates, Arrive
<1> HIDE DEF c
<1>2. immediates \in Seq(Callbacks)
  BY CallbackTypes
<1>3. /\ immediates' \in Seq(Callbacks) /\ immediates[1] = c
      /\ \A j \in DOMAIN immediates' : j + 1 \in DOMAIN immediates /\ immediates'[j] = immediates[j + 1]
      /\ \A j, k \in DOMAIN immediates' : j + 1 = k + 1 => j = k
      /\ \A j \in DOMAIN immediates : j # 1 => j - 1 \in DOMAIN immediates' /\ immediates'[j - 1] = immediates[j]
  BY <1>2, Shifted DEF c
<1>4. CallbacksMatch'
  <2>1. ASSUME NEW j \in DOMAIN immediates', Releases(immediates'[j])
        PROVE  ops[immediates'[j].op].at = "returned"
    <3>1. PICK k \in DOMAIN immediates : immediates'[j] = immediates[k]
      BY <1>3
    <3>2. Releases(immediates[k])
      BY <2>1, <3>1
    <3> QED
      BY <3>1, <3>2 DEF IInv, CallbacksMatch, Returned
  <2>2. \A j, k \in DOMAIN immediates' :
          Releases(immediates'[j]) /\ Releases(immediates'[k]) /\ immediates'[j].op = immediates'[k].op => j = k
    BY <1>3 DEF IInv, CallbacksMatch
  <2>3. ASSUME NEW i \in DOMAIN ops, Returned(i), ops[i].held # << >>
        PROVE  \E j \in DOMAIN immediates' : Releases(immediates'[j]) /\ immediates'[j].op = i
    <3>1. PICK j \in DOMAIN immediates : Releases(immediates[j]) /\ immediates[j].op = i
      BY <2>3 DEF IInv, CallbacksMatch
    <3>2. j # 1
      BY <1>1, <1>3, <3>1
    <3> QED
      BY <1>3, <3>1, <3>2
  <2> QED
    BY <2>1, <2>2, <2>3 DEF CallbacksMatch, Returned
<1>5. WaitersNext'
  <2> SUFFICES ASSUME NEW g \in Gates, lockCount[g] = 0, resolveQueue'[g] # << >>
               PROVE  \E j \in DOMAIN immediates' : immediates'[j].do = "drain" /\ immediates'[j].gate = g
    BY DEF WaitersNext, Gates
  <2>1. resolveQueue[g] # << >>
    BY OpenIsFree
  <2>2. PICK j \in DOMAIN immediates : immediates[j].do = "drain" /\ immediates[j].gate = g
    BY <2>1 DEF IInv, WaitersNext
  <2>3. j # 1
    BY <1>1, <1>3, <2>2
  <2>4. j - 1 \in DOMAIN immediates' /\ immediates'[j - 1] = immediates[j]
    BY <1>3, <2>3
  <2> QED
    BY <2>2, <2>4
<1>6. DrainsHold'
  BY <1>3, DrainsStay
<1> QED
  BY <1>1, <1>3, <1>4, <1>5, <1>6

-----------------------------------------------------------------------------
(***************************************************************************)
(* Events: each step keeps the invariant.                                  *)
(***************************************************************************)

\* What only depends on gates and calls.
LEMMA GatesAndCallsStay ==
  ASSUME IInv, path' = path, lockCount' = lockCount, ops' = ops
  PROVE  GatesNest' /\ HeldNest' /\ LocksCounted' /\ OneCaller'
<1>1. GatesNest' /\ HeldNest'
  BY DEF IInv, GatesNest, HeldNest, Gates, Returned
<1>2. LocksCounted'
  BY DEF IInv, LocksCounted, Holders, Held, Gates
<1>3. OneCaller'
  BY DEF IInv, OneCaller, Returned
<1> QED
  BY <1>1, <1>2, <1>3

\* An event goes where it neither runs nor waits for a gate.
LEMMA EventMoves ==
  ASSUME IInv, NEW e \in Events, at[e] \notin {"waiting", "awaiting"},
         NEW l \in EventStates \ {"outside", "waiting", "running"}, at' = [at EXCEPT ![e] = l],
         NEW s \in Seq(Gates), s # << >>, context' = [context EXCEPT ![e] = s],
         immediates' \in {immediates, Append(immediates, Arrive(e))},
         UNCHANGED <<gateVars, ops>>
  PROVE  IInv'
<1>1. /\ at' \in [Events -> EventStates] /\ context' \in [Events -> Seq(Gates)]
      /\ at'[e] = l /\ context'[e] = s
      /\ \A d \in Events \ {e} : at'[d] = at[d] /\ context'[d] = context[d]
  BY EventTypes
<1>2. path' = path /\ lockCount' = lockCount /\ resolveQueue' = resolveQueue /\ ops' = ops /\ Gates' = Gates
  BY DEF gateVars, Gates
<1>3. immediates' \in Seq(Callbacks') /\ CallbacksMatch' /\ DrainsHold' /\ WaitersNext'
  <2>1. CASE immediates' = immediates
    <3>1. Callbacks' = Callbacks /\ immediates' \in Seq(Callbacks)
      BY <1>2, <2>1, CallbackTypes DEF Callbacks
    <3>2. CallbacksMatch' /\ WaitersNext'
      BY <1>2, <2>1 DEF IInv, CallbacksMatch, WaitersNext, Returned, Releases
    <3>3. DrainsHold'
      BY <1>2, <2>1, DrainsStay
    <3> QED
      BY <3>1, <3>2, <3>3
  <2>2. CASE immediates' = Append(immediates, Arrive(e))
    BY <2>2, ArrivalComes
  <2> QED
    BY <2>1, <2>2
<1>4. TypeOK'
  BY <1>1, <1>2, <1>3 DEF IInv, TypeOK, EventStates
<1>5. QueuesMatch'
  <2>1. \A g \in Gates : e \notin Waiters(g)
    BY DEF IInv, QueuesMatch
  <2>2. \A g \in Gates : Waiters(g) \subseteq Events
    BY GateTypes, RangeOfSeq DEF Waiters
  <2> QED
    BY <1>1, <1>2, <2>1, <2>2 DEF IInv, QueuesMatch, Waiters
<1>6. AwaitsMatch'
  <2>1. \A i \in DOMAIN ops : Awaited(i) => ops[i].by # e
    BY DEF IInv, AwaitsMatch
  <2>2. \A i \in DOMAIN ops : (Awaited(i))' <=> Awaited(i)
    BY <1>2 DEF Awaited, Returned
  <2>3. \A d \in Events : at'[d] # "outside" => context'[d] # << >>
    BY <1>1 DEF IInv, AwaitsMatch
  <2>4. \A i \in DOMAIN ops :
          Awaited(i) => at'[ops[i].by] = "awaiting" /\ Last(context'[ops[i].by]) = ops[i].gate
    BY <1>1, <2>1, CallTypes DEF IInv, AwaitsMatch
  <2> QED
    BY <1>2, <2>2, <2>3, <2>4 DEF IInv, AwaitsMatch
<1>7. RunsAlone' /\ OneAtATime'
  BY <1>1, <1>2 DEF IInv, RunsAlone, OneAtATime
<1> QED
  BY <1>2, <1>3, <1>4, <1>5, <1>6, <1>7, GatesAndCallsStay DEF IInv

\* Deliver, Leave, ComeBack and Finish are such steps.
LEMMA MovesInvariant ==
  ASSUME IInv, NEW e \in Events,
         Leave(e) \/ ComeBack(e) \/ Finish(e) \/ \E g \in Gates : Deliver(e, g)
  PROVE  IInv'
<1>1. at \in [Events -> EventStates] /\ context \in [Events -> Seq(Gates)]
  BY EventTypes
<1>2. at[e] # "outside" => context[e] # << >>
  BY DEF IInv, AwaitsMatch
<1>3. context = [context EXCEPT ![e] = context[e]]
  BY <1>1
<1>4. CASE Leave(e) \/ ComeBack(e) \/ Finish(e)
  <2>1. PICK l \in {"away", "arriving", "finished"} : at' = [at EXCEPT ![e] = l]
    BY <1>4 DEF Leave, ComeBack, Finish, Goto
  <2>2. /\ at[e] \in {"running", "away"} /\ context' = [context EXCEPT ![e] = context[e]]
        /\ immediates' \in {immediates, Append(immediates, Arrive(e))} /\ UNCHANGED <<gateVars, ops>>
    BY <1>3, <1>4 DEF Leave, ComeBack, Finish
  <2>3. context[e] \in Seq(Gates) /\ context[e] # << >>
    BY <1>1, <1>2, <2>2
  <2>4. l \in EventStates \ {"outside", "waiting", "running"}
    BY DEF EventStates
  <2> QED
    BY <2>1, <2>2, <2>3, <2>4, EventMoves
<1>5. ASSUME NEW g \in Gates, Deliver(e, g) PROVE IInv'
  <2>1. <<g>> \in Seq(Gates) /\ <<g>> # << >> /\ "arriving" \in EventStates \ {"outside", "waiting", "running"}
    BY DEF EventStates
  <2>2. /\ at[e] = "outside" /\ at' = [at EXCEPT ![e] = "arriving"] /\ context' = [context EXCEPT ![e] = <<g>>]
        /\ immediates' = Append(immediates, Arrive(e)) /\ UNCHANGED <<gateVars, ops>>
    BY <1>5 DEF Deliver, Goto
  <2> QED
    BY <2>1, <2>2, EventMoves
<1> QED
  BY <1>4, <1>5

\* An event that arrives runs if nobody holds the gate, or waits behind others.
LEMMA ArriveInvariant ==
  ASSUME IInv, NEW e \in Events, at[e] = "arriving", ArriveAt(e, Last(context[e]))
  PROVE  IInv'
<1> DEFINE g == Last(context[e])
<1>1. /\ TurnIsOver /\ immediates # << >> /\ Head(immediates) = Arrive(e) /\ immediates' = Tail(immediates)
      /\ path' = path /\ lockCount' = lockCount /\ context' = context /\ ops' = ops
      /\ \/ lockCount[g] = 0 /\ at' = [at EXCEPT ![e] = "running"] /\ resolveQueue' = resolveQueue
         \/ /\ lockCount[g] > 0 /\ at' = [at EXCEPT ![e] = "waiting"]
            /\ resolveQueue' = [resolveQueue EXCEPT ![g] = Append(resolveQueue[g], e)]
  BY DEF ArriveAt, ItsTurn, Goto
<1>2. /\ at \in [Events -> EventStates] /\ context \in [Events -> Seq(Gates)] /\ context[e] # << >> /\ g \in Gates
  BY EventTypes DEF IInv, AwaitsMatch
<1> HIDE DEF g
<1>3. resolveQueue \in [Gates -> Seq(Events)] /\ resolveQueue[g] \in Seq(Events)
  BY <1>2, GateTypes
<1> DEFINE longer == Append(resolveQueue[g], e)
<1>4. /\ longer \in Seq(Events) /\ Range(longer) = Waiters(g) \union {e}
      /\ e \notin Waiters(g) => IsInjective(longer)
  <2>1. IsInjective(resolveQueue[g])
    BY <1>2 DEF IInv, QueuesMatch
  <2> QED
    BY <1>3, <2>1, Appended DEF Waiters
<1> HIDE DEF longer
<1>5. /\ resolveQueue' \in [Gates -> Seq(Events)]
      /\ \A h \in Gates : resolveQueue'[h] # << >> => resolveQueue[h] # << >> \/ lockCount[h] > 0
  BY <1>1, <1>2, <1>3, <1>4 DEF longer
<1>6. immediates' \in Seq(Callbacks') /\ CallbacksMatch' /\ DrainsHold' /\ WaitersNext'
  BY <1>1, <1>5, ArrivalGoes
<1>7. /\ at' \in [Events -> EventStates] /\ at'[e] \in {"running", "waiting"}
      /\ \A d \in Events \ {e} : at'[d] = at[d]
  BY <1>1, <1>2 DEF EventStates
<1>8. TypeOK'
  BY <1>1, <1>5, <1>6, <1>7 DEF IInv, TypeOK, Gates, EventStates
<1>9. QueuesMatch'
  <2>1. \A h \in Gates : e \notin Waiters(h) /\ Waiters(h) \subseteq Events
    <3>1. \A h \in Gates : e \notin Waiters(h)
      BY DEF IInv, QueuesMatch
    <3>2. \A h \in Gates : Waiters(h) \subseteq Events
      BY GateTypes, RangeOfSeq DEF Waiters
    <3> QED
      BY <3>1, <3>2
  <2>2. CASE resolveQueue' = resolveQueue
    BY <1>1, <1>7, <2>1, <2>2 DEF IInv, QueuesMatch, Waiters, Gates
  <2>3. CASE resolveQueue' = [resolveQueue EXCEPT ![g] = longer] /\ at' = [at EXCEPT ![e] = "waiting"]
    <3>1. \A h \in Gates \ {g} : resolveQueue'[h] = resolveQueue[h]
      BY <1>3, <2>3
    <3>2. resolveQueue'[g] = longer /\ at'[e] = "waiting"
      BY <1>2, <1>3, <2>3
    <3>3. IsInjective(longer) /\ Range(longer) = Waiters(g) \union {e} /\ Last(context[e]) = g
      BY <1>2, <1>4, <2>1 DEF g
    <3>4. ASSUME NEW h \in Gates, h # g
          PROVE  IsInjective(resolveQueue'[h]) /\ \A d \in Range(resolveQueue'[h]) : at'[d] = "waiting" /\ Last(context[d]) = h
      BY <1>7, <2>1, <3>1, <3>4 DEF IInv, QueuesMatch, Waiters
    <3>5. IsInjective(resolveQueue'[g]) /\ \A d \in Range(resolveQueue'[g]) : at'[d] = "waiting" /\ Last(context[d]) = g
      BY <1>2, <1>7, <2>1, <3>2, <3>3 DEF IInv, QueuesMatch, Waiters
    <3> QED
      BY <1>1, <3>4, <3>5 DEF QueuesMatch, Waiters, Gates
  <2> QED
    BY <1>1, <2>2, <2>3 DEF longer
<1>10. AwaitsMatch'
  <2>1. \A i \in DOMAIN ops : Awaited(i) => ops[i].by # e
    BY DEF IInv, AwaitsMatch
  <2>2. \A i \in DOMAIN ops : (Awaited(i))' <=> Awaited(i)
    BY <1>1 DEF Awaited, Returned
  <2>3. \A d \in Events : at'[d] # "outside" => context'[d] # << >>
    BY <1>1, <1>2, <1>7 DEF IInv, AwaitsMatch
  <2>4. \A i \in DOMAIN ops :
          Awaited(i) => at'[ops[i].by] = "awaiting" /\ Last(context'[ops[i].by]) = ops[i].gate
    BY <1>1, <1>7, <2>1, CallTypes DEF IInv, AwaitsMatch
  <2> QED
    BY <1>1, <2>2, <2>3, <2>4 DEF IInv, AwaitsMatch
<1>11. RunsAlone'
  BY <1>1, <1>7 DEF RunsAlone, TurnIsOver
<1>12. OneAtATime'
  <2> SUFFICES ASSUME NEW d \in Events, NEW i \in DOMAIN ops,
                      at'[d] = "running", Last(context[d]) = ops[i].gate
               PROVE  ops[i].at = "returned"
    BY <1>1 DEF OneAtATime
  <2>1. d = e /\ lockCount[g] = 0
    BY <1>1, <1>2, <1>7 DEF TurnIsOver
  <2>2. ops[i].gate = g
    BY <2>1 DEF g
  <2> QED
    BY <1>2, <2>1, <2>2, OpenIsFree DEF Returned
<1> QED
  BY <1>1, <1>6, <1>8, <1>9, <1>10, <1>11, <1>12, GatesAndCallsStay DEF IInv

-----------------------------------------------------------------------------
(***************************************************************************)
(* Calls of runWithClosed: each step keeps the invariant.                  *)
(***************************************************************************)

\* A call closes its gate and those outside it.
LEMMA CallInvariant ==
  ASSUME IInv, NEW e \in Events, NEW kind \in {"io", "background", "block"}, Call(e, kind)
  PROVE  IInv'
<1> DEFINE g == Last(context[e])
           op == [by |-> e, gate |-> g, kind |-> kind, at |-> "locked", held |-> path[g]]
           Op == [by : Events, gate : Gates, kind : {"io", "background", "block"},
                  at : {"locked", "closure", "returned"}, held : Seq(Gates)]
           l == IF kind = "background" THEN "running" ELSE "awaiting"
<1>0. PICK n : n = Len(ops) + 1
  OBVIOUS
<1>1. /\ at[e] = "running" /\ lockCount' = locked(g) /\ ops' = Append(ops, op) /\ at' = [at EXCEPT ![e] = l]
      /\ path' = path /\ resolveQueue' = resolveQueue /\ context' = context /\ immediates' = immediates
  BY DEF Call, Goto
<1>2. /\ at \in [Events -> EventStates] /\ context \in [Events -> Seq(Gates)] /\ context[e] # << >> /\ g \in Gates
  BY <1>1, EventTypes DEF IInv, AwaitsMatch
<1> HIDE DEF g
<1>3. path[g] \in Seq(Gates) /\ IsInjective(path[g]) /\ Outward(path, path[g]) /\ g \in Range(path[g])
  BY <1>2, GateTypes DEF IInv, GatesNest
<1>4. op \in Op /\ op.by = e /\ op.gate = g /\ op.kind = kind /\ op.at = "locked" /\ op.held = path[g]
  BY <1>2, <1>3
<1> HIDE DEF op
<1>5. /\ ops' \in Seq(Op) /\ DOMAIN ops' = DOMAIN ops \union {n} /\ n \notin DOMAIN ops
      /\ (\A i \in DOMAIN ops : ops'[i] = ops[i]) /\ ops'[n] = op
  <2>1. ops \in Seq(Op)
    BY DEF IInv, TypeOK
  <2> HIDE DEF Op
  <2> QED
    BY <1>0, <1>1, <1>4, <2>1, Appended
<1>6. at' \in [Events -> EventStates] /\ at'[e] = l /\ \A d \in Events \ {e} : at'[d] = at[d]
  BY <1>1, <1>2 DEF EventStates
<1>7. /\ lockCount' \in [Gates -> Nat]
      /\ \A h \in Gates : lockCount'[h] = IF h \in Range(path[g]) THEN lockCount[h] + 1 ELSE lockCount[h]
  BY <1>1, GateTypes DEF locked
<1>8. TypeOK'
  <2>1. immediates' \in Seq(Callbacks')
    <3>1. Callbacks \subseteq Callbacks'
      BY <1>1, <1>5 DEF Callbacks, Gates
    <3> QED
      BY <1>1, <3>1, CallbackTypes, SeqMonotonic
  <2> QED
    BY <1>1, <1>5, <1>6, <1>7, <2>1 DEF IInv, TypeOK, Gates, EventStates
<1>9. GatesNest'
  BY <1>1 DEF IInv, GatesNest, Gates
<1>10. HeldNest'
  <2>2. \A i \in DOMAIN ops : IsInjective(ops'[i].held) /\ Outward(path', ops'[i].held)
                              /\ (ops'[i].at # "returned" => ops'[i].held = path'[ops'[i].gate])
    BY <1>1, <1>5 DEF IInv, HeldNest, Returned
  <2>3. IsInjective(ops'[n].held) /\ Outward(path', ops'[n].held) /\ ops'[n].held = path'[ops'[n].gate]
    BY <1>1, <1>3, <1>4, <1>5
  <2> QED
    BY <1>5, <2>2, <2>3 DEF HeldNest, Returned
<1>11. LocksCounted'
  <2> SUFFICES ASSUME NEW h \in Gates
               PROVE  lockCount'[h] = Cardinality(Holders(h)')
    BY <1>1 DEF LocksCounted, Gates
  <2>1. Holders(h)' = IF h \in Range(path[g]) THEN Holders(h) \union {n} ELSE Holders(h)
    BY <1>4, <1>5 DEF Holders, Held
  <2>2. IsFiniteSet(Holders(h)) /\ n \notin Holders(h) /\ lockCount[h] = Cardinality(Holders(h))
    BY <1>5, OpenIsFree DEF Holders, IInv, LocksCounted
  <2>3. Cardinality(Holders(h) \union {n}) = Cardinality(Holders(h)) + 1
    BY <2>2, FS_AddElement
  <2> QED
    BY <1>7, <2>1, <2>2, <2>3
<1>12. CallbacksMatch'
  BY <1>1, <1>4, <1>5, CallbackTypes DEF IInv, CallbacksMatch, Returned, Releases
<1>13. QueuesMatch'
  <2>1. \A h \in Gates : e \notin Waiters(h) /\ Waiters(h) \subseteq Events
    <3>1. \A h \in Gates : e \notin Waiters(h)
      BY <1>1 DEF IInv, QueuesMatch
    <3>2. \A h \in Gates : Waiters(h) \subseteq Events
      BY GateTypes, RangeOfSeq DEF Waiters
    <3> QED
      BY <3>1, <3>2
  <2> QED
    BY <1>1, <1>6, <2>1 DEF IInv, QueuesMatch, Waiters, Gates
<1>14. AwaitsMatch'
  <2>1. \A i \in DOMAIN ops : Awaited(i) => ops[i].by # e
    BY <1>1 DEF IInv, AwaitsMatch
  <2>2. \A i \in DOMAIN ops : (Awaited(i))' <=> Awaited(i)
    BY <1>5 DEF Awaited, Returned
  <2>3. (Awaited(n))' => l = "awaiting"
    BY <1>4, <1>5 DEF Awaited, Returned
  <2>4. \A d \in Events : at'[d] # "outside" => context'[d] # << >>
    BY <1>1, <1>2, <1>6 DEF IInv, AwaitsMatch
  <2>5. \A i \in DOMAIN ops :
          Awaited(i) => at'[ops[i].by] = "awaiting" /\ Last(context'[ops[i].by]) = ops[i].gate
    BY <1>1, <1>6, <2>1, CallTypes DEF IInv, AwaitsMatch
  <2>6. (Awaited(n))' => at'[ops'[n].by] = "awaiting" /\ Last(context'[ops'[n].by]) = ops'[n].gate
    BY <1>1, <1>4, <1>5, <1>6, <2>3 DEF g
  <2>7. \A i, j \in DOMAIN ops' : (Awaited(i))' /\ (Awaited(j))' /\ ops'[i].by = ops'[j].by => i = j
    BY <1>4, <1>5, <2>1, <2>2 DEF IInv, AwaitsMatch
  <2> QED
    BY <1>5, <2>2, <2>4, <2>5, <2>6, <2>7 DEF AwaitsMatch
<1>15. OneCaller'
  <2>1. \A i \in DOMAIN ops : ~ Returned(i) /\ ops[i].gate = g => ops[i].by = e
    BY <1>1 DEF IInv, OneAtATime, Returned, g
  <2> QED
    BY <1>4, <1>5, <2>1 DEF IInv, OneCaller, Returned
<1>16. RunsAlone'
  BY <1>1, <1>6 DEF IInv, RunsAlone
<1>17. OneAtATime'
  <2>1. \A d \in Events : at'[d] = "running" => at[d] = "running"
    BY <1>1, <1>6
  <2>2. \A d \in Events \ {e} : at[d] = "running" => Last(context[d]) # g
    BY <1>1 DEF IInv, RunsAlone, g
  <2> QED
    BY <1>1, <1>4, <1>5, <2>1, <2>2 DEF IInv, OneAtATime
<1>18. WaitersNext'
  <2>1. \A h \in Gates : lockCount'[h] = 0 => lockCount[h] = 0
    BY <1>7, GateTypes
  <2> QED
    BY <1>1, <2>1 DEF IInv, WaitersNext, Gates
<1>19. DrainsHold'
  <2>1. \A j \in DOMAIN immediates : immediates[j].do = "drain" => ops'[immediates[j].op] = ops[immediates[j].op]
    BY <1>5, CallbackTypes
  <2> QED
    BY <1>1, <2>1, DrainsStay
<1> QED
  BY <1>8, <1>9, <1>10, <1>11, <1>12, <1>13, <1>14, <1>15, <1>16, <1>17, <1>18, <1>19 DEF IInv

\* A gate is put before the gates that it is in.
LEMMA Prefixed ==
  ASSUME NEW S, NEW s \in Seq(S), NEW x \in S
  PROVE  /\ <<x>> \o s \in Seq(S) /\ Len(s) \in Nat
         /\ DOMAIN s = 1 .. Len(s) /\ DOMAIN (<<x>> \o s) = 1 .. Len(s) + 1
         /\ (<<x>> \o s)[1] = x
         /\ \A j \in 1 .. Len(s) : (<<x>> \o s)[j + 1] = s[j]
OBVIOUS

\* A call goes on: who called it, its gate and what it holds stay.
LEMMA CallGoesOn ==
  ASSUME IInv, NEW i \in DOMAIN ops, NEW l \in {"closure", "returned"},
         ops' = [ops EXCEPT ![i].at = l]
  PROVE  /\ ops' \in Seq([by : Events, gate : Gates, kind : {"io", "background", "block"},
                          at : {"locked", "closure", "returned"}, held : Seq(Gates)])
         /\ DOMAIN ops' = DOMAIN ops
         /\ \A j \in DOMAIN ops : /\ ops'[j].by = ops[j].by /\ ops'[j].gate = ops[j].gate
                                  /\ ops'[j].kind = ops[j].kind /\ ops'[j].held = ops[j].held
                                  /\ ops'[j].at = IF j = i THEN l ELSE ops[j].at
<1> DEFINE Op == [by : Events, gate : Gates, kind : {"io", "background", "block"},
                  at : {"locked", "closure", "returned"}, held : Seq(Gates)]
           op == [ops[i] EXCEPT !.at = l]
<1>1. ops \in Seq(Op) /\ ops[i] \in Op /\ i \in 1 .. Len(ops) /\ DOMAIN ops = 1 .. Len(ops)
  BY CallTypes DEF IInv, TypeOK
<1>2. /\ op \in Op /\ op.by = ops[i].by /\ op.gate = ops[i].gate /\ op.kind = ops[i].kind
      /\ op.held = ops[i].held /\ op.at = l
  BY <1>1
<1>3. ops' = [ops EXCEPT ![i] = op]
  OBVIOUS
<1> HIDE DEF op, Op
<1>4. ops' \in Seq(Op) /\ DOMAIN ops' = DOMAIN ops /\ \A j \in DOMAIN ops : ops'[j] = IF j = i THEN op ELSE ops[j]
  BY <1>1, <1>2, <1>3
<1> QED
  BY <1>2, <1>4 DEF Op

\* What only depends on the gates, and on what calls hold of them.
LEMMA HoldingStays ==
  ASSUME IInv, path' = path, lockCount' = lockCount, DOMAIN ops' = DOMAIN ops,
         \A j \in DOMAIN ops : /\ ops'[j].held = ops[j].held /\ ops'[j].gate = ops[j].gate
                               /\ ops'[j].by = ops[j].by /\ (Returned(j) => ops'[j].at = "returned")
  PROVE  GatesNest' /\ HeldNest' /\ LocksCounted' /\ OneCaller'
<1>1. GatesNest'
  BY DEF IInv, GatesNest, Gates
<1>2. HeldNest'
  BY DEF IInv, HeldNest, Returned
<1>3. LocksCounted'
  BY DEF IInv, LocksCounted, Holders, Held, Gates
<1>4. OneCaller'
  BY DEF IInv, OneCaller, Returned
<1> QED
  BY <1>1, <1>2, <1>3, <1>4

\* The closure of a storage operation starts.
LEMMA OperationInvariant ==
  ASSUME IInv, NEW i \in DOMAIN ops, Closure(i), ops[i].kind # "block"
  PROVE  IInv'
<1>1. /\ ops' = [ops EXCEPT ![i].at = "closure"] /\ ops[i].at = "locked" /\ path' = path /\ lockCount' = lockCount
      /\ resolveQueue' = resolveQueue /\ context' = context /\ at' = at /\ immediates' = immediates
  BY DEF Closure, gateVars
<1>2. /\ ops' \in Seq([by : Events, gate : Gates, kind : {"io", "background", "block"},
                       at : {"locked", "closure", "returned"}, held : Seq(Gates)])
      /\ DOMAIN ops' = DOMAIN ops
      /\ \A j \in DOMAIN ops : /\ ops'[j].by = ops[j].by /\ ops'[j].gate = ops[j].gate
                               /\ ops'[j].kind = ops[j].kind /\ ops'[j].held = ops[j].held
                               /\ ops'[j].at = IF j = i THEN "closure" ELSE ops[j].at
  BY <1>1, CallGoesOn
<1>3. \A j \in DOMAIN ops : ops'[j].at = "returned" <=> Returned(j)
  BY <1>1, <1>2 DEF Returned
<1>4. TypeOK'
  <2>1. Callbacks' = Callbacks
    BY <1>1, <1>2 DEF Callbacks, Gates
  <2> QED
    BY <1>1, <1>2, <2>1 DEF IInv, TypeOK, Gates
<1>5. CallbacksMatch'
  BY <1>1, <1>2, <1>3, CallbackTypes DEF IInv, CallbacksMatch, Returned, Releases
<1>6. QueuesMatch' /\ RunsAlone'
  BY <1>1 DEF IInv, QueuesMatch, RunsAlone, Waiters, Gates
<1>7. AwaitsMatch'
  <2>1. \A j \in DOMAIN ops : (Awaited(j))' <=> Awaited(j)
    BY <1>1, <1>2, <1>3 DEF Awaited, Returned
  <2> QED
    BY <1>1, <1>2, <2>1 DEF IInv, AwaitsMatch
<1>8. OneAtATime'
  BY <1>1, <1>2, <1>3 DEF IInv, OneAtATime, Returned
<1>9. DrainsHold' /\ WaitersNext'
  <2>1. \A j \in DOMAIN immediates : immediates[j].do = "drain" => ops'[immediates[j].op].held = ops[immediates[j].op].held
    BY <1>2, CallbackTypes
  <2>2. DrainsHold'
    BY <1>1, <2>1, DrainsStay
  <2> QED
    BY <1>1, <2>2 DEF IInv, WaitersNext, Gates
<1>10. GatesNest' /\ HeldNest' /\ LocksCounted' /\ OneCaller'
  BY <1>1, <1>2, <1>3, HoldingStays
<1> QED
  BY <1>4, <1>5, <1>6, <1>7, <1>8, <1>9, <1>10 DEF IInv

\* blockConcurrencyWhile: more of the event runs, under a gate of its own.
LEMMA BlockInvariant ==
  ASSUME IInv, NEW i \in DOMAIN ops, Closure(i), ops[i].kind = "block"
  PROVE  IInv'
<1>1. PICK child : child = Len(path) + 1
  OBVIOUS
<1>2. PICK e \in Events : e = ops[i].by
  BY CallTypes
<1>3. PICK g \in Gates : g = ops[i].gate
  BY CallTypes
<1> DEFINE own == <<child>> \o path[g]
<1>4. /\ ops' = [ops EXCEPT ![i].at = "closure"] /\ ops[i].at = "locked"
      /\ path' = Append(path, own) /\ lockCount' = Append(lockCount, 0)
      /\ resolveQueue' = Append(resolveQueue, << >>)
      /\ context' = [context EXCEPT ![e] = Append(context[e], child)]
      /\ at' = [at EXCEPT ![e] = "running"] /\ immediates' = immediates
  BY <1>1, <1>2, <1>3 DEF Closure, Goto
<1> DEFINE All == Gates \union {child}
<1>5. /\ Len(path) \in Nat /\ Gates = 1 .. Len(path) /\ All = 1 .. Len(path) + 1
      /\ child \notin Gates /\ child \in All /\ Gates \subseteq All
  BY <1>1, GateTypes
<1>6. /\ path[g] \in Seq(All) /\ path[g] \in Seq(Gates) /\ IsInjective(path[g]) /\ Outward(path, path[g])
      /\ child \notin Range(path[g])
  <2>1. path[g] \in Seq(Gates) /\ Range(path[g]) \subseteq Gates
    BY GateTypes
  <2>2. path[g] \in Seq(All)
    BY <1>5, <2>1, SeqMonotonic
  <2> QED
    BY <1>5, <2>1, <2>2 DEF IInv, GatesNest
<1> HIDE DEF All
<1>7. /\ own \in Seq(All) /\ Len(path[g]) \in Nat /\ DOMAIN path[g] = 1 .. Len(path[g])
      /\ DOMAIN own = 1 .. Len(path[g]) + 1 /\ own[1] = child
      /\ \A j \in 1 .. Len(path[g]) : own[j + 1] = path[g][j]
  BY <1>5, <1>6, Prefixed
<1> HIDE DEF own
<1>8. /\ path' \in Seq(Seq(All)) /\ DOMAIN path' = All
      /\ (\A h \in Gates : path'[h] = path[h]) /\ path'[child] = own
  <2> DEFINE M == Seq(All)
  <2>1. path \in Seq(M)
    <3> DEFINE K == Seq(Gates)
    <3>1. K \subseteq M
      BY <1>5, SeqMonotonic
    <3>2. path \in Seq(K)
      BY DEF IInv, TypeOK
    <3> HIDE DEF K, M
    <3> QED
      BY <3>1, <3>2, SeqMonotonic
  <2>2. own \in M
    BY <1>7
  <2> HIDE DEF M
  <2>3. /\ path' \in Seq(M) /\ DOMAIN path' = 1 .. Len(path) + 1
        /\ (\A h \in DOMAIN path : path'[h] = path[h]) /\ path'[Len(path) + 1] = own
    BY <1>4, <2>1, <2>2, Appended
  <2> QED
    BY <1>1, <1>5, <2>3 DEF M, Gates
<1>9. Gates' = All
  BY <1>8 DEF Gates
<1>10. /\ lockCount' \in [All -> Nat] /\ (\A h \in Gates : lockCount'[h] = lockCount[h]) /\ lockCount'[child] = 0
  <2>1. lockCount \in Seq(Nat) /\ Len(lockCount) = Len(path) /\ DOMAIN lockCount = Gates
    <3>1. lockCount \in [1 .. Len(path) -> Nat]
      BY <1>5, GateTypes
    <3> QED
      BY <1>5, <3>1
  <2>2. /\ lockCount' \in Seq(Nat) /\ DOMAIN lockCount' = 1 .. Len(path) + 1 /\ Len(lockCount') = Len(path) + 1
        /\ (\A h \in Gates : lockCount'[h] = lockCount[h]) /\ lockCount'[Len(path) + 1] = 0
    BY <1>4, <2>1, Appended
  <2> QED
    BY <1>1, <1>5, <2>2 DEF All
<1>11. /\ resolveQueue' \in [All -> Seq(Events)] /\ resolveQueue'[child] = << >>
       /\ \A h \in Gates : resolveQueue'[h] = resolveQueue[h]
  <2> DEFINE M == Seq(Events)
  <2>1. resolveQueue \in [Gates -> M] /\ << >> \in M
    BY GateTypes
  <2> HIDE DEF M
  <2>2. resolveQueue \in Seq(M) /\ Len(resolveQueue) = Len(path) /\ DOMAIN resolveQueue = Gates
    BY <1>5, <2>1
  <2>3. /\ resolveQueue' \in Seq(M) /\ DOMAIN resolveQueue' = 1 .. Len(path) + 1
        /\ Len(resolveQueue') = Len(path) + 1
        /\ (\A h \in Gates : resolveQueue'[h] = resolveQueue[h]) /\ resolveQueue'[Len(path) + 1] = << >>
    BY <1>4, <2>1, <2>2, Appended
  <2> QED
    BY <1>1, <1>5, <2>3 DEF All, M
<1>12. /\ DOMAIN ops' = DOMAIN ops
       /\ \A j \in DOMAIN ops : /\ ops'[j].by = ops[j].by /\ ops'[j].gate = ops[j].gate
                                /\ ops'[j].kind = ops[j].kind /\ ops'[j].held = ops[j].held
                                /\ ops'[j].at = IF j = i THEN "closure" ELSE ops[j].at
  BY <1>4, CallGoesOn
<1>13. \A j \in DOMAIN ops : ops'[j].at = "returned" <=> Returned(j)
  BY <1>4, <1>12 DEF Returned
<1>14. /\ at \in [Events -> EventStates] /\ context \in [Events -> Seq(Gates)]
       /\ at[e] = "awaiting" /\ Last(context[e]) = g /\ context[e] # << >>
  <2>1. Awaited(i)
    BY <1>4 DEF Awaited
  <2> QED
    BY <1>2, <1>3, <2>1, EventTypes DEF IInv, AwaitsMatch
<1>15. /\ at' \in [Events -> EventStates] /\ at'[e] = "running" /\ \A d \in Events \ {e} : at'[d] = at[d]
  BY <1>4, <1>14 DEF EventStates
<1>16. /\ context' \in [Events -> Seq(All)] /\ context'[e] # << >> /\ Last(context'[e]) = child
       /\ \A d \in Events \ {e} : context'[d] = context[d]
  <2>1. \A d \in Events : context[d] \in Seq(All)
    BY <1>5, <1>14, SeqMonotonic
  <2> DEFINE c == Append(context[e], child)
  <2>2. /\ c \in Seq(All) /\ c # << >> /\ Len(c) = Len(context[e]) + 1 /\ c[Len(context[e]) + 1] = child
    BY <1>5, <2>1, Appended
  <2> HIDE DEF c
  <2>3. Last(c) = child
    BY <2>2 DEF Last
  <2>4. context' = [context EXCEPT ![e] = c] /\ context \in [Events -> Seq(All)]
    BY <1>4, <1>14, <2>1 DEF c
  <2> QED
    BY <2>2, <2>3, <2>4
<1>17. TypeOK'
  <2>1. immediates' \in Seq(Callbacks')
    <3>1. Callbacks \subseteq Callbacks'
      BY <1>5, <1>9, <1>12 DEF Callbacks
    <3> QED
      BY <1>4, <3>1, CallbackTypes, SeqMonotonic
  <2>2. ops' \in Seq([by : Events, gate : All, kind : {"io", "background", "block"},
                      at : {"locked", "closure", "returned"}, held : Seq(All)])
    <3> DEFINE K == [by : Events, gate : Gates, kind : {"io", "background", "block"},
                     at : {"locked", "closure", "returned"}, held : Seq(Gates)]
               M == [by : Events, gate : All, kind : {"io", "background", "block"},
                     at : {"locked", "closure", "returned"}, held : Seq(All)]
    <3>1. Seq(Gates) \subseteq Seq(All)
      BY <1>5, SeqMonotonic
    <3>2. K \subseteq M
      BY <1>5, <3>1
    <3>3. ops' \in Seq(K)
      BY <1>4, CallGoesOn
    <3> HIDE DEF K, M
    <3>4. ops' \in Seq(M)
      BY <3>2, <3>3, SeqMonotonic
    <3> QED
      BY <3>4 DEF M
  <2>3. path' \in Seq(Seq(All)) /\ path' # << >>
    BY <1>5, <1>8
  <2> QED
    BY <1>9, <1>10, <1>11, <1>15, <1>16, <2>1, <2>2, <2>3 DEF TypeOK, EventStates
<1>18. ASSUME NEW s \in Seq(Gates), Outward(path, s) PROVE Outward(path', s)
  <2> SUFFICES ASSUME NEW j \in DOMAIN s
               PROVE  \A h \in Range(path'[s[j]]) : \E k \in DOMAIN s : j <= k /\ s[k] = h
    BY DEF Outward
  <2>1. s[j] \in Gates
    OBVIOUS
  <2>2. path'[s[j]] = path[s[j]]
    BY <1>8, <2>1
  <2> QED
    BY <1>18, <2>2 DEF Outward
<1>19. GatesNest'
  <2>1. \A h \in Gates : IsInjective(path'[h]) /\ Outward(path', path'[h]) /\ h \in Range(path'[h])
    BY <1>8, <1>18, GateTypes DEF IInv, GatesNest
  <2>2. child \in Range(own)
    BY <1>7 DEF Range
  <2>3. ASSUME NEW j \in DOMAIN own
        PROVE  j = 1 \/ (j - 1 \in DOMAIN path[g] /\ own[j] = path[g][j - 1] /\ j # 1 /\ j \in Nat)
    <3>1. CASE j # 1
      <4>1. j - 1 \in 1 .. Len(path[g]) /\ (j - 1) + 1 = j
        BY <1>7, <3>1
      <4> QED
        BY <1>7, <3>1, <4>1
    <3> QED
      BY <3>1
  <2>4. IsInjective(own)
    <3> SUFFICES ASSUME NEW j \in DOMAIN own, NEW k \in DOMAIN own, own[j] = own[k]
                 PROVE  j = k
      BY DEF IsInjective
    <3>1. CASE j = 1 /\ k # 1
      BY <1>6, <1>7, <2>3, <3>1 DEF Range
    <3>2. CASE j # 1 /\ k = 1
      BY <1>6, <1>7, <2>3, <3>2 DEF Range
    <3>3. CASE j # 1 /\ k # 1
      <4>1. j - 1 = k - 1 /\ j \in Nat /\ k \in Nat
        BY <1>6, <2>3, <3>3 DEF IsInjective
      <4> QED
        BY <4>1
    <3> QED
      BY <3>1, <3>2, <3>3
  <2>5. Outward(path', own)
    <3> SUFFICES ASSUME NEW j \in DOMAIN own, NEW h \in Range(path'[own[j]])
                 PROVE  \E k \in DOMAIN own : j <= k /\ own[k] = h
      BY DEF Outward
    <3>1. CASE j = 1
      <4>1. h \in Range(own)
        BY <1>7, <1>8, <3>1
      <4>2. PICK k \in DOMAIN own : own[k] = h
        BY <4>1 DEF Range
      <4>3. 1 <= k
        BY <1>7
      <4> QED
        BY <3>1, <4>2, <4>3
    <3>2. CASE j # 1
      <4>1. j - 1 \in DOMAIN path[g] /\ own[j] = path[g][j - 1] /\ j \in Nat
        BY <2>3, <3>2
      <4>2. path'[own[j]] = path[path[g][j - 1]]
        <5>1. path[g][j - 1] \in Gates
          BY <1>6, <4>1
        <5> QED
          BY <1>8, <4>1, <5>1
      <4>3. PICK k \in DOMAIN path[g] : j - 1 <= k /\ path[g][k] = h
        BY <1>6, <4>1, <4>2 DEF Outward
      <4>4. k + 1 \in DOMAIN own /\ j <= k + 1 /\ own[k + 1] = h
        BY <1>7, <4>1, <4>3
      <4> QED
        BY <4>4
    <3> QED
      BY <3>1, <3>2
  <2> QED
    BY <1>8, <1>9, <2>1, <2>2, <2>4, <2>5 DEF GatesNest, All
<1>20. HeldNest'
  <2> SUFFICES ASSUME NEW j \in DOMAIN ops
               PROVE  /\ IsInjective(ops'[j].held) /\ Outward(path', ops'[j].held)
                      /\ ops'[j].at # "returned" => ops'[j].held = path'[ops'[j].gate]
    BY <1>12 DEF HeldNest, Returned
  <2>1. ops[j].held \in Seq(Gates) /\ ops[j].gate \in Gates
    BY CallTypes
  <2>2. IsInjective(ops[j].held) /\ Outward(path, ops[j].held) /\ (~ Returned(j) => ops[j].held = path[ops[j].gate])
    BY DEF IInv, HeldNest
  <2>3. Outward(path', ops[j].held)
    BY <1>18, <2>1, <2>2
  <2>4. path'[ops[j].gate] = path[ops[j].gate]
    BY <1>8, <2>1
  <2> QED
    BY <1>12, <1>13, <2>2, <2>3, <2>4
<1>21. LocksCounted'
  <2>1. \A h : Holders(h)' = Holders(h)
    BY <1>12 DEF Holders, Held
  <2>2. Holders(child) = {}
    BY <1>5, CallTypes DEF Holders
  <2>3. \A h \in All : lockCount'[h] = Cardinality(Holders(h))
    BY <1>10, <2>2, FS_EmptySet DEF IInv, LocksCounted, All
  <2> QED
    BY <1>9, <2>1, <2>3 DEF LocksCounted
<1>22. CallbacksMatch'
  BY <1>4, <1>12, <1>13, CallbackTypes DEF IInv, CallbacksMatch, Returned, Releases
<1>23. QueuesMatch'
  <2>1. \A h \in Gates : Waiters(h) \subseteq Events \ {e}
    <3>1. \A h \in Gates : e \notin Waiters(h)
      BY <1>14 DEF IInv, QueuesMatch
    <3>2. \A h \in Gates : Waiters(h) \subseteq Events
      BY GateTypes, RangeOfSeq DEF Waiters
    <3> QED
      BY <3>1, <3>2
  <2>2. ASSUME NEW h \in Gates
        PROVE  IsInjective(resolveQueue'[h]) /\ \A d \in Range(resolveQueue'[h]) : at'[d] = "waiting" /\ Last(context'[d]) = h
    BY <1>11, <1>15, <1>16, <2>1 DEF IInv, QueuesMatch, Waiters
  <2>3. IsInjective(<< >>) /\ Range(<< >>) = {}
    BY DEF IsInjective, Range
  <2> QED
    BY <1>9, <1>11, <2>2, <2>3 DEF QueuesMatch, Waiters, All
<1>24. AwaitsMatch'
  <2>1. Awaited(i) /\ ~ (Awaited(i))'
    <3>1. ops'[i].kind = "block" /\ ops'[i].at = "closure"
      BY <1>12
    <3> QED
      BY <1>4, <3>1 DEF Awaited
  <2>2. \A j \in DOMAIN ops : (Awaited(j))' => Awaited(j) /\ j # i
    BY <1>12, <1>13, <2>1 DEF Awaited, Returned
  <2>3. \A j \in DOMAIN ops : (Awaited(j))' => ops[j].by \in Events \ {e}
    BY <1>2, <2>1, <2>2, CallTypes DEF IInv, AwaitsMatch
  <2>4. \A d \in Events : at'[d] # "outside" => context'[d] # << >>
    BY <1>15, <1>16 DEF IInv, AwaitsMatch
  <2>5. \A j \in DOMAIN ops :
          (Awaited(j))' => at'[ops'[j].by] = "awaiting" /\ Last(context'[ops'[j].by]) = ops'[j].gate
    BY <1>12, <1>15, <1>16, <2>2, <2>3 DEF IInv, AwaitsMatch
  <2>6. \A j, k \in DOMAIN ops : (Awaited(j))' /\ (Awaited(k))' /\ ops'[j].by = ops'[k].by => j = k
    BY <1>12, <2>2 DEF IInv, AwaitsMatch
  <2> QED
    BY <1>12, <2>4, <2>5, <2>6 DEF AwaitsMatch
<1>25. OneCaller'
  BY <1>12, <1>13 DEF IInv, OneCaller, Returned
<1>26. \A d \in Events \ {e} : at'[d] = "running" => Last(context'[d]) # child
  BY <1>5, <1>15, <1>16, EventTypes DEF IInv, AwaitsMatch
<1>27. RunsAlone'
  <2>1. \A c, d \in Events \ {e} : at'[c] = "running" /\ at'[d] = "running" /\ Last(context'[c]) = Last(context'[d]) => c = d
    BY <1>15, <1>16 DEF IInv, RunsAlone
  <2> QED
    BY <1>16, <1>26, <2>1 DEF RunsAlone
<1>28. OneAtATime'
  <2>1. \A j \in DOMAIN ops : ops'[j].gate # child
    BY <1>5, <1>12, CallTypes
  <2> QED
    BY <1>12, <1>13, <1>15, <1>16, <2>1 DEF IInv, OneAtATime, Returned
<1>29. WaitersNext'
  <2>1. \A h \in All : lockCount'[h] = 0 /\ resolveQueue'[h] # << >> => h \in Gates /\ lockCount[h] = 0 /\ resolveQueue[h] # << >>
    BY <1>10, <1>11 DEF All
  <2> QED
    BY <1>4, <1>9, <2>1 DEF IInv, WaitersNext
<1>30. DrainsHold'
  <2>1. \A j \in DOMAIN immediates : immediates[j].do = "drain" => ops'[immediates[j].op].held = ops[immediates[j].op].held
    BY <1>12, CallbackTypes
  <2> QED
    BY <1>4, <1>8, <2>1, DrainsStay
<1> QED
  BY <1>17, <1>19, <1>20, <1>21, <1>22, <1>23, <1>24, <1>25, <1>27, <1>28, <1>29, <1>30 DEF IInv

\* The closure of a call settles: the call is to unlock, and its event runs on
\* under the gate that it called for.
LEMMA ReturnInvariant ==
  ASSUME IInv, NEW i \in DOMAIN ops, Return(i)
  PROVE  IInv'
<1>1. PICK e \in Events : e = ops[i].by
  BY CallTypes
<1>2. PICK g \in Gates : g = ops[i].gate
  BY CallTypes
<1>3. PICK n : n = Len(immediates) + 1
  OBVIOUS
<1>4. /\ ops' = [ops EXCEPT ![i].at = "returned"] /\ ops[i].at = "closure"
      /\ path' = path /\ lockCount' = lockCount /\ resolveQueue' = resolveQueue
      /\ immediates' = Append(immediates, Unlock(i))
      /\ at' = [at EXCEPT ![e] = IF ops[i].kind = "background" THEN at[e] ELSE "running"]
  BY <1>1 DEF Return, gateVars, Goto
<1>5. /\ DOMAIN ops' = DOMAIN ops
      /\ \A j \in DOMAIN ops : /\ ops'[j].by = ops[j].by /\ ops'[j].gate = ops[j].gate
                               /\ ops'[j].kind = ops[j].kind /\ ops'[j].held = ops[j].held
                               /\ ops'[j].at = IF j = i THEN "returned" ELSE ops[j].at
  BY <1>4, CallGoesOn
<1>6. \A j \in DOMAIN ops : ops'[j].at = "returned" <=> Returned(j) \/ j = i
  BY <1>5 DEF Returned
<1>7. at \in [Events -> EventStates] /\ context \in [Events -> Seq(Gates)] /\ ~ Returned(i)
  BY <1>4, EventTypes DEF Returned
<1>8. /\ at' \in [Events -> EventStates] /\ \A d \in Events \ {e} : at'[d] = at[d]
      /\ at'[e] = IF ops[i].kind = "background" THEN at[e] ELSE "running"
  BY <1>4, <1>7 DEF EventStates
<1>9. /\ context' \in [Events -> Seq(Gates)] /\ \A d \in Events \ {e} : context'[d] = context[d]
      /\ \/ ops[i].kind = "background" /\ context'[e] = context[e]
         \/ /\ ops[i].kind # "background" /\ context'[e] # << >> /\ Last(context'[e]) = g
            /\ at[e] \in {"running", "awaiting"}
            /\ ops[i].kind = "io" => context'[e] = context[e] /\ at[e] = "awaiting"
            /\ ops[i].kind = "block" => at[e] = "running"
  <2>1. CASE ops[i].kind = "background"
    BY <1>1, <1>7, <2>1 DEF Return
  <2>2. CASE ops[i].kind = "io"
    <3>1. Awaited(i)
      BY <1>7, <2>2 DEF Awaited
    <3>2. at[e] = "awaiting" /\ Last(context[e]) = g /\ context[e] # << >>
      BY <1>1, <1>2, <3>1 DEF IInv, AwaitsMatch
    <3> QED
      BY <1>1, <1>7, <2>2, <3>2 DEF Return
  <2>3. CASE ops[i].kind = "block"
    <3> DEFINE c == Front(context[e])
    <3>1. /\ at[e] = "running" /\ Len(context[e]) > 1 /\ context[e][Len(context[e]) - 1] = g
          /\ context' = [context EXCEPT ![e] = c] /\ context[e] \in Seq(Gates)
      BY <1>1, <1>2, <1>7, <2>3 DEF Return
    <3>2. c \in Seq(Gates) /\ Len(c) = Len(context[e]) - 1 /\ c # << >> /\ c[Len(context[e]) - 1] = g
      BY <3>1, Shortened
    <3> HIDE DEF c
    <3>3. Last(c) = g
      BY <3>2 DEF Last
    <3> QED
      BY <1>7, <2>3, <3>1, <3>2, <3>3
  <2> QED
    BY <2>1, <2>2, <2>3, CallTypes
<1>10. /\ immediates' \in Seq(Callbacks)
       /\ DOMAIN immediates' = DOMAIN immediates \union {n} /\ n \notin DOMAIN immediates
       /\ (\A j \in DOMAIN immediates : immediates'[j] = immediates[j]) /\ immediates'[n] = Unlock(i)
  <2>1. Unlock(i) \in Callbacks
    BY DEF Unlock, Callbacks
  <2> QED
    BY <1>3, <1>4, <2>1, CallbackTypes, Appended
<1>11. Releases(Unlock(i)) /\ Unlock(i).op = i
  BY DEF Releases, Unlock
<1>12. TypeOK'
  <2>1. Callbacks' = Callbacks
    BY <1>4, <1>5 DEF Callbacks, Gates
  <2>2. ops' \in Seq([by : Events, gate : Gates, kind : {"io", "background", "block"},
                      at : {"locked", "closure", "returned"}, held : Seq(Gates)])
    BY <1>4, CallGoesOn
  <2> QED
    BY <1>4, <1>8, <1>9, <1>10, <2>1, <2>2 DEF IInv, TypeOK, Gates, EventStates
<1>13. CallbacksMatch'
  <2>1. \A j \in DOMAIN immediates : Releases(immediates[j]) => immediates[j].op \in DOMAIN ops /\ Returned(immediates[j].op) /\ immediates[j].op # i
    BY <1>7, CallbackTypes DEF IInv, CallbacksMatch
  <2>2. \A j \in DOMAIN immediates' : Releases(immediates'[j]) => ops'[immediates'[j].op].at = "returned"
    BY <1>6, <1>10, <1>11, <2>1
  <2>3. \A j, k \in DOMAIN immediates' :
          Releases(immediates'[j]) /\ Releases(immediates'[k]) /\ immediates'[j].op = immediates'[k].op => j = k
    <3> SUFFICES ASSUME NEW j \in DOMAIN immediates', NEW k \in DOMAIN immediates',
                        Releases(immediates'[j]), Releases(immediates'[k]), immediates'[j].op = immediates'[k].op
                 PROVE  j = k
      OBVIOUS
    <3>1. CASE j = n \/ k = n
      BY <1>10, <1>11, <2>1, <3>1
    <3>2. CASE j # n /\ k # n
      BY <1>10, <3>2 DEF IInv, CallbacksMatch
    <3> QED
      BY <3>1, <3>2
  <2>4. \A j \in DOMAIN ops : ops'[j].at = "returned" /\ ops'[j].held # << >> =>
          \E k \in DOMAIN immediates' : Releases(immediates'[k]) /\ immediates'[k].op = j
    BY <1>5, <1>6, <1>10, <1>11 DEF IInv, CallbacksMatch
  <2> QED
    BY <1>5, <2>2, <2>3, <2>4 DEF CallbacksMatch, Returned
<1>14. QueuesMatch'
  <2>1. \A h \in Gates : Waiters(h) \subseteq Events /\ (ops[i].kind # "background" => e \notin Waiters(h))
    <3>1. \A h \in Gates : ops[i].kind # "background" => e \notin Waiters(h)
      BY <1>9 DEF IInv, QueuesMatch
    <3>2. \A h \in Gates : Waiters(h) \subseteq Events
      BY GateTypes, RangeOfSeq DEF Waiters
    <3> QED
      BY <3>1, <3>2
  <2>2. \A d \in Events : d # e \/ ops[i].kind = "background" => at'[d] = at[d] /\ context'[d] = context[d]
    BY <1>8, <1>9
  <2> QED
    BY <1>4, <2>1, <2>2 DEF IInv, QueuesMatch, Waiters, Gates
<1>15. AwaitsMatch'
  <2>1. \A j \in DOMAIN ops : (Awaited(j))' <=> Awaited(j) /\ j # i
    BY <1>4, <1>5, <1>6 DEF Awaited, Returned
  <2>2. \A d \in Events : d # e \/ ops[i].kind = "background" => at'[d] = at[d] /\ context'[d] = context[d]
    BY <1>8, <1>9
  <2>3. \A d \in Events : at'[d] # "outside" => context'[d] # << >>
    BY <1>9, <2>2 DEF IInv, AwaitsMatch
  <2>4. \A j \in DOMAIN ops : Awaited(j) /\ j # i /\ ops[i].kind # "background" => ops[j].by # e
    <3> SUFFICES ASSUME NEW j \in DOMAIN ops, Awaited(j), j # i, ops[i].kind # "background", ops[j].by = e
                 PROVE  FALSE
      OBVIOUS
    <3>1. at[e] = "awaiting"
      BY DEF IInv, AwaitsMatch
    <3>2. ops[i].kind = "io"
      BY <1>9, <3>1, CallTypes
    <3>3. Awaited(i)
      BY <1>7, <3>2 DEF Awaited
    <3> QED
      BY <1>1, <3>3 DEF IInv, AwaitsMatch
  <2>5. \A j \in DOMAIN ops :
          Awaited(j) /\ j # i => at'[ops[j].by] = "awaiting" /\ Last(context'[ops[j].by]) = ops[j].gate
    BY <2>2, <2>4, CallTypes DEF IInv, AwaitsMatch
  <2>6. \A j, k \in DOMAIN ops : Awaited(j) /\ Awaited(k) /\ ops[j].by = ops[k].by => j = k
    BY DEF IInv, AwaitsMatch
  <2> QED
    BY <1>5, <2>1, <2>3, <2>5, <2>6 DEF AwaitsMatch
<1>16. \A d \in Events \ {e} : at[d] = "running" => Last(context[d]) # g
  BY <1>1, <1>2, <1>7 DEF IInv, OneAtATime, Returned
<1>17. RunsAlone'
  <2>1. CASE ops[i].kind = "background"
    <3>1. \A d \in Events : at'[d] = at[d] /\ context'[d] = context[d]
      BY <1>8, <1>9, <2>1
    <3> QED
      BY <3>1 DEF IInv, RunsAlone
  <2>2. CASE ops[i].kind # "background"
    <3>1. \A d \in Events \ {e} : at'[d] = "running" => Last(context'[d]) # Last(context'[e])
      BY <1>8, <1>9, <1>16, <2>2
    <3>2. \A c, d \in Events \ {e} : at'[c] = "running" /\ at'[d] = "running" /\ Last(context'[c]) = Last(context'[d]) => c = d
      BY <1>8, <1>9 DEF IInv, RunsAlone
    <3> QED
      BY <3>1, <3>2 DEF RunsAlone
  <2> QED
    BY <2>1, <2>2
<1>18. OneAtATime'
  <2> SUFFICES ASSUME NEW d \in Events, NEW j \in DOMAIN ops, at'[d] = "running",
                      Last(context'[d]) = ops[j].gate, ops[j].by # d, ~ Returned(j), j # i
               PROVE  FALSE
    BY <1>5, <1>6 DEF OneAtATime
  <2>1. CASE d # e \/ ops[i].kind = "background"
    <3>1. at[d] = "running" /\ Last(context[d]) = ops[j].gate
      BY <1>8, <1>9, <2>1
    <3> QED
      BY <3>1 DEF IInv, OneAtATime, Returned
  <2>2. CASE d = e /\ ops[i].kind # "background"
    <3>1. ops[j].gate = g
      BY <1>9, <2>2
    <3> QED
      BY <1>1, <1>2, <1>7, <2>2, <3>1 DEF IInv, OneCaller
  <2> QED
    BY <2>1, <2>2
<1>19. WaitersNext'
  BY <1>4, <1>10 DEF IInv, WaitersNext, Gates
<1>21. DrainsHold'
  <2>1. \A j \in DOMAIN immediates : immediates[j].do = "drain" => ops'[immediates[j].op].held = ops[immediates[j].op].held
    BY <1>5, CallbackTypes
  <2>2. Unlock(i).do # "drain"
    BY DEF Unlock
  <2> QED
    BY <1>4, <1>10, <2>1, <2>2, DrainsStay
<1>20. GatesNest' /\ HeldNest' /\ LocksCounted' /\ OneCaller'
  <2>1. \A j \in DOMAIN ops : /\ ops'[j].held = ops[j].held /\ ops'[j].gate = ops[j].gate
                              /\ ops'[j].by = ops[j].by /\ (Returned(j) => ops'[j].at = "returned")
    BY <1>5, <1>6
  <2> QED
    BY <1>4, <1>5, <2>1, HoldingStays
<1> QED
  BY <1>12, <1>13, <1>14, <1>15, <1>17, <1>18, <1>19, <1>20, <1>21 DEF IInv

-----------------------------------------------------------------------------
(***************************************************************************)
(* Unlocking: call i gives the gates in taken up and keeps rest.           *)
(***************************************************************************)
GivesUp(i, taken, rest) ==
  /\ taken \subseteq Held(i) /\ Range(rest) = Held(i) \ taken
  /\ IsInjective(rest) /\ Outward(path, rest)
  /\ path' = path /\ context' = context
  /\ ops' = [ops EXCEPT ![i].held = rest]
  /\ lockCount' = [h \in Gates |-> IF h \in taken THEN lockCount[h] - 1 ELSE lockCount[h]]

\* What only depends on the gates, and on what calls hold of them.
LEMMA GivesUpKeeps ==
  ASSUME IInv, NEW i \in DOMAIN ops, Returned(i), NEW taken \in SUBSET Gates, NEW rest \in Seq(Gates),
         GivesUp(i, taken, rest)
  PROVE  /\ ops' \in Seq([by : Events, gate : Gates, kind : {"io", "background", "block"},
                          at : {"locked", "closure", "returned"}, held : Seq(Gates)])
         /\ DOMAIN ops' = DOMAIN ops /\ ops'[i].held = rest
         /\ \A j \in DOMAIN ops : /\ ops'[j].by = ops[j].by /\ ops'[j].gate = ops[j].gate
                                  /\ ops'[j].kind = ops[j].kind /\ ops'[j].at = ops[j].at
                                  /\ j # i => ops'[j] = ops[j]
         /\ lockCount' \in [Gates -> Nat]
         /\ GatesNest' /\ HeldNest' /\ LocksCounted' /\ OneCaller'
<1> DEFINE Op == [by : Events, gate : Gates, kind : {"io", "background", "block"},
                  at : {"locked", "closure", "returned"}, held : Seq(Gates)]
           op == [ops[i] EXCEPT !.held = rest]
<1>1. ops \in Seq(Op) /\ ops[i] \in Op /\ i \in 1 .. Len(ops) /\ DOMAIN ops = 1 .. Len(ops)
  BY CallTypes DEF IInv, TypeOK
<1>2. /\ op \in Op /\ op.by = ops[i].by /\ op.gate = ops[i].gate /\ op.kind = ops[i].kind
      /\ op.held = rest /\ op.at = ops[i].at
  BY <1>1
<1>3. ops' = [ops EXCEPT ![i] = op] /\ path' = path
  BY DEF GivesUp
<1> HIDE DEF op, Op
<1>4. ops' \in Seq(Op) /\ DOMAIN ops' = DOMAIN ops /\ ops'[i] = op /\ \A j \in DOMAIN ops : j # i => ops'[j] = ops[j]
  BY <1>1, <1>2, <1>3
<1>5. \A j \in DOMAIN ops : /\ ops'[j].by = ops[j].by /\ ops'[j].gate = ops[j].gate
                            /\ ops'[j].kind = ops[j].kind /\ ops'[j].at = ops[j].at
  BY <1>2, <1>4
<1>6. GatesNest'
  BY <1>3 DEF IInv, GatesNest, Gates
<1>7. HeldNest'
  <2>1. \A j \in DOMAIN ops : /\ IsInjective(ops'[j].held) /\ Outward(path, ops'[j].held)
                              /\ ~ Returned(j) => ops'[j].held = path[ops[j].gate]
    BY <1>2, <1>4 DEF IInv, HeldNest, GivesUp
  <2> QED
    BY <1>3, <1>4, <1>5, <2>1 DEF HeldNest, Returned
<1>8. ASSUME NEW h \in Gates
      PROVE  lockCount'[h] \in Nat /\ lockCount'[h] = Cardinality(Holders(h)')
  <2>1. IsFiniteSet(Holders(h)) /\ lockCount[h] \in Nat /\ lockCount[h] = Cardinality(Holders(h))
    BY OpenIsFree DEF IInv, LocksCounted
  <2>2. lockCount'[h] = IF h \in taken THEN lockCount[h] - 1 ELSE lockCount[h]
    BY DEF GivesUp
  <2>3. \A j \in DOMAIN ops \ {i} : h \in Range(ops'[j].held) <=> h \in Held(j)
    BY <1>4 DEF Held
  <2>4. Range(ops'[i].held) = Held(i) \ taken
    BY <1>2, <1>4 DEF GivesUp
  <2>5. CASE h \in taken
    <3>1. i \in Holders(h)
      BY <2>5 DEF Holders, GivesUp
    <3>2. Holders(h)' = Holders(h) \ {i}
      BY <1>4, <2>3, <2>4, <2>5 DEF Holders, Held
    <3>3. Cardinality(Holders(h) \ {i}) = Cardinality(Holders(h)) - 1 /\ IsFiniteSet(Holders(h) \ {i})
      BY <2>1, <3>1, FS_RemoveElement
    <3>4. Cardinality(Holders(h) \ {i}) \in Nat
      BY <3>3, FS_CardinalityType
    <3> QED
      BY <2>1, <2>2, <2>5, <3>2, <3>3, <3>4
  <2>6. CASE h \notin taken
    <3>1. Holders(h)' = Holders(h)
      BY <1>4, <2>3, <2>4, <2>6 DEF Holders, Held
    <3> QED
      BY <2>1, <2>2, <2>6, <3>1
  <2> QED
    BY <2>5, <2>6
<1>9. LocksCounted' /\ lockCount' \in [Gates -> Nat]
  <2>1. lockCount' = [h \in Gates |-> lockCount'[h]]
    BY DEF GivesUp
  <2> QED
    BY <1>3, <1>8, <2>1 DEF LocksCounted, Gates
<1>10. OneCaller'
  BY <1>4, <1>5 DEF IInv, OneCaller, Returned
<1> QED
  BY <1>2, <1>4, <1>5, <1>6, <1>7, <1>9, <1>10 DEF Op

\* Nobody is to be let in: the call has unlocked all.
LEMMA DrainedInvariant ==
  ASSUME IInv, NEW i \in DOMAIN ops, Returned(i), NEW taken \in SUBSET Gates, NEW rest \in Seq(Gates),
         GivesUp(i, taken, rest), rest = << >>,
         immediates # << >>, Releases(Head(immediates)), Head(immediates).op = i,
         \A h \in taken : lockCount[h] = 1 => resolveQueue[h] = << >>,
         Head(immediates).do = "drain" =>
           lockCount[Head(immediates).gate] # 0 \/ resolveQueue[Head(immediates).gate] = << >>,
         UNCHANGED <<resolveQueue, at>>, immediates' = Tail(immediates)
  PROVE  IInv'
<1>1. path' = path /\ context' = context /\ resolveQueue' = resolveQueue /\ at' = at /\ Gates' = Gates
  BY DEF GivesUp, Gates
<1>2. /\ DOMAIN ops' = DOMAIN ops /\ ops'[i].held = rest
      /\ \A j \in DOMAIN ops : /\ ops'[j].by = ops[j].by /\ ops'[j].gate = ops[j].gate
                               /\ ops'[j].kind = ops[j].kind /\ ops'[j].at = ops[j].at
                               /\ j # i => ops'[j] = ops[j]
  BY GivesUpKeeps
<1>3. lockCount' \in [Gates -> Nat] /\ GatesNest' /\ HeldNest' /\ LocksCounted' /\ OneCaller'
  BY GivesUpKeeps
<1>4. /\ immediates' \in Seq(Callbacks) /\ Head(immediates) = immediates[1] /\ 1 \in DOMAIN immediates
      /\ \A j \in DOMAIN immediates' : j + 1 \in DOMAIN immediates /\ j + 1 # 1 /\ immediates'[j] = immediates[j + 1]
      /\ \A j, k \in DOMAIN immediates' : j + 1 = k + 1 => j = k
      /\ \A j \in DOMAIN immediates : j # 1 => j - 1 \in DOMAIN immediates' /\ immediates'[j - 1] = immediates[j]
  BY CallbackTypes, Shifted
<1>5. \A j \in DOMAIN immediates : j # 1 /\ Releases(immediates[j]) => immediates[j].op # i
  BY <1>4 DEF IInv, CallbacksMatch
<1>6. TypeOK'
  <2>1. Callbacks' = Callbacks
    BY <1>1, <1>2 DEF Callbacks
  <2>2. ops' \in Seq([by : Events, gate : Gates, kind : {"io", "background", "block"},
                      at : {"locked", "closure", "returned"}, held : Seq(Gates)])
    BY GivesUpKeeps
  <2> QED
    BY <1>1, <1>3, <1>4, <2>1, <2>2 DEF IInv, TypeOK
<1>7. CallbacksMatch'
  <2>1. ASSUME NEW j \in DOMAIN immediates', Releases(immediates'[j])
        PROVE  ops'[immediates'[j].op].at = "returned"
    <3>1. PICK k \in DOMAIN immediates : immediates'[j] = immediates[k]
      BY <1>4
    <3>2. Releases(immediates[k]) /\ immediates[k].op \in DOMAIN ops
      BY <2>1, <3>1, CallbackTypes
    <3> QED
      BY <1>2, <3>1, <3>2 DEF IInv, CallbacksMatch, Returned
  <2>2. \A j, k \in DOMAIN immediates' :
          Releases(immediates'[j]) /\ Releases(immediates'[k]) /\ immediates'[j].op = immediates'[k].op => j = k
    BY <1>4 DEF IInv, CallbacksMatch
  <2>3. ASSUME NEW k \in DOMAIN ops, ops'[k].at = "returned", ops'[k].held # << >>
        PROVE  \E j \in DOMAIN immediates' : Releases(immediates'[j]) /\ immediates'[j].op = k
    <3>1. k # i /\ Returned(k) /\ ops[k].held # << >>
      BY <1>2, <2>3 DEF Returned
    <3>2. PICK j \in DOMAIN immediates : Releases(immediates[j]) /\ immediates[j].op = k
      BY <3>1 DEF IInv, CallbacksMatch
    <3>3. j # 1
      BY <1>4, <3>1, <3>2
    <3>4. j - 1 \in DOMAIN immediates' /\ immediates'[j - 1] = immediates[j]
      BY <1>4, <3>3
    <3> QED
      BY <3>2, <3>4
  <2> QED
    BY <1>2, <2>1, <2>2, <2>3 DEF CallbacksMatch, Returned
<1>8. QueuesMatch' /\ RunsAlone'
  BY <1>1 DEF IInv, QueuesMatch, RunsAlone, Waiters
<1>9. AwaitsMatch'
  <2>1. \A j \in DOMAIN ops : (Awaited(j))' <=> Awaited(j)
    BY <1>2 DEF Awaited, Returned
  <2> QED
    BY <1>1, <1>2, <2>1 DEF IInv, AwaitsMatch
<1>10. OneAtATime'
  BY <1>1, <1>2 DEF IInv, OneAtATime
<1>11. WaitersNext'
  <2> SUFFICES ASSUME NEW h \in Gates, lockCount'[h] = 0, resolveQueue[h] # << >>
               PROVE  \E j \in DOMAIN immediates' : immediates'[j].do = "drain" /\ immediates'[j].gate = h
    BY <1>1 DEF WaitersNext
  <2>1. lockCount[h] = 0
    BY GateTypes DEF GivesUp
  <2>2. PICK j \in DOMAIN immediates : immediates[j].do = "drain" /\ immediates[j].gate = h
    BY <2>1 DEF IInv, WaitersNext
  <2>3. j # 1
    BY <1>4, <2>1, <2>2
  <2>4. j - 1 \in DOMAIN immediates' /\ immediates'[j - 1] = immediates[j]
    BY <1>4, <2>3
  <2> QED
    BY <2>2, <2>4
<1>12. DrainsHold'
  <2> SUFFICES ASSUME NEW j \in DOMAIN immediates', immediates'[j].do = "drain"
               PROVE  \E k \in DOMAIN immediates :
                        immediates'[j] = immediates[k] /\ ops'[immediates[k].op] = ops[immediates[k].op]
    BY <1>1, DrainsStay
  <2>1. PICK k \in DOMAIN immediates : k # 1 /\ immediates'[j] = immediates[k]
    BY <1>4
  <2>2. immediates[k].op \in DOMAIN ops /\ immediates[k].op # i
    BY <1>5, <2>1, CallbackTypes
  <2> QED
    BY <1>2, <2>1, <2>2
<1> QED
  BY <1>3, <1>6, <1>7, <1>8, <1>9, <1>10, <1>11, <1>12 DEF IInv

\* The first waiter of gate w is let in; the call holds the gates outside w.
LEMMA LetInInvariant ==
  ASSUME IInv, NEW i \in DOMAIN ops, Returned(i), NEW taken \in SUBSET Gates, NEW rest \in Seq(Gates),
         GivesUp(i, taken, rest), TurnIsOver,
         immediates # << >>, Releases(Head(immediates)), Head(immediates).op = i,
         NEW w \in Gates, lockCount'[w] = 0, resolveQueue[w] # << >>, Range(path[w]) \ {w} \subseteq Range(rest),
         \A h \in taken \ {w} : lockCount[h] = 1 => resolveQueue[h] = << >>,
         Head(immediates).do = "drain" =>
           \/ Head(immediates).gate = w
           \/ lockCount[Head(immediates).gate] # 0 \/ resolveQueue[Head(immediates).gate] = << >>,
         LetIn(i, w)
  PROVE  IInv'
<1> DEFINE queue == resolveQueue[w]
<1>1. PICK d \in Events : d = Head(queue)
  BY GateTypes
<1>2. PICK n : n = Len(immediates)
  OBVIOUS
<1>3. path' = path /\ context' = context /\ Gates' = Gates
  BY DEF GivesUp, Gates
<1>4. /\ at' = [at EXCEPT ![d] = "running"]
      /\ resolveQueue' = [resolveQueue EXCEPT ![w] = Tail(queue)]
      /\ immediates' = Append(Tail(immediates), Drain(i, w))
  BY <1>1 DEF LetIn, Goto
<1>5. /\ DOMAIN ops' = DOMAIN ops /\ ops'[i].held = rest
      /\ \A j \in DOMAIN ops : /\ ops'[j].by = ops[j].by /\ ops'[j].gate = ops[j].gate
                               /\ ops'[j].kind = ops[j].kind /\ ops'[j].at = ops[j].at
                               /\ j # i => ops'[j] = ops[j]
  BY GivesUpKeeps
<1>6. lockCount' \in [Gates -> Nat] /\ GatesNest' /\ HeldNest' /\ LocksCounted' /\ OneCaller'
  BY GivesUpKeeps
<1>7. Drain(i, w) \in Callbacks /\ Releases(Drain(i, w)) /\ Drain(i, w).op = i
      /\ Drain(i, w).do = "drain" /\ Drain(i, w).gate = w
  BY DEF Drain, Callbacks, Releases
<1>8. /\ immediates' \in Seq(Callbacks) /\ n \in DOMAIN immediates' /\ immediates'[n] = Drain(i, w)
      /\ Head(immediates) = immediates[1] /\ 1 \in DOMAIN immediates
      /\ \A j \in DOMAIN immediates' : j # n => j + 1 \in DOMAIN immediates /\ j + 1 # 1 /\ immediates'[j] = immediates[j + 1]
      /\ \A j, k \in DOMAIN immediates' : j + 1 = k + 1 => j = k
      /\ \A j \in DOMAIN immediates : j # 1 => j - 1 \in DOMAIN immediates' /\ immediates'[j - 1] = immediates[j]
  <2>1. immediates \in Seq(Callbacks)
    BY CallbackTypes
  <2>2. /\ immediates' \in Seq(Callbacks) /\ n \in DOMAIN immediates' /\ immediates'[n] = Drain(i, w)
        /\ \A j \in DOMAIN immediates' : j # n => j + 1 \in DOMAIN immediates /\ j + 1 # 1 /\ immediates'[j] = immediates[j + 1]
        /\ \A j, k \in DOMAIN immediates' : j + 1 = k + 1 => j = k
        /\ \A j \in DOMAIN immediates : j # 1 => j - 1 \in DOMAIN immediates' /\ immediates'[j - 1] = immediates[j]
    BY <1>2, <1>4, <1>7, <2>1, Rotated
  <2>3. Head(immediates) = immediates[1] /\ 1 \in DOMAIN immediates
    BY <2>1, Shifted
  <2> QED
    BY <2>2, <2>3
<1>9. \A j \in DOMAIN immediates : j # 1 /\ Releases(immediates[j]) => immediates[j].op # i
  BY <1>8 DEF IInv, CallbacksMatch
<1>10. /\ queue \in Seq(Events) /\ IsInjective(queue) /\ Waiters(w) = Range(queue)
  BY GateTypes DEF IInv, QueuesMatch, Waiters
<1> HIDE DEF queue
<1>11. /\ Tail(queue) \in Seq(Events) /\ IsInjective(Tail(queue)) /\ Range(Tail(queue)) = Waiters(w) \ {d}
       /\ d \in Waiters(w)
  BY <1>1, <1>10, Shifted DEF queue
<1>12. at[d] = "waiting" /\ Last(context[d]) = w
  BY <1>11 DEF IInv, QueuesMatch
<1>13. /\ at \in [Events -> EventStates] /\ at' \in [Events -> EventStates] /\ at'[d] = "running"
       /\ \A e \in Events \ {d} : at'[e] = at[e]
  BY <1>4, EventTypes DEF EventStates
<1>14. /\ resolveQueue' \in [Gates -> Seq(Events)] /\ resolveQueue'[w] = Tail(queue)
       /\ \A h \in Gates \ {w} : resolveQueue'[h] = resolveQueue[h]
  BY <1>4, <1>11, GateTypes
<1>15. TypeOK'
  <2>1. Callbacks' = Callbacks
    BY <1>3, <1>5 DEF Callbacks
  <2>2. ops' \in Seq([by : Events, gate : Gates, kind : {"io", "background", "block"},
                      at : {"locked", "closure", "returned"}, held : Seq(Gates)])
    BY GivesUpKeeps
  <2> QED
    BY <1>3, <1>6, <1>8, <1>13, <1>14, <2>1, <2>2 DEF IInv, TypeOK, EventStates
<1>16. CallbacksMatch'
  <2>1. ASSUME NEW j \in DOMAIN immediates', Releases(immediates'[j])
        PROVE  ops'[immediates'[j].op].at = "returned"
    <3>1. CASE j = n
      BY <1>5, <1>7, <1>8, <3>1 DEF Returned
    <3>2. CASE j # n
      <4>1. PICK k \in DOMAIN immediates : immediates'[j] = immediates[k]
        BY <1>8, <3>2
      <4>2. Releases(immediates[k]) /\ immediates[k].op \in DOMAIN ops
        BY <2>1, <4>1, CallbackTypes
      <4> QED
        BY <1>5, <4>1, <4>2 DEF IInv, CallbacksMatch, Returned
    <3> QED
      BY <3>1, <3>2
  <2>2. ASSUME NEW j \in DOMAIN immediates', NEW k \in DOMAIN immediates',
               Releases(immediates'[j]), Releases(immediates'[k]), immediates'[j].op = immediates'[k].op
        PROVE  j = k
    <3>1. ASSUME NEW l \in DOMAIN immediates', Releases(immediates'[l]), l # n PROVE immediates'[l].op # i
      <4>1. PICK x \in DOMAIN immediates : x # 1 /\ immediates'[l] = immediates[x]
        BY <1>8, <3>1
      <4> QED
        BY <1>9, <3>1, <4>1
    <3>2. CASE j # n /\ k # n
      BY <1>8, <2>2, <3>2 DEF IInv, CallbacksMatch
    <3> QED
      BY <1>7, <1>8, <2>2, <3>1, <3>2
  <2>3. ASSUME NEW k \in DOMAIN ops, ops'[k].at = "returned", ops'[k].held # << >>
        PROVE  \E j \in DOMAIN immediates' : Releases(immediates'[j]) /\ immediates'[j].op = k
    <3>1. CASE k = i
      BY <1>7, <1>8, <3>1
    <3>2. CASE k # i
      <4>1. Returned(k) /\ ops[k].held # << >>
        BY <1>5, <2>3, <3>2 DEF Returned
      <4>2. PICK j \in DOMAIN immediates : Releases(immediates[j]) /\ immediates[j].op = k
        BY <4>1 DEF IInv, CallbacksMatch
      <4>3. j # 1
        BY <1>8, <3>2, <4>2
      <4>4. j - 1 \in DOMAIN immediates' /\ immediates'[j - 1] = immediates[j]
        BY <1>8, <4>3
      <4> QED
        BY <4>2, <4>4
    <3> QED
      BY <3>1, <3>2
  <2> QED
    BY <1>5, <2>1, <2>2, <2>3 DEF CallbacksMatch, Returned
<1>17. QueuesMatch'
  <2>1. \A h \in Gates : Waiters(h) \subseteq Events
    BY GateTypes, RangeOfSeq DEF Waiters
  <2>2. ASSUME NEW h \in Gates, h # w
        PROVE  IsInjective(resolveQueue'[h]) /\ \A e \in Range(resolveQueue'[h]) : at'[e] = "waiting" /\ Last(context[e]) = h
    <3>1. d \notin Waiters(h)
      BY <1>12, <2>2 DEF IInv, QueuesMatch
    <3> QED
      BY <1>13, <1>14, <2>1, <2>2, <3>1 DEF IInv, QueuesMatch, Waiters
  <2>3. IsInjective(resolveQueue'[w]) /\ \A e \in Range(resolveQueue'[w]) : at'[e] = "waiting" /\ Last(context[e]) = w
    BY <1>11, <1>13, <1>14, <2>1 DEF IInv, QueuesMatch
  <2> QED
    BY <1>3, <2>2, <2>3 DEF QueuesMatch, Waiters
<1>18. AwaitsMatch'
  <2>1. \A j \in DOMAIN ops : Awaited(j) => ops[j].by # d
    BY <1>12 DEF IInv, AwaitsMatch
  <2>2. \A j \in DOMAIN ops : (Awaited(j))' <=> Awaited(j)
    BY <1>5 DEF Awaited, Returned
  <2>3. \A e \in Events : at'[e] # "outside" => context'[e] # << >>
    BY <1>3, <1>12, <1>13 DEF IInv, AwaitsMatch
  <2>4. \A j \in DOMAIN ops :
          Awaited(j) => at'[ops[j].by] = "awaiting" /\ Last(context'[ops[j].by]) = ops[j].gate
    BY <1>3, <1>13, <2>1, CallTypes DEF IInv, AwaitsMatch
  <2>5. \A j, k \in DOMAIN ops : Awaited(j) /\ Awaited(k) /\ ops[j].by = ops[k].by => j = k
    BY DEF IInv, AwaitsMatch
  <2> QED
    BY <1>5, <2>2, <2>3, <2>4, <2>5 DEF AwaitsMatch
<1>19. RunsAlone'
  BY <1>13 DEF RunsAlone, TurnIsOver
<1>20. OneAtATime'
  <2> SUFFICES ASSUME NEW e \in Events, NEW j \in DOMAIN ops, at'[e] = "running", Last(context[e]) = ops[j].gate
               PROVE  ops'[j].at = "returned"
    BY <1>3, <1>5 DEF OneAtATime
  <2>1. e = d
    BY <1>13 DEF TurnIsOver
  <2>2. ops[j].gate = w
    BY <1>12, <2>1
  <2>3. Holders(w)' = {}
    <3>1. Holders(w)' \subseteq DOMAIN ops
      BY <1>5 DEF Holders
    <3>2. IsFiniteSet(Holders(w)')
      BY <3>1, CallTypes, FS_Subset
    <3>3. Cardinality(Holders(w)') = 0
      BY <1>3, <1>6 DEF LocksCounted
    <3> QED
      BY <3>2, <3>3, FS_EmptySet
  <2>4. w \notin Range(ops'[j].held)
    BY <1>5, <2>3 DEF Holders, Held
  <2>5. ops'[j].at # "returned" => ops'[j].held = path[w]
    BY <1>3, <1>5, <1>6, <2>2 DEF HeldNest, Returned
  <2>6. w \in Range(path[w])
    BY DEF IInv, GatesNest
  <2> QED
    BY <2>4, <2>5, <2>6
<1>21. WaitersNext'
  <2> SUFFICES ASSUME NEW h \in Gates, lockCount'[h] = 0, resolveQueue'[h] # << >>
               PROVE  \E j \in DOMAIN immediates' : immediates'[j].do = "drain" /\ immediates'[j].gate = h
    BY <1>3 DEF WaitersNext
  <2>1. CASE h = w
    BY <1>7, <1>8, <2>1
  <2>2. CASE h # w
    <3>1. resolveQueue[h] # << >>
      BY <1>14, <2>2
    <3>2. lockCount[h] = 0
      BY <2>2, <3>1, GateTypes DEF GivesUp
    <3>3. PICK j \in DOMAIN immediates : immediates[j].do = "drain" /\ immediates[j].gate = h
      BY <3>1, <3>2 DEF IInv, WaitersNext
    <3>4. j # 1
      BY <1>8, <2>2, <3>1, <3>2, <3>3
    <3>5. j - 1 \in DOMAIN immediates' /\ immediates'[j - 1] = immediates[j]
      BY <1>8, <3>4
    <3> QED
      BY <3>3, <3>5
  <2> QED
    BY <2>1, <2>2
<1>22. DrainsHold'
  <2> SUFFICES ASSUME NEW j \in DOMAIN immediates', immediates'[j].do = "drain"
               PROVE  Range(path[immediates'[j].gate]) \ {immediates'[j].gate} \subseteq Range(ops'[immediates'[j].op].held)
    BY <1>3 DEF DrainsHold, Held
  <2>1. CASE j = n
    BY <1>5, <1>7, <1>8, <2>1
  <2>2. CASE j # n
    <3>1. PICK k \in DOMAIN immediates : k # 1 /\ immediates'[j] = immediates[k]
      BY <1>8, <2>2
    <3>2. immediates[k].op \in DOMAIN ops /\ immediates[k].op # i
      BY <1>9, <3>1, CallbackTypes
    <3>3. ops'[immediates[k].op] = ops[immediates[k].op]
      BY <1>5, <3>2
    <3> QED
      BY <3>1, <3>3 DEF IInv, DrainsHold, Held
  <2> QED
    BY <2>1, <2>2
<1> QED
  BY <1>6, <1>15, <1>16, <1>17, <1>18, <1>19, <1>20, <1>21, <1>22 DEF IInv

\* Call i unlocks from the inside out, up to a gate where somebody waits.
LEMMA UnlockInvariant ==
  ASSUME IInv, NEW i \in DOMAIN ops, Returned(i), TurnIsOver,
         immediates # << >>, Releases(Head(immediates)), Head(immediates).op = i,
         Head(immediates).do = "drain" =>
           lockCount[Head(immediates).gate] # 0 \/ resolveQueue[Head(immediates).gate] = << >>,
         UnlockNext(i), path' = path, context' = context
  PROVE  IInv'
<1> DEFINE held == ops[i].held
           wake == {j \in DOMAIN held : lockCount[held[j]] = 1 /\ resolveQueue[held[j]] # << >>}
           last == IF wake = {} THEN Len(held) ELSE Min(wake)
           taken == {held[j] : j \in 1 .. last}
           rest == SubSeq(held, last + 1, Len(held))
<1>1. /\ lockCount' = [h \in Gates |->
                         IF \E j \in 1 .. last : held[j] = h THEN lockCount[h] - 1 ELSE lockCount[h]]
      /\ ops' = [ops EXCEPT ![i].held = rest]
      /\ \/ wake = {} /\ UNCHANGED <<resolveQueue, at>> /\ immediates' = Tail(immediates)
         \/ wake # {} /\ LetIn(i, held[last])
  BY DEF UnlockNext
<1> HIDE DEF held
<1>2. /\ held \in Seq(Gates) /\ Len(held) \in Nat /\ DOMAIN held = 1 .. Len(held)
      /\ \A j \in DOMAIN held : held[j] \in Gates
  BY CallTypes DEF held
<1>3. IsInjective(held) /\ Outward(path, held) /\ Held(i) = Range(held)
  BY DEF IInv, HeldNest, held, Held
<1>4. wake # {} => Min(wake) \in wake /\ \A m \in wake : Min(wake) <= m
  <2>1. wake \subseteq Nat
    BY <1>2
  <2> HIDE DEF wake
  <2> QED
    BY <2>1, LeastNumber
<1>5. /\ last \in 0 .. Len(held)
      /\ wake = {} => last = Len(held)
      /\ wake # {} => last \in wake /\ \A m \in wake : last <= m
  <2>1. wake \subseteq DOMAIN held
    OBVIOUS
  <2> HIDE DEF wake
  <2> QED
    BY <1>2, <1>4, <2>1
<1>6. \A j \in DOMAIN held : j \in wake <=> lockCount[held[j]] = 1 /\ resolveQueue[held[j]] # << >>
  OBVIOUS
<1>7. wake \subseteq DOMAIN held
  OBVIOUS
<1> HIDE DEF last, wake
<1>8. /\ rest \in Seq(Gates) /\ DOMAIN rest = 1 .. Len(held) - last
      /\ \A j \in 1 .. Len(held) - last : rest[j] = held[j + last]
  BY <1>2, <1>5, Dropped
<1> HIDE DEF rest
<1>9. /\ \A j \in DOMAIN rest : j + last \in DOMAIN held /\ j + last \notin 1 .. last /\ rest[j] = held[j + last]
      /\ \A j, k \in DOMAIN rest : j + last = k + last => j = k
      /\ \A j \in DOMAIN held : j \notin 1 .. last => j - last \in DOMAIN rest /\ rest[j - last] = held[j]
      /\ 1 .. last \subseteq DOMAIN held
  <2>1. last \in Nat /\ Len(held) \in Nat /\ last <= Len(held)
    <3>1. Len(held) \in Nat
      BY <1>2
    <3>2. last \in 0 .. Len(held)
      BY <1>5
    <3> QED
      BY <3>1, <3>2
  <2>2. ASSUME NEW j \in DOMAIN held, j \notin 1 .. last
        PROVE  j - last \in DOMAIN rest /\ rest[j - last] = held[j]
    <3>1. j - last \in 1 .. Len(held) - last /\ (j - last) + last = j
      BY <1>2, <2>1, <2>2
    <3> QED
      BY <1>8, <3>1
  <2>3. \A j \in DOMAIN rest : j + last \in DOMAIN held /\ j + last \notin 1 .. last /\ rest[j] = held[j + last]
    BY <1>2, <1>8, <2>1
  <2>4. \A j, k \in DOMAIN rest : j + last = k + last => j = k
    BY <1>8, <2>1
  <2>5. 1 .. last \subseteq DOMAIN held
    BY <1>2, <2>1
  <2> QED
    BY <2>2, <2>3, <2>4, <2>5
<1>10. taken \in SUBSET Gates /\ taken \subseteq Held(i)
  BY <1>2, <1>3, <1>9 DEF Range
<1>11. Range(rest) = Held(i) \ taken
  <2>1. ASSUME NEW j \in DOMAIN rest PROVE rest[j] \in Held(i) \ taken
    <3>1. \A k \in 1 .. last : held[k] # held[j + last]
      BY <1>3, <1>9 DEF IsInjective
    <3> QED
      BY <1>3, <1>9, <3>1 DEF Range
  <2>2. ASSUME NEW j \in DOMAIN held, held[j] \notin taken PROVE held[j] \in Range(rest)
    <3>1. j \notin 1 .. last
      BY <2>2
    <3> QED
      BY <1>9, <3>1 DEF Range
  <2> QED
    BY <1>3, <2>1, <2>2 DEF Range
<1>12. IsInjective(rest)
  BY <1>3, <1>9 DEF IsInjective
<1>13. Outward(path, rest)
  <2> SUFFICES ASSUME NEW j \in DOMAIN rest, NEW h \in Range(path[rest[j]])
               PROVE  \E k \in DOMAIN rest : j <= k /\ rest[k] = h
    BY DEF Outward
  <2>1. j + last \in DOMAIN held /\ rest[j] = held[j + last]
    BY <1>9
  <2>2. PICK k \in DOMAIN held : j + last <= k /\ held[k] = h
    BY <1>3, <2>1 DEF Outward
  <2>3. j \in Nat \ {0} /\ last \in Nat /\ k \in Nat
    <3>1. Len(held) \in Nat /\ k \in 1 .. Len(held)
      BY <1>2
    <3>2. last \in 0 .. Len(held)
      BY <1>5
    <3>3. j \in 1 .. Len(held) - last
      BY <1>8
    <3> QED
      BY <3>1, <3>2, <3>3
  <2>4. k \notin 1 .. last /\ j <= k - last
    BY <2>2, <2>3
  <2> QED
    BY <1>9, <2>2, <2>4
<1>14. GivesUp(i, taken, rest)
  <2>1. \A h \in Gates : h \in taken <=> \E j \in 1 .. last : held[j] = h
    OBVIOUS
  <2> HIDE DEF taken
  <2> QED
    BY <1>1, <1>10, <1>11, <1>12, <1>13, <2>1 DEF GivesUp
<1>15. CASE wake = {}
  <2>1. rest = << >>
    BY <1>2, <1>5, <1>8, <1>15
  <2>2. \A h \in taken : lockCount[h] = 1 => resolveQueue[h] = << >>
    BY <1>6, <1>9, <1>15
  <2> HIDE DEF taken
  <2> QED
    BY <1>1, <1>8, <1>10, <1>14, <1>15, <2>1, <2>2, DrainedInvariant
<1>16. CASE wake # {}
  <2>1. PICK w \in Gates : w = held[last]
    BY <1>2, <1>5, <1>7, <1>16
  <2>2. last \in DOMAIN held /\ last \in 1 .. last /\ lockCount[w] = 1 /\ resolveQueue[w] # << >>
    <3>1. last \in wake /\ last \in DOMAIN held
      BY <1>5, <1>7, <1>16
    <3>2. lockCount[w] = 1 /\ resolveQueue[w] # << >>
      BY <1>6, <2>1, <3>1
    <3>3. Len(held) \in Nat /\ last \in 1 .. Len(held)
      BY <1>2, <3>1
    <3>4. last \in 1 .. last
      BY <3>3
    <3> QED
      BY <3>1, <3>2, <3>4
  <2>3. lockCount'[w] = 0
    BY <1>1, <2>1, <2>2
  <2>4. Range(path[w]) \ {w} \subseteq Range(rest)
    <3> SUFFICES ASSUME NEW h \in Range(path[w]), h # w
                 PROVE  h \in Range(rest)
      OBVIOUS
    <3>1. PICK k \in DOMAIN held : last <= k /\ held[k] = h
      BY <1>3, <2>1, <2>2 DEF Outward
    <3>2. k \notin 1 .. last
      BY <1>2, <2>1, <2>2, <3>1
    <3> QED
      BY <1>9, <3>1, <3>2 DEF Range
  <2>5. ASSUME NEW h \in taken \ {w}, lockCount[h] = 1 PROVE resolveQueue[h] = << >>
    <3>1. PICK j \in 1 .. last : held[j] = h
      OBVIOUS
    <3>2. j < last /\ j \in DOMAIN held
      BY <1>9, <2>1, <2>2, <2>5, <3>1
    <3>3. j \notin wake
      BY <1>2, <1>5, <1>16, <2>2, <3>2
    <3> QED
      BY <1>6, <2>5, <3>1, <3>2, <3>3
  <2>6. LetIn(i, w)
    BY <1>1, <1>16, <2>1
  <2> HIDE DEF taken
  <2> QED
    BY <1>8, <1>10, <1>14, <2>2, <2>3, <2>4, <2>5, <2>6, LetInInvariant
<1> QED
  BY <1>15, <1>16

\* The first turn of a call that unlocks, and the turns after waiters have run.
LEMMA ReleaseInvariant ==
  ASSUME IInv, NEW i \in DOMAIN ops, StartUnlock(i) \/ \E g \in Gates : ResumeUnlock(i, g)
  PROVE  IInv'
<1>1. TurnIsOver /\ immediates # << >> /\ path' = path /\ context' = context
  BY DEF StartUnlock, ResumeUnlock, ItsTurn
<1>2. 1 \in DOMAIN immediates /\ Head(immediates) = immediates[1]
  BY <1>1, CallbackTypes, Shifted
<1>3. Releases(Head(immediates)) /\ Head(immediates).op = i
  BY DEF StartUnlock, ResumeUnlock, ItsTurn, Unlock, Drain, Releases
<1>4. Returned(i)
  BY <1>2, <1>3 DEF IInv, CallbacksMatch
<1>5. CASE StartUnlock(i)
  <2>1. Head(immediates).do # "drain" /\ UnlockNext(i)
    BY <1>5 DEF StartUnlock, ItsTurn, Unlock
  <2> QED
    BY <1>1, <1>3, <1>4, <2>1, UnlockInvariant
<1>6. ASSUME NEW g \in Gates, ResumeUnlock(i, g) PROVE IInv'
  <2>1. Head(immediates).do = "drain" /\ Head(immediates).gate = g
    BY <1>6 DEF ResumeUnlock, ItsTurn, Drain
  <2>2. CASE (lockCount[g] > 0 \/ resolveQueue[g] = << >>) /\ UnlockNext(i)
    <3>1. lockCount[g] # 0 \/ resolveQueue[g] = << >>
      BY <2>2, GateTypes
    <3> QED
      BY <1>1, <1>3, <1>4, <2>1, <2>2, <3>1, UnlockInvariant
  <2>3. CASE lockCount[g] = 0 /\ resolveQueue[g] # << >> /\ LetIn(i, g) /\ UNCHANGED <<lockCount, ops>>
    <3>1. PICK rest \in Seq(Gates) : rest = ops[i].held
      BY CallTypes
    <3>2. IsInjective(rest) /\ Outward(path, rest) /\ Held(i) = Range(rest)
      BY <3>1 DEF IInv, HeldNest, Held
    <3>3. GivesUp(i, {}, rest)
      <4>1. ops' = [ops EXCEPT ![i].held = rest]
        <5> DEFINE Op == [by : Events, gate : Gates, kind : {"io", "background", "block"},
                          at : {"locked", "closure", "returned"}, held : Seq(Gates)]
                   op == [ops[i] EXCEPT !.held = rest]
        <5>1. ops[i] \in Op /\ ops' = ops
          BY <2>3, CallTypes
        <5>2. op = ops[i]
          BY <3>1, <5>1
        <5> HIDE DEF Op, op
        <5>3. ops = [ops EXCEPT ![i] = op]
          <6>1. ops \in Seq(Op)
            BY DEF IInv, TypeOK, Op
          <6> QED
            BY <5>2, <6>1
        <5> QED
          BY <5>1, <5>3 DEF op
      <4>2. lockCount' = [h \in Gates |-> lockCount[h]]
        BY <2>3, GateTypes
      <4> QED
        BY <1>1, <3>2, <4>1, <4>2 DEF GivesUp
    <3>4. Range(path[g]) \ {g} \subseteq Range(rest)
      BY <1>2, <1>3, <2>1, <3>2 DEF IInv, DrainsHold
    <3>5. lockCount'[g] = 0 /\ {} \in SUBSET Gates
      BY <2>3
    <3> QED
      BY <1>1, <1>3, <1>4, <2>1, <2>3, <3>3, <3>4, <3>5, LetInInvariant
  <2> QED
    BY <1>6, <2>2, <2>3 DEF ResumeUnlock
<1> QED
  BY <1>5, <1>6

-----------------------------------------------------------------------------
(***************************************************************************)
(* The theorems.                                                           *)
(***************************************************************************)

\* The object's gate is open at first, and nobody has come.
LEMMA InitInvariant == Init => IInv
<1> SUFFICES ASSUME Init PROVE IInv
  OBVIOUS
<1>1. /\ path = << <<1>> >> /\ Gates = {1} /\ path[1] = <<1>> /\ DOMAIN ops = {} /\ DOMAIN immediates = {}
      /\ lockCount = <<0>> /\ resolveQueue = << << >> >> /\ ops = << >> /\ immediates = << >>
      /\ at = [e \in Events |-> "outside"] /\ context = [e \in Events |-> << >>]
  BY DEF Init, Gates, Root
<1>2. TypeOK
  <2> DEFINE M == Seq(Gates)
  <2>1. <<1>> \in M
    BY <1>1
  <2>2. path \in Seq(M) /\ path # << >>
    <3> HIDE DEF M
    <3> QED
      BY <1>1, <2>1
  <2>3. lockCount \in [Gates -> Nat] /\ resolveQueue \in [Gates -> Seq(Events)]
    <3>1. \A S : \A x \in S : <<x>> \in [{1} -> S]
      OBVIOUS
    <3> DEFINE Q == Seq(Events)
    <3>2. << >> \in Q /\ 0 \in Nat
      OBVIOUS
    <3> HIDE DEF Q
    <3>3. << << >> >> \in [{1} -> Q] /\ <<0>> \in [{1} -> Nat]
      BY <3>1, <3>2
    <3> QED
      BY <1>1, <3>3 DEF Q
  <2>4. /\ at \in [Events -> {"outside", "arriving", "waiting", "running", "awaiting", "away", "finished"}]
        /\ context \in [Events -> Seq(Gates)]
    BY <1>1
  <2>5. \A S : << >> \in Seq(S)
    OBVIOUS
  <2> QED
    BY <1>1, <2>2, <2>3, <2>4, <2>5 DEF TypeOK
<1>3. GatesNest
  BY <1>1 DEF GatesNest, IsInjective, Outward, Range
<1>4. LocksCounted
  <2>1. Holders(1) = {}
    BY <1>1 DEF Holders
  <2> QED
    BY <1>1, <2>1, FS_EmptySet DEF LocksCounted
<1>5. HeldNest /\ CallbacksMatch /\ OneCaller /\ OneAtATime /\ DrainsHold
  BY <1>1 DEF HeldNest, CallbacksMatch, OneCaller, OneAtATime, DrainsHold
<1>6. QueuesMatch /\ WaitersNext
  BY <1>1 DEF QueuesMatch, Waiters, WaitersNext, IsInjective, Range
<1>7. AwaitsMatch /\ RunsAlone
  BY <1>1 DEF AwaitsMatch, RunsAlone
<1> QED
  BY <1>2, <1>3, <1>4, <1>5, <1>6, <1>7 DEF IInv

\* Every step keeps the invariant.
LEMMA StepInvariant == IInv /\ [Next]_vars => IInv'
<1> SUFFICES ASSUME IInv, [Next]_vars PROVE IInv'
  OBVIOUS
<1>1. ASSUME NEW e \in Events, Handler(e) \/ ComeBack(e) \/ \E g \in Gates : Deliver(e, g)
      PROVE  IInv'
  BY <1>1, MovesInvariant, CallInvariant DEF Handler
<1>2. ASSUME NEW i \in DOMAIN ops, Closure(i) \/ Return(i)
      PROVE  IInv'
  BY <1>2, OperationInvariant, BlockInvariant, ReturnInvariant
<1>3. CASE Immediate
  BY <1>3, ArriveInvariant, ReleaseInvariant DEF Immediate
<1>4. CASE UNCHANGED vars
  <2>1. UNCHANGED <<path, lockCount, resolveQueue, at, context, ops, immediates>>
    BY <1>4 DEF vars
  <2>2. TypeOK'
    BY <2>1 DEF IInv, TypeOK, Callbacks, Gates
  <2>3. CallbacksMatch' /\ QueuesMatch' /\ AwaitsMatch' /\ RunsAlone' /\ OneAtATime'
    BY <2>1 DEF IInv, CallbacksMatch, QueuesMatch, AwaitsMatch, Awaited, RunsAlone, OneAtATime,
                Returned, Waiters, Gates
  <2>4. DrainsHold' /\ WaitersNext'
    BY <2>1 DEF IInv, DrainsHold, WaitersNext, Held, Gates
  <2> QED
    BY <2>1, <2>2, <2>3, <2>4, GatesAndCallsStay DEF IInv
<1> QED
  BY <1>1, <1>2, <1>3, <1>4 DEF Next

\* Held gates go all the way out, and callbacks, queues and calls match in every
\* state that the gates can be in.
THEOREM InductiveInvariant == Spec => []IInv
<1> QED
  BY InitInvariant, StepInvariant, PTL DEF Spec

\* Type correctness; #lockCount is never negative, as the assertion of #unlock
\* demands, however calls of runWithClosed overlap and nest.
THEOREM TypeCorrect == Spec => []TypeOK
<1>1. IInv => TypeOK
  BY DEF IInv
<1> QED
  BY <1>1, InductiveInvariant, PTL

\* A gate's count is the number of calls that closed it or a gate inside it,
\* and a call that returned opens what it closed: one callback of setImmediate
\* is always to come for it.
THEOREM LocksMatch == Spec => []LocksAccounted
<1>1. IInv => LocksAccounted
  <2> SUFFICES ASSUME IInv PROVE LocksAccounted
    OBVIOUS
  <2>1. \A g \in Gates : lockCount[g] = Cardinality({i \in DOMAIN ops : g \in Range(ops[i].held)})
    BY DEF IInv, LocksCounted, Holders, Held
  <2>2. ASSUME NEW i \in DOMAIN ops, ops[i].at = "returned", ops[i].held # << >>
        PROVE  \E c \in Range(immediates) : c.do \in {"unlock", "drain"} /\ c.op = i
    <3>1. PICK j \in DOMAIN immediates : Releases(immediates[j]) /\ immediates[j].op = i
      BY <2>2 DEF IInv, CallbacksMatch, Returned
    <3> DEFINE c == immediates[j]
    <3>2. c \in Callbacks /\ c \in Range(immediates)
      BY CallbackTypes DEF Range
    <3>3. Releases(c) /\ c.op = i
      BY <3>1
    <3> HIDE DEF c
    <3>4. c.do \in {"unlock", "drain"}
      BY <3>2, <3>3 DEF Callbacks, Releases
    <3> QED
      BY <3>2, <3>3, <3>4
  <2> QED
    BY <2>1, <2>2 DEF LocksAccounted
<1> QED
  BY <1>1, InductiveInvariant, PTL

\* While an event runs under a gate no other event has an operation of that
\* gate under way: read, add one, write is undisturbed.
THEOREM EventsOneAtATime == Spec => []OneAtATime
<1>1. IInv => OneAtATime
  BY DEF IInv
<1> QED
  BY <1>1, InductiveInvariant, PTL

\* A gate is not open while anybody waits at a gate inside it: who holds the
\* inner gate holds the outer one, and who lets its waiters in does so still.
THEOREM InnerGatesFirst == Spec => []InnerFirst
<1>1. IInv => InnerFirst
  <2> SUFFICES ASSUME IInv, NEW g \in Gates, NEW c \in Gates, lockCount[g] = 0, c # g,
                      g \in Range(path[c]), resolveQueue[c] # << >>
               PROVE  FALSE
    BY DEF InnerFirst
  <2>1. \A i \in DOMAIN ops : g \notin Held(i)
    BY OpenIsFree
  <2>2. ASSUME NEW i \in DOMAIN ops, c \in Held(i) PROVE FALSE
    <3>1. PICK j \in DOMAIN ops[i].held : ops[i].held[j] = c
      BY <2>2 DEF Held, Range
    <3>2. \E k \in DOMAIN ops[i].held : ops[i].held[k] = g
      BY <3>1 DEF IInv, HeldNest, Outward
    <3> QED
      BY <2>1, <3>2 DEF Held, Range
  <2>3. lockCount[c] = 0
    BY <2>2, OpenIsFree
  <2>4. PICK j \in DOMAIN immediates : immediates[j].do = "drain" /\ immediates[j].gate = c
    BY <2>3 DEF IInv, WaitersNext
  <2>5. g \in Held(immediates[j].op) /\ immediates[j].op \in DOMAIN ops
    BY <2>4, CallbackTypes DEF IInv, DrainsHold
  <2> QED
    BY <2>1, <2>5
<1> QED
  BY <1>1, InductiveInvariant, PTL
=============================================================================
