------------------------- MODULE QueueBrokerProofs -------------------------
(***************************************************************************)
(* Proofs about queues, for any queues, messages, consumers and number of  *)
(* reloads.  Messages live in the queues and in the batches whose handler  *)
(* runs; the proofs are about which messages each of these holds.  What a  *)
(* step does to one queue is proved first, for a queue on its own.         *)
(***************************************************************************)
EXTENDS QueueBroker, SequenceTheorems, WellFoundedInduction, FiniteSetTheorems, TLAPS

-----------------------------------------------------------------------------
(***************************************************************************)
(* The inductive invariant.                                                *)
(***************************************************************************)

\* What a queue holds, and what its batches do.
Queued(Q) == ToSet(Q.messages)
Delivering(Q) == UNION {ToSet(Q.batches[i]) : i \in DOMAIN Q.batches}
Held(Q) == Queued(Q) \union Delivering(Q)

\* No message is twice in a queue, in a batch or in two of them.
Distinct(Q) ==
  /\ IsInjective(Q.messages)
  /\ \A i \in DOMAIN Q.batches : /\ IsInjective(Q.batches[i])
                                 /\ ToSet(Q.batches[i]) \intersect Queued(Q) = {}
  /\ \A i, j \in DOMAIN Q.batches : i # j => ToSet(Q.batches[i]) \intersect ToSet(Q.batches[j]) = {}

\* Each message that was sent and is not settled is in one queue.
InOnePlace ==
  /\ \A q \in Queues : Distinct(queue[q])
  /\ \A q, r \in Queues : q # r => Held(queue[q]) \intersect Held(queue[r]) = {}
  /\ {m \in Messages : status[m] = "sent"} = UNION {Held(queue[q]) : q \in Queues}

\* A flush that is noted as pending has a timer, or a flush is under way that
\* will forget the note; without a consumer nothing is noted.
FlushNoted(Q) ==
  /\ Q.pendingFlush # "NONE" => Q.timeout \/ Q.orphans > 0 \/ Q.batches # << >>
  /\ ~ Q.consumer => Q.pendingFlush = "NONE"
  /\ Q.consumer /\ Q.messages # << >> => Q.timeout \/ Q.orphans > 0 \/ Q.batches # << >>

IInv == TypeOK /\ InOnePlace /\ \A q \in Queues : FlushNoted(queue[q])

-----------------------------------------------------------------------------
(***************************************************************************)
(* Induction over the natural numbers, in terms of sets, and recursion.    *)
(***************************************************************************)

\* A set of natural numbers that is not empty has a least element.
LEMMA LeastNumber ==
  ASSUME NEW S, S \subseteq Nat, S # {}
  PROVE  \E n \in S : \A m \in S : ~ (m < n)
<1> DEFINE Less == {p \in Nat \X Nat : p[1] < p[2]}
<1>1. IsWellFoundedOn(Less, Nat)
  BY NatLessThanWellFounded DEF OpToRel
<1>2. PICK n \in S : \A m \in S : ~ (<<m, n>> \in Less)
  BY <1>1, WFMin
<1> QED
  BY <1>2

\* A set with 0 that has the successor of each of its numbers has them all.
LEMMA NaturalInduction ==
  ASSUME NEW S, 0 \in S, \A n \in Nat : n \in S => n + 1 \in S
  PROVE  \A n \in Nat : n \in S
<1> DEFINE Others == Nat \ S
<1> SUFFICES ASSUME Others # {}
             PROVE  FALSE
  OBVIOUS
<1>1. Others \subseteq Nat
  OBVIOUS
<1>2. PICK n \in Others : \A m \in Others : ~ (m < n)
  <2> HIDE DEF Others
  <2> QED
    BY <1>1, LeastNumber
<1>3. n # 0 /\ n - 1 \in Nat /\ n - 1 < n
  OBVIOUS
<1>4. n - 1 \in S
  BY <1>2, <1>3
<1> QED
  BY <1>3, <1>4

\* f starts with the first value and goes on n times by the step.
Recurs(f, X, first, n, step) ==
  /\ f \in [0 .. n -> X] /\ f[0] = first
  /\ \A k \in 1 .. n : f[k] = step[k][f[k - 1]]

\* Whatever the first value and the step, there is a sequence of values.
LEMMA Recursion ==
  ASSUME NEW X, NEW first \in X, NEW n \in Nat, NEW step \in [1 .. n -> [X -> X]]
  PROVE  \E f : Recurs(f, X, first, n, step)
<1> DEFINE Is(f, m) == /\ f[0] = first
                       /\ \A k \in 1 .. m : f[k] = step[k][f[k - 1]]
           Defined == {m \in Nat : m <= n => \E f \in [0 .. m -> X] : Is(f, m)}
<1>1. 0 \in Defined
  <2> DEFINE f == [k \in 0 .. 0 |-> first]
  <2>1. f \in [0 .. 0 -> X] /\ Is(f, 0)
    OBVIOUS
  <2> QED
    BY <2>1
<1>2. ASSUME NEW m \in Nat, m \in Defined
      PROVE  m + 1 \in Defined
  <2> SUFFICES ASSUME m + 1 <= n
               PROVE  \E f \in [0 .. m + 1 -> X] : Is(f, m + 1)
    OBVIOUS
  <2>1. PICK f \in [0 .. m -> X] : Is(f, m)
    BY <1>2
  <2> DEFINE g == [k \in 0 .. m + 1 |-> IF k <= m THEN f[k] ELSE step[m + 1][f[m]]]
  <2>2. f[m] \in X /\ step[m + 1] \in [X -> X]
    BY <2>1
  <2>3. g \in [0 .. m + 1 -> X]
    BY <2>1, <2>2
  <2>4. ASSUME NEW k \in 1 .. m + 1
        PROVE  g[k] = step[k][g[k - 1]]
    <3>1. CASE k <= m
      <4>1. k \in 1 .. m /\ g[k] = f[k] /\ g[k - 1] = f[k - 1]
        BY <3>1
      <4> QED
        BY <2>1, <4>1
    <3>2. CASE k = m + 1
      <4>1. g[k] = step[m + 1][f[m]] /\ g[k - 1] = f[m] /\ k - 1 = m
        BY <3>2
      <4> QED
        BY <3>2, <4>1
    <3> QED
      BY <3>1, <3>2
  <2>5. g[0] = first
    BY <2>1
  <2> HIDE DEF g
  <2> QED
    BY <2>3, <2>4, <2>5
<1>3. n \in Defined
  <2> HIDE DEF Defined
  <2> QED
    BY <1>1, <1>2, NaturalInduction
<1> QED
  BY <1>3 DEF Recurs

-----------------------------------------------------------------------------
(***************************************************************************)
(* Sequences of messages: what they hold, and that they hold nothing twice *)
(***************************************************************************)

\* A message is appended.
LEMMA AppendHolds ==
  ASSUME NEW s \in Seq(Messages), NEW m \in Messages
  PROVE  /\ Append(s, m) \in Seq(Messages)
         /\ ToSet(Append(s, m)) = ToSet(s) \union {m}
         /\ IsInjective(s) /\ m \notin ToSet(s) => IsInjective(Append(s, m))
<1>1. /\ Append(s, m) \in Seq(Messages) /\ Len(Append(s, m)) = Len(s) + 1
      /\ \A i \in 1 .. Len(s) : Append(s, m)[i] = s[i]
      /\ Append(s, m)[Len(s) + 1] = m
      /\ DOMAIN Append(s, m) = 1 .. Len(s) + 1 /\ DOMAIN s = 1 .. Len(s) /\ Len(s) \in Nat
  OBVIOUS
<1>2. ToSet(Append(s, m)) = ToSet(s) \union {m}
  <2>1. ToSet(Append(s, m)) \subseteq ToSet(s) \union {m}
    BY <1>1 DEF ToSet
  <2>2. ASSUME NEW x \in ToSet(s) PROVE x \in ToSet(Append(s, m))
    <3>1. PICK i \in 1 .. Len(s) : x = s[i]
      BY <1>1 DEF ToSet
    <3> QED
      BY <1>1, <3>1 DEF ToSet
  <2>3. m \in ToSet(Append(s, m))
    BY <1>1 DEF ToSet
  <2> QED
    BY <2>1, <2>2, <2>3
<1>3. IsInjective(s) /\ m \notin ToSet(s) => IsInjective(Append(s, m))
  BY <1>1 DEF IsInjective, ToSet
<1> QED
  BY <1>1, <1>2, <1>3

\* Messages are put behind others.
LEMMA ConcatHolds ==
  ASSUME NEW s \in Seq(Messages), NEW t \in Seq(Messages)
  PROVE  /\ s \o t \in Seq(Messages)
         /\ ToSet(s \o t) = ToSet(s) \union ToSet(t)
         /\ IsInjective(s) /\ IsInjective(t) /\ ToSet(s) \intersect ToSet(t) = {} => IsInjective(s \o t)
<1>1. /\ s \o t \in Seq(Messages) /\ Len(s \o t) = Len(s) + Len(t) /\ Len(s) \in Nat /\ Len(t) \in Nat
      /\ \A i \in 1 .. Len(s) : (s \o t)[i] = s[i]
      /\ \A i \in 1 .. Len(t) : (s \o t)[Len(s) + i] = t[i]
      /\ DOMAIN (s \o t) = 1 .. Len(s) + Len(t) /\ DOMAIN s = 1 .. Len(s) /\ DOMAIN t = 1 .. Len(t)
  OBVIOUS
<1>2. ASSUME NEW i \in DOMAIN (s \o t)
      PROVE  \/ i \in DOMAIN s /\ (s \o t)[i] = s[i]
             \/ i - Len(s) \in DOMAIN t /\ (s \o t)[i] = t[i - Len(s)]
  <2>1. CASE i <= Len(s)
    BY <1>1, <2>1
  <2>2. CASE i > Len(s)
    <3>1. i - Len(s) \in 1 .. Len(t) /\ Len(s) + (i - Len(s)) = i
      BY <1>1, <2>2
    <3> QED
      BY <1>1, <3>1
  <2> QED
    BY <1>1, <2>1, <2>2
<1>3. ToSet(s \o t) = ToSet(s) \union ToSet(t)
  <2>1. ToSet(s \o t) \subseteq ToSet(s) \union ToSet(t)
    BY <1>2 DEF ToSet
  <2>2. ASSUME NEW x \in ToSet(s) PROVE x \in ToSet(s \o t)
    <3>1. PICK i \in 1 .. Len(s) : x = s[i]
      BY <1>1 DEF ToSet
    <3> QED
      BY <1>1, <3>1 DEF ToSet
  <2>3. ASSUME NEW x \in ToSet(t) PROVE x \in ToSet(s \o t)
    <3>1. PICK i \in 1 .. Len(t) : x = t[i]
      BY <1>1 DEF ToSet
    <3>2. Len(s) + i \in DOMAIN (s \o t) /\ (s \o t)[Len(s) + i] = x
      BY <1>1, <3>1
    <3> QED
      BY <3>2 DEF ToSet
  <2> QED
    BY <2>1, <2>2, <2>3
<1>4. ASSUME IsInjective(s), IsInjective(t), ToSet(s) \intersect ToSet(t) = {},
             NEW i \in DOMAIN (s \o t), NEW j \in DOMAIN (s \o t), (s \o t)[i] = (s \o t)[j]
      PROVE  i = j
  <2>1. i \in Int /\ j \in Int /\ Len(s) \in Int
    BY <1>1
  <2>2. CASE i \in DOMAIN s /\ (s \o t)[i] = s[i] /\ j \in DOMAIN s /\ (s \o t)[j] = s[j]
    BY <1>4, <2>2 DEF IsInjective
  <2>3. CASE i - Len(s) \in DOMAIN t /\ (s \o t)[i] = t[i - Len(s)] /\ j - Len(s) \in DOMAIN t /\ (s \o t)[j] = t[j - Len(s)]
    <3>1. i - Len(s) = j - Len(s)
      BY <1>4, <2>3 DEF IsInjective
    <3> QED
      BY <2>1, <3>1
  <2>4. \A k, l : k \in DOMAIN s /\ l \in DOMAIN t => s[k] # t[l]
    BY <1>4 DEF ToSet
  <2> QED
    BY <1>2, <1>4, <2>2, <2>3, <2>4
<1>5. IsInjective(s) /\ IsInjective(t) /\ ToSet(s) \intersect ToSet(t) = {} => IsInjective(s \o t)
  BY <1>4 DEF IsInjective
<1> QED
  BY <1>1, <1>3, <1>5

\* The first k messages and the others.
LEMMA SplitHolds ==
  ASSUME NEW s \in Seq(Messages), NEW k \in 0 .. Len(s)
  PROVE  LET a == SubSeq(s, 1, k)
             b == SubSeq(s, k + 1, Len(s))
         IN  /\ a \in Seq(Messages) /\ b \in Seq(Messages) /\ Len(a) = k
             /\ ToSet(a) \union ToSet(b) = ToSet(s)
             /\ IsInjective(s) => /\ IsInjective(a) /\ IsInjective(b)
                                  /\ ToSet(a) \intersect ToSet(b) = {}
<1> DEFINE a == SubSeq(s, 1, k)
           b == SubSeq(s, k + 1, Len(s))
<1>1. /\ a \in Seq(Messages) /\ Len(a) = k /\ DOMAIN a = 1 .. k
      /\ \A i \in 1 .. k : a[i] = s[i]
  OBVIOUS
<1>2. /\ b \in Seq(Messages) /\ Len(b) = Len(s) - k /\ DOMAIN b = 1 .. Len(s) - k
      /\ \A i \in 1 .. Len(s) - k : b[i] = s[i + k]
  OBVIOUS
<1>3. DOMAIN s = 1 .. Len(s) /\ Len(s) \in Nat /\ k \in Nat /\ k <= Len(s)
  OBVIOUS
<1> HIDE DEF a, b
<1>4. ToSet(a) \union ToSet(b) = ToSet(s)
  <2>1. ToSet(a) \subseteq ToSet(s) /\ ToSet(b) \subseteq ToSet(s)
    <3>1. ToSet(a) \subseteq ToSet(s)
      BY <1>1, <1>3 DEF ToSet
    <3>2. \A i \in DOMAIN b : i + k \in DOMAIN s /\ b[i] = s[i + k]
      BY <1>2, <1>3
    <3>3. ToSet(b) \subseteq ToSet(s)
      BY <3>2 DEF ToSet
    <3> QED
      BY <3>1, <3>3
  <2>2. ASSUME NEW i \in DOMAIN s
        PROVE  s[i] \in ToSet(a) \union ToSet(b)
    <3>1. CASE i <= k
      BY <1>1, <1>3, <3>1 DEF ToSet
    <3>2. CASE i > k
      <4>1. i - k \in DOMAIN b /\ b[i - k] = s[(i - k) + k] /\ (i - k) + k = i
        BY <1>2, <1>3, <3>2
      <4> QED
        BY <4>1 DEF ToSet
    <3> QED
      BY <1>3, <3>1, <3>2
  <2> QED
    BY <2>1, <2>2 DEF ToSet
<1>5. ASSUME IsInjective(s)
      PROVE  IsInjective(a) /\ IsInjective(b) /\ ToSet(a) \intersect ToSet(b) = {}
  <2>1. IsInjective(a)
    BY <1>1, <1>3, <1>5 DEF IsInjective
  <2>2. ASSUME NEW i \in DOMAIN b, NEW j \in DOMAIN b, b[i] = b[j]
        PROVE  i = j
    <3>1. i + k \in DOMAIN s /\ j + k \in DOMAIN s /\ s[i + k] = s[j + k]
      BY <1>2, <1>3, <2>2
    <3>2. i + k = j + k
      BY <1>5, <3>1 DEF IsInjective
    <3> QED
      BY <1>2, <1>3, <3>2
  <2>3. ASSUME NEW i \in DOMAIN a, NEW j \in DOMAIN b
        PROVE  a[i] # b[j]
    <3>1. i \in DOMAIN s /\ j + k \in DOMAIN s /\ i # j + k /\ a[i] = s[i] /\ b[j] = s[j + k]
      BY <1>1, <1>2, <1>3
    <3> QED
      BY <1>5, <3>1 DEF IsInjective
  <2> QED
    BY <2>1, <2>2, <2>3 DEF IsInjective, ToSet
<1> QED
  BY <1>1, <1>2, <1>4, <1>5 DEF a, b

\* A sequence of n messages holds at most n.
LEMMA HoldsAtMost ==
  ASSUME NEW s \in Seq(Messages)
  PROVE  Cardinality(ToSet(s)) <= Len(s)
<1>1. s \in [1 .. Len(s) -> ToSet(s)] /\ \A x \in ToSet(s) : \E i \in 1 .. Len(s) : s[i] = x
  BY DEF ToSet
<1>2. s \in Surjection(1 .. Len(s), ToSet(s))
  BY <1>1 DEF Surjection
<1>3. Len(s) \in Nat
  OBVIOUS
<1>4. ExistsSurjection(1 .. Len(s), ToSet(s))
  BY <1>2 DEF ExistsSurjection
<1> QED
  BY <1>3, <1>4, FS_SurjCardinalityBound

\* The messages of a batch that are in S: these and no others, none twice.
LEMMA ThoseHolds ==
  ASSUME NEW s \in Seq(Messages), NEW S
  PROVE  /\ Those(s, S) \in Seq(Messages)
         /\ ToSet(Those(s, S)) = ToSet(s) \intersect S
         /\ IsInjective(s) => IsInjective(Those(s, S))
<1> DEFINE n == Len(s)
           X == Seq(Messages)
           step == [k \in 1 .. n |-> [t \in X |-> IF s[k] \in S THEN Append(t, s[k]) ELSE t]]
           Is(f) == f = [k \in 0 .. n |-> IF k = 0 THEN << >>
                                       ELSE IF s[k] \in S THEN Append(f[k - 1], s[k]) ELSE f[k - 1]]
<1>1. n \in Nat /\ \A k \in 1 .. n : s[k] \in Messages
  OBVIOUS
<1>2. step \in [1 .. n -> [X -> X]] /\ << >> \in X
  BY <1>1
<1>3. \E f : Is(f)
  <2>1. PICK f \in [0 .. n -> X] : f[0] = << >> /\ \A k \in 1 .. n : f[k] = step[k][f[k - 1]]
    <3> DEFINE first == << >>
    <3>1. n \in Nat /\ first \in X /\ step \in [1 .. n -> [X -> X]]
      BY <1>1, <1>2
    <3> HIDE DEF n, X, step, first
    <3>2. \E f : Recurs(f, X, first, n, step)
      BY <3>1, Recursion
    <3> QED
      BY <3>2 DEF first, Recurs
  <2>2. ASSUME NEW k \in 1 .. n
        PROVE  f[k] = IF s[k] \in S THEN Append(f[k - 1], s[k]) ELSE f[k - 1]
    <3>1. f[k - 1] \in X
      <4> HIDE DEF n, X
      <4>1. k - 1 \in 0 .. n
        BY <1>1
      <4> QED
        BY <2>1, <4>1
    <3> QED
      BY <2>1, <3>1
  <2>3. Is(f)
    <3>1. ASSUME NEW k \in 0 .. n
          PROVE  f[k] = IF k = 0 THEN << >>
                        ELSE IF s[k] \in S THEN Append(f[k - 1], s[k]) ELSE f[k - 1]
      <4>1. k = 0 \/ k \in 1 .. n
        OBVIOUS
      <4> QED
        BY <2>1, <2>2, <4>1
    <3> HIDE DEF n, X
    <3> QED
      BY <2>1, <3>1
  <2> QED
    BY <2>3
<1> DEFINE those == CHOOSE f : Is(f)
<1>4. Is(those)
  <2> HIDE DEF Is
  <2> QED
    BY <1>3
<1>5. Those(s, S) = those[n]
  BY DEF Those
<1> HIDE DEF those
<1> DEFINE Before(k) == {s[i] : i \in 1 .. k}
           Good == {k \in Nat : k <= n =>
                      /\ those[k] \in X /\ ToSet(those[k]) = Before(k) \intersect S
                      /\ IsInjective(s) => IsInjective(those[k])}
<1>6. 0 \in Good
  <2>1. those[0] = << >>
    BY <1>1, <1>4
  <2>2. ToSet(<< >>) = {} /\ IsInjective(<< >>)
    BY DEF ToSet, IsInjective
  <2>3. Before(0) = {}
    OBVIOUS
  <2> HIDE DEF X, Before
  <2> QED
    BY <1>2, <2>1, <2>2, <2>3
<1>7. ASSUME NEW k \in Nat, k \in Good
      PROVE  k + 1 \in Good
  <2> SUFFICES ASSUME k + 1 <= n
               PROVE  /\ those[k + 1] \in X /\ ToSet(those[k + 1]) = Before(k + 1) \intersect S
                      /\ IsInjective(s) => IsInjective(those[k + 1])
    OBVIOUS
  <2>1. /\ those[k] \in X /\ ToSet(those[k]) = Before(k) \intersect S
        /\ IsInjective(s) => IsInjective(those[k])
    BY <1>7
  <2>2. those[k + 1] = IF s[k + 1] \in S THEN Append(those[k], s[k + 1]) ELSE those[k]
    <3>1. k + 1 \in 0 .. n /\ k + 1 # 0 /\ (k + 1) - 1 = k
      BY <1>1
    <3> HIDE DEF n
    <3> QED
      BY <1>4, <3>1
  <2>3. Before(k + 1) = Before(k) \union {s[k + 1]}
    <3>1. 1 .. k + 1 = (1 .. k) \union {k + 1}
      OBVIOUS
    <3> QED
      BY <3>1
  <2>4. IsInjective(s) => s[k + 1] \notin Before(k)
    BY <1>1 DEF IsInjective
  <2>5. s[k + 1] \in Messages
    BY <1>1
  <2> HIDE DEF Before
  <2>6. CASE s[k + 1] \in S
    BY <2>1, <2>2, <2>3, <2>4, <2>5, <2>6, AppendHolds
  <2>7. CASE s[k + 1] \notin S
    BY <2>1, <2>2, <2>3, <2>7
  <2> QED
    BY <2>6, <2>7
<1>8. n \in Good
  <2> HIDE DEF Good
  <2> QED
    BY <1>1, <1>6, <1>7, NaturalInduction
<1>9. Before(n) = ToSet(s)
  BY DEF ToSet
<1> QED
  BY <1>1, <1>5, <1>8, <1>9

\* An element is appended.
LEMMA AppendIs ==
  ASSUME NEW S, NEW s \in Seq(S), NEW x \in S
  PROVE  /\ Append(s, x) \in Seq(S) /\ Len(Append(s, x)) = Len(s) + 1 /\ Append(s, x) # << >>
         /\ \A j \in 1 .. Len(s) : Append(s, x)[j] = s[j]
         /\ Append(s, x)[Len(s) + 1] = x
OBVIOUS

\* What comes after the i-th element.
LEMMA SuffixIs ==
  ASSUME NEW S, NEW s \in Seq(S), NEW i \in 1 .. Len(s)
  PROVE  LET t == SubSeq(s, i + 1, Len(s))
         IN  /\ t \in Seq(S) /\ Len(t) = Len(s) - i
             /\ \A j \in 1 .. Len(s) - i : t[j] = s[i + j]
OBVIOUS

\* What comes before it.
LEMMA PrefixIs ==
  ASSUME NEW S, NEW s \in Seq(S), NEW i \in 1 .. Len(s)
  PROVE  LET t == SubSeq(s, 1, i - 1)
         IN  /\ t \in Seq(S) /\ Len(t) = i - 1
             /\ \A j \in 1 .. i - 1 : t[j] = s[j]
OBVIOUS

\* Elements are put behind others.
LEMMA ConcatIs ==
  ASSUME NEW S, NEW s \in Seq(S), NEW t \in Seq(S)
  PROVE  /\ s \o t \in Seq(S) /\ Len(s \o t) = Len(s) + Len(t)
         /\ \A j \in 1 .. Len(s) : (s \o t)[j] = s[j]
         /\ \A j \in Len(s) + 1 .. Len(s) + Len(t) : (s \o t)[j] = t[j - Len(s)]
OBVIOUS

\* A sequence without its i-th element.
LEMMA RemoveAtIs ==
  ASSUME NEW S, NEW s \in Seq(S), NEW i \in 1 .. Len(s)
  PROVE  /\ RemoveAt(s, i) \in Seq(S) /\ Len(RemoveAt(s, i)) = Len(s) - 1
         /\ \A j \in 1 .. Len(s) - 1 : RemoveAt(s, i)[j] = IF j < i THEN s[j] ELSE s[j + 1]
<1> DEFINE x == SubSeq(s, 1, i - 1)
           y == SubSeq(s, i + 1, Len(s))
<1>1. Len(s) \in Nat /\ i \in Nat /\ 1 <= i /\ i <= Len(s)
  OBVIOUS
<1>2. x \in Seq(S) /\ Len(x) = i - 1 /\ \A j \in 1 .. i - 1 : x[j] = s[j]
  BY PrefixIs
<1>3. y \in Seq(S) /\ Len(y) = Len(s) - i /\ \A j \in 1 .. Len(s) - i : y[j] = s[i + j]
  BY SuffixIs
<1>4. RemoveAt(s, i) = x \o y
  BY DEF RemoveAt
<1> HIDE DEF x, y
<1>5. /\ x \o y \in Seq(S) /\ Len(x \o y) = Len(x) + Len(y)
      /\ \A j \in 1 .. Len(x) : (x \o y)[j] = x[j]
      /\ \A j \in Len(x) + 1 .. Len(x) + Len(y) : (x \o y)[j] = y[j - Len(x)]
  BY <1>2, <1>3, ConcatIs
<1>6. ASSUME NEW j \in 1 .. Len(s) - 1
      PROVE  (x \o y)[j] = IF j < i THEN s[j] ELSE s[j + 1]
  <2>1. CASE j < i
    <3>1. j \in 1 .. Len(x) /\ j \in 1 .. i - 1
      BY <1>1, <1>2, <2>1
    <3> QED
      BY <1>2, <1>5, <2>1, <3>1
  <2>2. CASE ~ (j < i)
    <3>1. j \in Len(x) + 1 .. Len(x) + Len(y) /\ j - Len(x) \in 1 .. Len(s) - i /\ i + (j - Len(x)) = j + 1
      BY <1>1, <1>2, <1>3, <2>2
    <3> QED
      BY <1>3, <1>5, <2>2, <3>1
  <2> QED
    BY <2>1, <2>2
<1>7. Len(x) + Len(y) = Len(s) - 1
  BY <1>1, <1>2, <1>3
<1> QED
  BY <1>4, <1>5, <1>6, <1>7

\* How the messages of the batches b, n of them, are put together.
Flattens(f, b, n) == f = [k \in 1 .. n |-> IF k = 1 THEN b[k] ELSE f[k - 1] \o b[k]]

\* This recursion is defined.
LEMMA FlattenExists ==
  ASSUME NEW n \in Nat, NEW b \in [1 .. n -> Seq(Messages)]
  PROVE  \E f : Flattens(f, b, n)
<1> DEFINE X == Seq(Messages)
           first == << >>
           step == [k \in 1 .. n |-> [t \in X |-> t \o b[k]]]
<1>1. first \in X /\ step \in [1 .. n -> [X -> X]]
  <2>1. \A k \in 1 .. n : \A t \in X : t \o b[k] \in X
    BY ConcatHolds
  <2> QED
    BY <2>1
<1>2. \E f : Recurs(f, X, first, n, step)
  <2> HIDE DEF X, first, step
  <2> QED
    BY <1>1, Recursion
<1>3. PICK f \in [0 .. n -> X] : f[0] = first /\ \A k \in 1 .. n : f[k] = step[k][f[k - 1]]
  BY <1>2 DEF Recurs
<1>4. ASSUME NEW k \in 1 .. n
      PROVE  f[k - 1] \in X /\ f[k] = f[k - 1] \o b[k]
  <2>1. k - 1 \in 0 .. n
    OBVIOUS
  <2>2. f[k - 1] \in X
    <3> HIDE DEF X, first, step
    <3> QED
      BY <1>3, <2>1
  <2> QED
    BY <1>3, <2>2
<1> DEFINE g == [k \in 1 .. n |-> f[k]]
<1>5. ASSUME NEW k \in 1 .. n
      PROVE  g[k] = IF k = 1 THEN b[k] ELSE g[k - 1] \o b[k]
  <2>1. CASE k = 1
    <3>1. f[k] = f[0] \o b[k] /\ b[k] \in Seq(Messages)
      BY <1>4, <2>1
    <3>2. << >> \o b[k] = b[k]
      BY <3>1, ConcatEmptySeq
    <3> QED
      BY <1>3, <2>1, <3>1, <3>2
  <2>2. CASE k # 1
    <3>1. k - 1 \in 1 .. n /\ g[k] = f[k] /\ g[k - 1] = f[k - 1]
      BY <2>2
    <3> QED
      BY <1>4, <2>2, <3>1
  <2> QED
    BY <2>1, <2>2
<1>6. g = [k \in 1 .. n |-> g[k]]
  OBVIOUS
<1> HIDE DEF g
<1>7. Flattens(g, b, n)
  BY <1>5, <1>6 DEF Flattens
<1> QED
  BY <1>7

\* What has been put together is what the batches hold, once each.
LEMMA FlattensHolds ==
  ASSUME NEW n \in Nat \ {0}, NEW b \in [1 .. n -> Seq(Messages)], NEW f, Flattens(f, b, n)
  PROVE  /\ f[n] \in Seq(Messages)
         /\ ToSet(f[n]) = UNION {ToSet(b[i]) : i \in 1 .. n}
         /\ /\ \A i \in 1 .. n : IsInjective(b[i])
            /\ \A i, j \in 1 .. n : i # j => ToSet(b[i]) \intersect ToSet(b[j]) = {}
            => IsInjective(f[n])
<1> DEFINE X == Seq(Messages)
           Separate == /\ \A i \in 1 .. n : IsInjective(b[i])
                       /\ \A i, j \in 1 .. n : i # j => ToSet(b[i]) \intersect ToSet(b[j]) = {}
           Before(k) == UNION {ToSet(b[i]) : i \in 1 .. k}
           Holds(k) == /\ f[k] \in X /\ ToSet(f[k]) = Before(k)
                       /\ Separate => IsInjective(f[k])
           Good == {k \in Nat : k + 1 <= n => Holds(k + 1)}
<1>1. 0 \in Good
  <2>1. f[1] = b[1] /\ 1 \in 1 .. n
    BY DEF Flattens
  <2>2. Before(1) = ToSet(b[1])
    BY <2>1
  <2>3. b[1] \in X /\ (Separate => IsInjective(b[1]))
    BY <2>1
  <2>4. Holds(1)
    <3> HIDE DEF X, Before, Separate
    <3> QED
      BY <2>1, <2>2, <2>3
  <2>5. 0 + 1 = 1
    OBVIOUS
  <2> HIDE DEF Holds
  <2> QED
    BY <2>4, <2>5
<1>2. ASSUME NEW k \in Nat, k \in Good
      PROVE  k + 1 \in Good
  <2> DEFINE l == k + 1
             m == l + 1
  <2>1. ASSUME m <= n
        PROVE  Holds(m)
    <3>1. l \in 1 .. n /\ m \in 1 .. n /\ m # 1 /\ m - 1 = l /\ m = l + 1 /\ l < m /\ k + 1 <= n
      BY <2>1
    <3>2. Holds(l)
      <4> HIDE DEF Holds
      <4> QED
        BY <1>2, <3>1
    <3>3. f[m] = f[l] \o b[m]
      <4> HIDE DEF l, m
      <4> QED
        BY <3>1 DEF Flattens
    <3>4. Before(m) = Before(l) \union ToSet(b[m])
      <4>1. 1 .. m = (1 .. l) \union {m}
        BY <3>1
      <4> HIDE DEF l, m
      <4> QED
        BY <4>1
    <3>5. b[m] \in X /\ (Separate => IsInjective(b[m]))
      BY <3>1
    <3>6. Separate => Before(l) \intersect ToSet(b[m]) = {}
      <4>1. \A i \in 1 .. l : i \in 1 .. n /\ i # m
        BY <3>1
      <4> HIDE DEF l, m
      <4>2. ASSUME Separate, NEW i \in 1 .. l
            PROVE  ToSet(b[i]) \intersect ToSet(b[m]) = {}
        BY <3>1, <4>1, <4>2
      <4> HIDE DEF Separate
      <4> QED
        BY <4>2
    <3> HIDE DEF l, m, Before, Separate
    <3> QED
      BY <3>2, <3>3, <3>4, <3>5, <3>6, ConcatHolds
  <2> HIDE DEF Holds
  <2> QED
    BY <2>1
<1>3. n - 1 \in Nat /\ (n - 1) + 1 = n
  OBVIOUS
<1>4. n - 1 \in Good
  <2> HIDE DEF Good
  <2> QED
    BY <1>1, <1>2, <1>3, NaturalInduction
<1>5. Holds(n)
  <2> HIDE DEF Holds
  <2> QED
    BY <1>3, <1>4
<1> QED
  BY <1>5

\* The messages of all batches: these and no others, none twice if none is in
\* two batches.
LEMMA FlattenHolds ==
  ASSUME NEW b \in Seq(Seq(Messages))
  PROVE  /\ FlattenSeq(b) \in Seq(Messages)
         /\ ToSet(FlattenSeq(b)) = UNION {ToSet(b[i]) : i \in DOMAIN b}
         /\ /\ \A i \in DOMAIN b : IsInjective(b[i])
            /\ \A i, j \in DOMAIN b : i # j => ToSet(b[i]) \intersect ToSet(b[j]) = {}
            => IsInjective(FlattenSeq(b))
<1> DEFINE n == Len(b)
<1>1. n \in Nat /\ DOMAIN b = 1 .. n /\ b \in [1 .. n -> Seq(Messages)]
  OBVIOUS
<1>2. CASE n = 0
  <2>1. b = << >> /\ FlattenSeq(b) = << >>
    BY <1>2 DEF FlattenSeq
  <2>2. ToSet(<< >>) = {} /\ IsInjective(<< >>) /\ << >> \in Seq(Messages)
    BY DEF ToSet, IsInjective
  <2>3. UNION {ToSet(b[i]) : i \in DOMAIN b} = {}
    BY <1>1, <1>2
  <2> QED
    BY <2>1, <2>2, <2>3
<1>3. CASE n # 0
  <2>1. \E f : Flattens(f, b, n)
    BY <1>1, FlattenExists
  <2> DEFINE flatten == CHOOSE f : Flattens(f, b, n)
  <2>2. Flattens(flatten, b, n)
    BY <2>1
  <2>3. FlattenSeq(b) = flatten[n]
    BY <1>3 DEF FlattenSeq, Flattens
  <2> HIDE DEF flatten, n
  <2> QED
    BY <1>1, <1>3, <2>2, <2>3, FlattensHolds
<1> QED
  BY <1>2, <1>3

-----------------------------------------------------------------------------
(***************************************************************************)
(* What operations do to one queue.                                        *)
(***************************************************************************)

\* Timers and the note of a flush are all that ensurePendingFlush changes.
LEMMA EnsureKeeps ==
  ASSUME NEW q \in Queues, NEW Q \in QueueState
  PROVE  /\ ensurePendingFlush(q, Q) \in QueueState
         /\ ensurePendingFlush(q, Q).messages = Q.messages
         /\ ensurePendingFlush(q, Q).batches = Q.batches
         /\ ensurePendingFlush(q, Q).consumer = Q.consumer
<1> DEFINE cleared == [Q EXCEPT !.timeout = FALSE]
<1>1. ASSUME NEW R \in QueueState, NEW flush \in {"DELAYED", "IMMEDIATE"}
      PROVE  /\ SetTimer(R, flush) \in QueueState /\ SetTimer(R, flush).messages = R.messages
             /\ SetTimer(R, flush).batches = R.batches /\ SetTimer(R, flush).consumer = R.consumer
  <2> DEFINE orphans == IF R.timeout THEN R.orphans + 1 ELSE R.orphans
  <2>1. orphans \in Nat
    BY DEF QueueState
  <2>2. SetTimer(R, flush) = [R EXCEPT !.pendingFlush = flush, !.timeout = TRUE, !.orphans = orphans]
    BY DEF SetTimer
  <2> HIDE DEF orphans
  <2> QED
    BY <2>1, <2>2 DEF QueueState
<1>2. /\ cleared \in QueueState /\ cleared.messages = Q.messages /\ cleared.batches = Q.batches
      /\ cleared.consumer = Q.consumer /\ ClearTimer(Q) = cleared
  BY DEF ClearTimer, QueueState
<1> HIDE DEF cleared
<1>3. ensurePendingFlush(q, Q) \in {Q, SetTimer(cleared, "IMMEDIATE"), SetTimer(Q, "IMMEDIATE"), SetTimer(Q, "DELAYED")}
  BY <1>2 DEF ensurePendingFlush
<1> QED
  BY <1>1, <1>2, <1>3

\* A flush is to come for the messages that a queue with a consumer has, as
\* long as none is lost that was noted.
LEMMA EnsureNotes ==
  ASSUME NEW q \in Queues, NEW Q \in QueueState,
         Q.pendingFlush # "NONE" => Q.timeout \/ Q.orphans > 0 \/ Q.batches # << >>,
         ~ Q.consumer => Q.pendingFlush = "NONE"
  PROVE  FlushNoted(ensurePendingFlush(q, Q))
<1>1. /\ Q.pendingFlush \in {"NONE", "DELAYED", "IMMEDIATE"} /\ Q.consumer \in BOOLEAN
  BY DEF QueueState
<1>2. CASE ~ Q.consumer
  <2>1. ensurePendingFlush(q, Q) = Q
    BY <1>2 DEF ensurePendingFlush
  <2> QED
    BY <1>2, <2>1 DEF FlushNoted
<1>3. CASE Q.consumer /\ ensurePendingFlush(q, Q).timeout
  <2>1. ensurePendingFlush(q, Q).consumer
    BY <1>3, EnsureKeeps
  <2> QED
    BY <1>3, <2>1 DEF FlushNoted
<1>4. CASE Q.consumer /\ ~ ensurePendingFlush(q, Q).timeout
  <2>1. ASSUME NEW R \in QueueState, NEW flush PROVE SetTimer(R, flush).timeout
    BY DEF SetTimer, QueueState
  <2>2. ClearTimer(Q) \in QueueState
    BY DEF ClearTimer, QueueState
  <2>3. ensurePendingFlush(q, Q) = Q /\ Q.pendingFlush # "NONE"
    BY <1>1, <1>4, <2>1, <2>2 DEF ensurePendingFlush
  <2> QED
    BY <2>3 DEF FlushNoted
<1> QED
  BY <1>1, <1>2, <1>3, <1>4

\* Two queues with the same messages and batches are distinct and hold alike.
LEMMA SameContent ==
  ASSUME NEW Q, NEW R, R.messages = Q.messages, R.batches = Q.batches
  PROVE  /\ Distinct(R) <=> Distinct(Q)
         /\ Queued(R) = Queued(Q) /\ Delivering(R) = Delivering(Q) /\ Held(R) = Held(Q)
BY DEF Distinct, Queued, Delivering, Held

\* Messages that the queue does not hold are put behind those that it holds.
LEMMA EnqueueHolds ==
  ASSUME NEW q \in Queues, NEW Q \in QueueState, Distinct(Q), FlushNoted(Q),
         NEW ms \in Seq(Messages), IsInjective(ms), ToSet(ms) \intersect Held(Q) = {}
  PROVE  /\ enqueue(q, Q, ms) \in QueueState
         /\ Distinct(enqueue(q, Q, ms)) /\ FlushNoted(enqueue(q, Q, ms))
         /\ Queued(enqueue(q, Q, ms)) = Queued(Q) \union ToSet(ms)
         /\ Delivering(enqueue(q, Q, ms)) = Delivering(Q)
<1>1. CASE ms = << >>
  <2>1. ToSet(ms) = {}
    BY <1>1 DEF ToSet
  <2> QED
    BY <1>1, <2>1 DEF enqueue
<1>2. CASE ms # << >>
  <2> DEFINE all == Q.messages \o ms
             R == [Q EXCEPT !.messages = all]
  <2>1. Q.messages \in Seq(Messages)
    BY DEF QueueState
  <2>2. /\ all \in Seq(Messages) /\ ToSet(all) = ToSet(Q.messages) \union ToSet(ms)
        /\ IsInjective(all)
    BY <2>1, ConcatHolds DEF Distinct, Held, Queued
  <2> HIDE DEF all
  <2>3. /\ R \in QueueState /\ R.messages = all /\ R.batches = Q.batches /\ R.consumer = Q.consumer
        /\ R.pendingFlush = Q.pendingFlush /\ R.timeout = Q.timeout /\ R.orphans = Q.orphans
    BY <2>2 DEF QueueState
  <2>4. enqueue(q, Q, ms) = ensurePendingFlush(q, R)
    BY <1>2 DEF enqueue, all
  <2> HIDE DEF R
  <2>5. FlushNoted(ensurePendingFlush(q, R))
    BY <2>3, EnsureNotes DEF FlushNoted
  <2>6. Queued(R) = Queued(Q) \union ToSet(ms) /\ Delivering(R) = Delivering(Q)
    BY <2>2, <2>3 DEF Queued, Delivering
  <2>7. \A i \in DOMAIN Q.batches : ToSet(Q.batches[i]) \intersect ToSet(ms) = {}
    BY DEF Held, Delivering
  <2>8. Distinct(R)
    BY <2>2, <2>3, <2>6, <2>7 DEF Distinct
  <2>9. /\ ensurePendingFlush(q, R) \in QueueState
        /\ ensurePendingFlush(q, R).messages = R.messages /\ ensurePendingFlush(q, R).batches = R.batches
    BY <2>3, EnsureKeeps
  <2> QED
    BY <2>4, <2>5, <2>6, <2>8, <2>9, SameContent
<1> QED
  BY <1>1, <1>2

\* A batch of no more than maxBatchSize messages leaves the queue; no other
\* message goes anywhere.
LEMMA StartBatchHolds ==
  ASSUME NEW q \in Queues, NEW Q \in QueueState, Distinct(Q), Q.consumer
  PROVE  /\ StartBatch(q, Q) \in QueueState
         /\ Distinct(StartBatch(q, Q)) /\ FlushNoted(StartBatch(q, Q))
         /\ \E S \in SUBSET Queued(Q) :
              /\ Cardinality(S) <= Consumer[q].maxBatchSize
              /\ Queued(StartBatch(q, Q)) = Queued(Q) \ S
              /\ Delivering(StartBatch(q, Q)) = Delivering(Q) \union S
<1> DEFINE size == IF BatchIsFull(q, Q) THEN Consumer[q].maxBatchSize ELSE Len(Q.messages)
           batch == SubSeq(Q.messages, 1, size)
           rest == SubSeq(Q.messages, size + 1, Len(Q.messages))
           batches == Append(Q.batches, batch)
           R == StartBatch(q, Q)
<1>1. /\ Q.messages \in Seq(Messages) /\ Q.batches \in Seq(Seq(Messages))
      /\ Len(Q.messages) \in Nat /\ Consumer[q].maxBatchSize \in Nat \ {0}
  BY ConsumerType DEF QueueState
<1>2. size \in 0 .. Len(Q.messages) /\ size <= Consumer[q].maxBatchSize
  BY <1>1 DEF BatchIsFull
<1>3. R = [Q EXCEPT !.batches = batches, !.messages = rest]
  BY DEF StartBatch
<1> HIDE DEF size, R
<1>4. /\ batch \in Seq(Messages) /\ rest \in Seq(Messages) /\ Len(batch) = size
      /\ ToSet(batch) \union ToSet(rest) = Queued(Q)
      /\ IsInjective(batch) /\ IsInjective(rest) /\ ToSet(batch) \intersect ToSet(rest) = {}
  BY <1>1, <1>2, SplitHolds DEF Distinct, Queued
<1>5. Cardinality(ToSet(batch)) <= Consumer[q].maxBatchSize
  <2>1. Cardinality(ToSet(batch)) <= size
    BY <1>4, HoldsAtMost
  <2>2. IsFiniteSet(ToSet(batch))
    <3>1. ToSet(batch) \subseteq Messages
      BY <1>4 DEF ToSet
    <3> QED
      BY <3>1, QueuesFinite, FS_Subset
  <2>3. Cardinality(ToSet(batch)) \in Nat
    BY <2>2, FS_CardinalityType
  <2> QED
    BY <1>1, <1>2, <2>1, <2>3
<1> HIDE DEF batch, rest
<1>6. /\ batches \in Seq(Seq(Messages)) /\ batches # << >>
      /\ DOMAIN batches = (DOMAIN Q.batches) \union {Len(Q.batches) + 1}
      /\ \A i \in DOMAIN Q.batches : batches[i] = Q.batches[i]
      /\ batches[Len(Q.batches) + 1] = batch
      /\ Len(Q.batches) + 1 \notin DOMAIN Q.batches
  <2>1. /\ batches \in Seq(Seq(Messages)) /\ batches # << >> /\ Len(batches) = Len(Q.batches) + 1
        /\ \A i \in 1 .. Len(Q.batches) : batches[i] = Q.batches[i]
        /\ batches[Len(Q.batches) + 1] = batch
    <3> DEFINE M == Seq(Messages)
    <3>1. Q.batches \in Seq(M) /\ batch \in M
      BY <1>1, <1>4
    <3> HIDE DEF M
    <3>2. /\ batches \in Seq(M) /\ batches # << >> /\ Len(batches) = Len(Q.batches) + 1
          /\ \A i \in 1 .. Len(Q.batches) : batches[i] = Q.batches[i]
          /\ batches[Len(Q.batches) + 1] = batch
      BY <3>1, AppendIs
    <3> QED
      BY <3>2 DEF M
  <2>2. DOMAIN batches = 1 .. Len(Q.batches) + 1 /\ DOMAIN Q.batches = 1 .. Len(Q.batches) /\ Len(Q.batches) \in Nat
    BY <1>1, <2>1
  <2> HIDE DEF batches
  <2> QED
    BY <2>1, <2>2
<1> HIDE DEF batches
<1>7. /\ R \in QueueState /\ R.messages = rest /\ R.batches = batches /\ R.consumer = Q.consumer
      /\ R.pendingFlush = Q.pendingFlush
  BY <1>3, <1>4, <1>6 DEF QueueState
<1>8. Queued(R) = Queued(Q) \ ToSet(batch)
  BY <1>4, <1>7 DEF Queued
<1>9. Delivering(R) = Delivering(Q) \union ToSet(batch)
  BY <1>6, <1>7 DEF Delivering
<1>10. Distinct(R)
  <2>1. \A i \in DOMAIN Q.batches : /\ ToSet(Q.batches[i]) \intersect ToSet(batch) = {}
                                   /\ ToSet(Q.batches[i]) \intersect Queued(R) = {}
    BY <1>4, <1>8 DEF Distinct
  <2>2. \A i \in DOMAIN batches : /\ IsInjective(batches[i])
                                 /\ ToSet(batches[i]) \intersect Queued(R) = {}
    BY <1>4, <1>6, <1>8, <2>1 DEF Distinct
  <2>3. \A i, j \in DOMAIN batches : i # j => ToSet(batches[i]) \intersect ToSet(batches[j]) = {}
    BY <1>6, <2>1 DEF Distinct
  <2> QED
    BY <1>4, <1>7, <2>2, <2>3 DEF Distinct
<1>11. FlushNoted(R)
  BY <1>6, <1>7 DEF FlushNoted
<1> QED
  BY <1>4, <1>5, <1>7, <1>8, <1>9, <1>10, <1>11 DEF R

\* A batch is done: some of its messages are back in the queue, the others are
\* not held any more.
LEMMA RequeueHolds ==
  ASSUME NEW q \in Queues, queue[q] \in QueueState, Distinct(queue[q]), NEW i \in DOMAIN queue[q].batches,
         ~ queue[q].consumer => queue[q].pendingFlush = "NONE",
         NEW ms \in Seq(Messages), IsInjective(ms), ToSet(ms) \subseteq ToSet(queue[q].batches[i])
  PROVE  /\ Requeue(q, i, ms) \in QueueState
         /\ Distinct(Requeue(q, i, ms)) /\ FlushNoted(Requeue(q, i, ms))
         /\ Queued(Requeue(q, i, ms)) = Queued(queue[q]) \union ToSet(ms)
         /\ Delivering(Requeue(q, i, ms)) = Delivering(queue[q]) \ ToSet(queue[q].batches[i])
<1> DEFINE Q == queue[q]
           batches == RemoveAt(Q.batches, i)
           all == Q.messages \o ms
           orphans == IF Q.timeout THEN Q.orphans + 1 ELSE Q.orphans
           R == [Q EXCEPT !.batches = batches, !.pendingFlush = "NONE", !.timeout = FALSE,
                          !.orphans = orphans, !.messages = all]
<1>1. /\ Q.messages \in Seq(Messages) /\ Q.batches \in Seq(Seq(Messages)) /\ orphans \in Nat
      /\ DOMAIN Q.batches = 1 .. Len(Q.batches) /\ Len(Q.batches) \in Nat
  BY DEF QueueState
<1>2. Requeue(q, i, ms) = IF R.messages = << >> THEN R ELSE ensurePendingFlush(q, R)
  BY DEF Requeue
<1>3. ToSet(Q.messages) \intersect ToSet(ms) = {}
  BY DEF Distinct, Queued
<1>4. /\ all \in Seq(Messages) /\ ToSet(all) = Queued(Q) \union ToSet(ms) /\ IsInjective(all)
  BY <1>1, <1>3, ConcatHolds DEF Distinct, Queued
<1>5. /\ batches \in Seq(Seq(Messages)) /\ Len(batches) = Len(Q.batches) - 1
      /\ \A j \in 1 .. Len(Q.batches) - 1 : batches[j] = IF j < i THEN Q.batches[j] ELSE Q.batches[j + 1]
  <2> DEFINE M == Seq(Messages)
  <2>1. Q.batches \in Seq(M) /\ i \in 1 .. Len(Q.batches)
    BY <1>1
  <2> HIDE DEF M
  <2>2. /\ batches \in Seq(M) /\ Len(batches) = Len(Q.batches) - 1
        /\ \A j \in 1 .. Len(Q.batches) - 1 : batches[j] = IF j < i THEN Q.batches[j] ELSE Q.batches[j + 1]
    BY <2>1, RemoveAtIs
  <2> QED
    BY <2>2 DEF M
<1>6. R \in QueueState /\ R.messages = all /\ R.batches = batches /\ R.pendingFlush = "NONE"
      /\ R.consumer = Q.consumer
  <2> HIDE DEF orphans, all, batches
  <2> QED
    BY <1>1, <1>4, <1>5 DEF QueueState
<1> DEFINE old(j) == IF j < i THEN j ELSE j + 1
<1>7. /\ DOMAIN batches = 1 .. Len(Q.batches) - 1
      /\ \A j \in DOMAIN batches : /\ old(j) \in DOMAIN Q.batches /\ old(j) # i
                                   /\ batches[j] = Q.batches[old(j)]
      /\ \A j, k \in DOMAIN batches : j # k => old(j) # old(k)
      /\ \A l \in DOMAIN Q.batches \ {i} : \E j \in DOMAIN batches : old(j) = l
  <2> HIDE DEF batches
  <2>1. DOMAIN batches = 1 .. Len(Q.batches) - 1
    BY <1>1, <1>5
  <2>2. i \in 1 .. Len(Q.batches)
    BY <1>1
  <2>3. \A j \in DOMAIN batches : /\ old(j) \in DOMAIN Q.batches /\ old(j) # i
                                 /\ batches[j] = Q.batches[old(j)]
    <3> SUFFICES ASSUME NEW j \in DOMAIN batches
                 PROVE  /\ old(j) \in DOMAIN Q.batches /\ old(j) # i
                        /\ batches[j] = Q.batches[old(j)]
      OBVIOUS
    <3>1. j \in 1 .. Len(Q.batches) - 1
      BY <2>1
    <3>2. batches[j] = Q.batches[old(j)]
      BY <1>5, <3>1
    <3>3. old(j) \in 1 .. Len(Q.batches) /\ old(j) # i
      BY <1>1, <2>2, <3>1
    <3> HIDE DEF old
    <3> QED
      BY <1>1, <3>2, <3>3
  <2>4. \A j, k \in DOMAIN batches : j # k => old(j) # old(k)
    BY SMTT(20), <1>1, <2>1, <2>2
  <2>5. ASSUME NEW l \in DOMAIN Q.batches \ {i}
        PROVE  \E j \in DOMAIN batches : old(j) = l
    <3>1. CASE l < i
      BY <1>1, <2>1, <2>2, <3>1
    <3>2. CASE ~ (l < i)
      <4>1. l - 1 \in 1 .. Len(Q.batches) - 1 /\ ~ (l - 1 < i) /\ (l - 1) + 1 = l
        BY SMTT(20), <1>1, <2>2, <3>2
      <4> QED
        BY <2>1, <4>1
    <3> QED
      BY <3>1, <3>2
  <2> QED
    BY <2>1, <2>3, <2>4, <2>5
<1> HIDE DEF batches, all, R, old, orphans
<1>8. Queued(R) = Queued(Q) \union ToSet(ms)
  BY <1>4, <1>6 DEF Queued
<1>9. Delivering(R) = Delivering(Q) \ ToSet(Q.batches[i])
  <2>1. ASSUME NEW m \in Delivering(R)
        PROVE  m \in Delivering(Q) \ ToSet(Q.batches[i])
    <3>1. PICK j \in DOMAIN batches : m \in ToSet(batches[j])
      BY <1>6 DEF Delivering
    <3>2. old(j) \in DOMAIN Q.batches /\ old(j) # i /\ batches[j] = Q.batches[old(j)]
      BY <1>7, <3>1
    <3>3. ToSet(Q.batches[old(j)]) \intersect ToSet(Q.batches[i]) = {}
      BY <3>2 DEF Distinct
    <3> QED
      BY <3>1, <3>2, <3>3 DEF Delivering
  <2>2. ASSUME NEW m \in Delivering(Q) \ ToSet(Q.batches[i])
        PROVE  m \in Delivering(R)
    <3>1. PICK l \in DOMAIN Q.batches : m \in ToSet(Q.batches[l])
      BY DEF Delivering
    <3>2. PICK j \in DOMAIN batches : old(j) = l
      BY <1>7, <3>1
    <3> QED
      BY <1>6, <1>7, <3>1, <3>2 DEF Delivering
  <2> QED
    BY <2>1, <2>2
<1>10. Distinct(R)
  <2>1. ASSUME NEW j \in DOMAIN batches
        PROVE  /\ IsInjective(batches[j]) /\ ToSet(batches[j]) \intersect Queued(R) = {}
    <3>1. ToSet(Q.batches[old(j)]) \intersect Queued(Q) = {} /\ ToSet(Q.batches[old(j)]) \intersect ToSet(Q.batches[i]) = {}
      BY <1>7 DEF Distinct
    <3> QED
      BY <1>7, <1>8, <3>1 DEF Distinct
  <2>2. \A j, k \in DOMAIN batches : j # k => ToSet(batches[j]) \intersect ToSet(batches[k]) = {}
    <3> SUFFICES ASSUME NEW j \in DOMAIN batches, NEW k \in DOMAIN batches, j # k
                 PROVE  ToSet(batches[j]) \intersect ToSet(batches[k]) = {}
      OBVIOUS
    <3>1. /\ old(j) \in DOMAIN Q.batches /\ old(k) \in DOMAIN Q.batches /\ old(j) # old(k)
          /\ batches[j] = Q.batches[old(j)] /\ batches[k] = Q.batches[old(k)]
      BY <1>7
    <3>2. ToSet(Q.batches[old(j)]) \intersect ToSet(Q.batches[old(k)]) = {}
      BY <3>1, Zenon DEF Distinct
    <3> QED
      BY <3>1, <3>2
  <2> QED
    BY <1>4, <1>6, <2>1, <2>2 DEF Distinct
<1>11. CASE R.messages = << >>
  <2>1. FlushNoted(R)
    BY <1>6, <1>11 DEF FlushNoted
  <2> QED
    BY <1>2, <1>6, <1>8, <1>9, <1>10, <1>11, <2>1
<1>12. CASE R.messages # << >>
  <2>1. FlushNoted(ensurePendingFlush(q, R))
    BY <1>6, EnsureNotes
  <2>2. /\ ensurePendingFlush(q, R) \in QueueState
        /\ ensurePendingFlush(q, R).messages = R.messages /\ ensurePendingFlush(q, R).batches = R.batches
    BY <1>6, EnsureKeeps
  <2> QED
    BY <1>2, <1>8, <1>9, <1>10, <1>12, <2>1, <2>2, SameContent
<1> QED
  BY <1>11, <1>12

-----------------------------------------------------------------------------
(***************************************************************************)
(* The actions: each keeps the invariant, and moves messages as stated.    *)
(***************************************************************************)

\* A message that is held has been sent and is not settled.
LEMMA HeldIsSent ==
  ASSUME IInv, NEW q \in Queues
  PROVE  \A m \in Held(queue[q]) : m \in Messages /\ status[m] = "sent"
BY DEF IInv, InOnePlace

\* Initially the queues are empty.
LEMMA InitInvariant == Init => IInv
<1> SUFFICES ASSUME Init
             PROVE  IInv
  OBVIOUS
<1> DEFINE Q == [messages |-> << >>, consumer |-> FALSE, pendingFlush |-> "NONE",
                 timeout |-> FALSE, orphans |-> 0, batches |-> << >>]
<1>1. << >> \in Seq(Messages) /\ << >> \in Seq(Seq(Messages)) /\ DOMAIN << >> = {}
  OBVIOUS
<1>2. \A q \in Queues : queue[q] = Q
  BY DEF Init
<1>3. Q \in QueueState
  BY <1>1 DEF QueueState
<1>4. Distinct(Q) /\ Held(Q) = {} /\ FlushNoted(Q)
  BY <1>1 DEF Distinct, Held, Queued, Delivering, FlushNoted, IsInjective, ToSet
<1> HIDE DEF Q
<1>5. queue \in [Queues -> QueueState]
  BY <1>3 DEF Init, Q
<1>6. TypeOK
  BY <1>5 DEF Init, TypeOK
<1>7. InOnePlace
  BY <1>2, <1>4 DEF Init, InOnePlace
<1> QED
  BY <1>2, <1>4, <1>6, <1>7 DEF IInv

\* The messages stay where they are.
Stay ==
  /\ UNCHANGED <<status, failedAttempts>>
  /\ \A q \in Queues : /\ queue'[q].messages = queue[q].messages
                       /\ queue'[q].batches = queue[q].batches

\* Messages that stay are still in one place.
LEMMA StayInvariant ==
  ASSUME IInv, Stay, queue' \in [Queues -> QueueState], reloads' \in Nat,
         \A q \in Queues : FlushNoted(queue'[q])
  PROVE  IInv'
<1>1. \A q \in Queues : /\ Distinct(queue'[q]) <=> Distinct(queue[q])
                        /\ Held(queue'[q]) = Held(queue[q])
  BY SameContent DEF Stay
<1>2. TypeOK'
  BY DEF IInv, TypeOK, Stay
<1>3. InOnePlace'
  <2>1. \A q \in Queues : Distinct(queue'[q])
    BY <1>1 DEF IInv, InOnePlace
  <2>2. \A q, r \in Queues : q # r => Held(queue'[q]) \intersect Held(queue'[r]) = {}
    BY <1>1 DEF IInv, InOnePlace
  <2>3. {m \in Messages : status'[m] = "sent"} = UNION {Held(queue'[q]) : q \in Queues}
    BY <1>1 DEF IInv, InOnePlace, Stay
  <2> QED
    BY <2>1, <2>2, <2>3 DEF InOnePlace
<1> QED
  BY <1>2, <1>3 DEF IInv

\* A message that nobody has sent is put into one queue.
LEMMA SendInvariant ==
  ASSUME IInv, NEW q \in Queues, NEW m \in Messages, Send(q, m)
  PROVE  /\ IInv'
         /\ \A r \in Queues : /\ Queued(queue'[r]) = IF r = q THEN Queued(queue[r]) \union {m} ELSE Queued(queue[r])
                              /\ Delivering(queue'[r]) = Delivering(queue[r])
<1> DEFINE ms == <<m>>
           R == enqueue(q, queue[q], ms)
<1>1. /\ status[m] = "unsent" /\ status' = [status EXCEPT ![m] = "sent"]
      /\ queue' = [queue EXCEPT ![q] = R] /\ UNCHANGED <<failedAttempts, reloads>>
  BY DEF Send
<1>2. queue \in [Queues -> QueueState] /\ Distinct(queue[q]) /\ FlushNoted(queue[q])
  BY DEF IInv, TypeOK, InOnePlace
<1>3. \A r \in Queues : m \notin Held(queue[r])
  BY <1>1, HeldIsSent
<1>4. ms \in Seq(Messages) /\ ToSet(ms) = {m} /\ IsInjective(ms)
  BY DEF ToSet, IsInjective
<1> HIDE DEF ms
<1>5. /\ R \in QueueState /\ Distinct(R) /\ FlushNoted(R)
      /\ Queued(R) = Queued(queue[q]) \union {m} /\ Delivering(R) = Delivering(queue[q])
  BY <1>2, <1>3, <1>4, EnqueueHolds
<1> HIDE DEF R
<1>6. /\ queue' \in [Queues -> QueueState] /\ queue'[q] = R
      /\ \A r \in Queues \ {q} : queue'[r] = queue[r]
  BY <1>1, <1>2, <1>5
<1>7. \A r \in Queues : Held(queue'[r]) = IF r = q THEN Held(queue[r]) \union {m} ELSE Held(queue[r])
  BY <1>5, <1>6 DEF Held
<1>8. TypeOK'
  BY <1>1, <1>6 DEF IInv, TypeOK
<1>9. InOnePlace'
  <2>1. \A r \in Queues : Distinct(queue'[r])
    BY <1>5, <1>6 DEF IInv, InOnePlace
  <2>2. \A r, t \in Queues : r # t => Held(queue'[r]) \intersect Held(queue'[t]) = {}
    BY <1>3, <1>7 DEF IInv, InOnePlace
  <2>3. {x \in Messages : status'[x] = "sent"} = {x \in Messages : status[x] = "sent"} \union {m}
    BY <1>1 DEF IInv, TypeOK
  <2>4. \A x : (\E r \in Queues : x \in Held(queue'[r])) <=> (\E r \in Queues : x \in Held(queue[r])) \/ x = m
    <3> SUFFICES ASSUME NEW x
                 PROVE  (\E r \in Queues : x \in Held(queue'[r])) <=> (\E r \in Queues : x \in Held(queue[r])) \/ x = m
      OBVIOUS
    <3>1. m \in Held(queue'[q])
      BY <1>7
    <3>2. \A r \in Queues : x \in Held(queue'[r]) <=> x \in Held(queue[r]) \/ (r = q /\ x = m)
      BY <1>7
    <3> QED
      BY <3>1, <3>2
  <2>5. {x \in Messages : status[x] = "sent"} = UNION {Held(queue[r]) : r \in Queues}
    BY DEF IInv, InOnePlace
  <2>6. {x \in Messages : status'[x] = "sent"} = UNION {Held(queue'[r]) : r \in Queues}
    <3> HIDE DEF Held
    <3> DEFINE before == {x \in Messages : status[x] = "sent"}
               after == {x \in Messages : status'[x] = "sent"}
    <3>1. \A x : x \in before <=> \E r \in Queues : x \in Held(queue[r])
      BY <2>5
    <3>2. \A x : x \in after <=> x \in before \/ x = m
      BY <2>3
    <3> HIDE DEF before, after
    <3>3. \A x : x \in after <=> \E r \in Queues : x \in Held(queue'[r])
      BY <2>4, <3>1, <3>2
    <3>4. after = UNION {Held(queue'[r]) : r \in Queues}
      BY <3>3
    <3> QED
      BY <3>4 DEF after
  <2> QED
    BY <2>1, <2>2, <2>6 DEF InOnePlace
<1>10. \A r \in Queues : FlushNoted(queue'[r])
  BY <1>5, <1>6 DEF IInv
<1> QED
  BY <1>5, <1>6, <1>8, <1>9, <1>10 DEF IInv

\* A consumer comes, and the messages that wait for it are noted.
LEMMA SetConsumerInvariant ==
  ASSUME IInv, NEW q \in Queues, SetConsumer(q)
  PROVE  IInv' /\ Stay
<1> DEFINE Q == [queue[q] EXCEPT !.consumer = TRUE]
           R == IF Q.messages = << >> THEN Q ELSE ensurePendingFlush(q, Q)
<1>1. queue' = [queue EXCEPT ![q] = R] /\ ~ queue[q].consumer /\ UNCHANGED <<failedAttempts, status, reloads>>
  BY DEF SetConsumer
<1>2. queue \in [Queues -> QueueState] /\ queue[q] \in QueueState /\ FlushNoted(queue[q])
  BY DEF IInv, TypeOK
<1>3. /\ Q \in QueueState /\ Q.messages = queue[q].messages /\ Q.batches = queue[q].batches /\ Q.consumer
      /\ Q.pendingFlush = "NONE"
  BY <1>1, <1>2 DEF QueueState, FlushNoted
<1> HIDE DEF Q
<1>4. R \in QueueState /\ R.messages = Q.messages /\ R.batches = Q.batches
  BY <1>3, EnsureKeeps
<1>5. FlushNoted(R)
  <2>1. CASE Q.messages = << >>
    BY <1>3, <2>1 DEF FlushNoted
  <2>2. CASE Q.messages # << >>
    BY <1>3, <2>2, EnsureNotes
  <2> QED
    BY <2>1, <2>2
<1> HIDE DEF R
<1>6. /\ queue' \in [Queues -> QueueState] /\ Stay /\ \A r \in Queues : FlushNoted(queue'[r])
  BY <1>1, <1>2, <1>3, <1>4, <1>5 DEF Stay, IInv
<1>7. reloads' \in Nat
  BY <1>1 DEF IInv, TypeOK
<1> QED
  BY <1>6, <1>7, StayInvariant

\* A reload takes the consumers away, and what was noted for them.
LEMMA ReloadInvariant ==
  ASSUME IInv, Reload
  PROVE  IInv' /\ Stay
<1>1. \A q \in Queues : queue[q] \in QueueState
  BY DEF IInv, TypeOK
<1>2. ASSUME NEW q \in Queues
      PROVE  /\ queue'[q] \in QueueState /\ queue'[q].messages = queue[q].messages
             /\ queue'[q].batches = queue[q].batches /\ ~ queue'[q].consumer
             /\ queue'[q].pendingFlush = "NONE"
  BY <1>1 DEF Reload, QueueState
<1>3. queue' = [q \in Queues |-> queue'[q]]
  BY DEF Reload
<1>4. /\ queue' \in [Queues -> QueueState] /\ \A q \in Queues : FlushNoted(queue'[q])
  BY <1>2, <1>3 DEF FlushNoted
<1>5. Stay
  BY <1>2 DEF Stay, Reload
<1>6. reloads' \in Nat
  <2>1. reloads \in Nat /\ reloads' = reloads + 1
    BY DEF Reload, IInv, TypeOK
  <2> QED
    BY <2>1
<1> QED
  BY <1>4, <1>5, <1>6, StayInvariant

\* A timer starts a batch of no more than maxBatchSize messages; it may be
\* empty, and is where there is no consumer.
LEMMA TimerFiresInvariant ==
  ASSUME IInv, NEW q \in Queues, TimerFires(q)
  PROVE  /\ IInv'
         /\ \/ Stay
            \/ \E S \in SUBSET Queued(queue[q]) :
                 /\ Cardinality(S) <= Consumer[q].maxBatchSize
                 /\ \A r \in Queues :
                      /\ Queued(queue'[r]) = IF r = q THEN Queued(queue[r]) \ S ELSE Queued(queue[r])
                      /\ Delivering(queue'[r]) = IF r = q THEN Delivering(queue[r]) \union S ELSE Delivering(queue[r])
<1>1. queue \in [Queues -> QueueState] /\ queue[q] \in QueueState /\ FlushNoted(queue[q]) /\ Distinct(queue[q])
  BY DEF IInv, TypeOK, InOnePlace
<1>2. UNCHANGED <<failedAttempts, status, reloads>>
  BY DEF TimerFires
<1>3. PICK Q \in QueueState :
        /\ queue' = [queue EXCEPT ![q] = IF Q.consumer THEN StartBatch(q, Q) ELSE Q]
        /\ Q.messages = queue[q].messages /\ Q.batches = queue[q].batches
        /\ Q.consumer = queue[q].consumer /\ Q.pendingFlush = queue[q].pendingFlush
  <2> DEFINE A == [queue[q] EXCEPT !.timeout = FALSE]
             n == queue[q].orphans - 1
             B == [queue[q] EXCEPT !.orphans = n]
  <2>1. /\ A \in QueueState /\ A.messages = queue[q].messages /\ A.batches = queue[q].batches
        /\ A.consumer = queue[q].consumer /\ A.pendingFlush = queue[q].pendingFlush
    BY <1>1 DEF QueueState
  <2>2. ASSUME queue[q].orphans > 0
        PROVE  /\ B \in QueueState /\ B.messages = queue[q].messages /\ B.batches = queue[q].batches
               /\ B.consumer = queue[q].consumer /\ B.pendingFlush = queue[q].pendingFlush
    <3>1. n \in Nat
      BY <1>1, <2>2 DEF QueueState
    <3> HIDE DEF n
    <3> QED
      BY <1>1, <3>1 DEF QueueState
  <2>3. Flush(q, A) \/ (queue[q].orphans > 0 /\ Flush(q, B))
    BY DEF TimerFires
  <2> HIDE DEF A, B
  <2> QED
    BY <2>1, <2>2, <2>3 DEF Flush
<1>4. CASE ~ Q.consumer
  <2>1. queue' = [queue EXCEPT ![q] = Q]
    BY <1>3, <1>4
  <2>2. FlushNoted(Q)
    BY <1>1, <1>3, <1>4 DEF FlushNoted
  <2>3. /\ queue' \in [Queues -> QueueState] /\ Stay /\ \A r \in Queues : FlushNoted(queue'[r])
    BY <1>1, <1>2, <1>3, <2>1, <2>2 DEF Stay, IInv
  <2> QED
    BY <1>2, <2>3, StayInvariant DEF IInv, TypeOK
<1>5. CASE Q.consumer
  <2> DEFINE R == StartBatch(q, Q)
  <2>1. queue' = [queue EXCEPT ![q] = R]
    BY <1>3, <1>5
  <2>2. /\ Distinct(Q) /\ Queued(Q) = Queued(queue[q]) /\ Delivering(Q) = Delivering(queue[q])
    BY <1>1, <1>3, SameContent
  <2>3. /\ R \in QueueState /\ Distinct(R) /\ FlushNoted(R)
        /\ \E S \in SUBSET Queued(Q) :
             /\ Cardinality(S) <= Consumer[q].maxBatchSize
             /\ Queued(R) = Queued(Q) \ S /\ Delivering(R) = Delivering(Q) \union S
    BY <1>5, <2>2, StartBatchHolds
  <2> HIDE DEF R
  <2>4. PICK S \in SUBSET Queued(queue[q]) :
          /\ Cardinality(S) <= Consumer[q].maxBatchSize
          /\ Queued(R) = Queued(queue[q]) \ S /\ Delivering(R) = Delivering(queue[q]) \union S
    BY <2>2, <2>3
  <2>5. /\ queue' \in [Queues -> QueueState] /\ queue'[q] = R
        /\ \A r \in Queues \ {q} : queue'[r] = queue[r]
    BY <1>1, <2>1, <2>3
  <2>6. \A r \in Queues : Held(queue'[r]) = Held(queue[r])
    BY <2>4, <2>5 DEF Held
  <2>7. InOnePlace'
    <3>1. \A r \in Queues : Distinct(queue'[r])
      BY <2>3, <2>5 DEF IInv, InOnePlace
    <3>2. \A r, t \in Queues : r # t => Held(queue'[r]) \intersect Held(queue'[t]) = {}
      BY <2>6 DEF IInv, InOnePlace
    <3>3. {m \in Messages : status'[m] = "sent"} = UNION {Held(queue'[r]) : r \in Queues}
      BY <1>2, <2>6 DEF IInv, InOnePlace
    <3> QED
      BY <3>1, <3>2, <3>3 DEF InOnePlace
  <2>8. TypeOK' /\ \A r \in Queues : FlushNoted(queue'[r])
    BY <1>2, <2>3, <2>5 DEF IInv, TypeOK
  <2>9. \A r \in Queues :
          /\ Queued(queue'[r]) = IF r = q THEN Queued(queue[r]) \ S ELSE Queued(queue[r])
          /\ Delivering(queue'[r]) = IF r = q THEN Delivering(queue[r]) \union S ELSE Delivering(queue[r])
    BY <2>4, <2>5
  <2> QED
    BY <2>4, <2>7, <2>8, <2>9 DEF IInv
<1> QED
  BY <1>4, <1>5

\* Where the messages of a batch go: those to be retried back into the queue,
\* those that have failed too often into the dead letter queue, if there is
\* one.  It may be the same queue.
Settled(q, i, F, last) ==
  LET dlq == Consumer[q].deadLetterQueue
  IN  \A r \in Queues :
        /\ Queued(queue'[r]) = Queued(queue[r]) \union (IF r = q THEN F \ last ELSE {})
                                               \union (IF r = dlq THEN last ELSE {})
        /\ Delivering(queue'[r]) = IF r = q THEN Delivering(queue[r]) \ ToSet(queue[q].batches[i])
                                            ELSE Delivering(queue[r])

\* A batch is done: its messages are somewhere else, or settled.
LEMMA FlushDoneInvariant ==
  ASSUME IInv, NEW q \in Queues, NEW i \in DOMAIN queue[q].batches,
         NEW F \in SUBSET ToSet(queue[q].batches[i]), FlushDone(q, i, F)
  PROVE  IInv' /\ Settled(q, i, F, {m \in F : Exhausted(q, m)})
<1> DEFINE batch == queue[q].batches[i]
           dlq == Consumer[q].deadLetterQueue
           last == {m \in F : Exhausted(q, m)}
           again == Those(batch, F \ last)
           dead == Those(batch, last)
           Q == Requeue(q, i, again)
           rest == [queue EXCEPT ![q] = Q]
<1>1. /\ queue \in [Queues -> QueueState] /\ queue[q] \in QueueState /\ \A r \in Queues : Distinct(queue[r]) /\ FlushNoted(queue[r])
      /\ \A r, t \in Queues : r # t => Held(queue[r]) \intersect Held(queue[t]) = {}
  BY DEF IInv, TypeOK, InOnePlace
<1>2. batch \in Seq(Messages) /\ IsInjective(batch) /\ ToSet(batch) \subseteq Messages
      /\ ToSet(batch) \subseteq Delivering(queue[q]) /\ ToSet(batch) \intersect Queued(queue[q]) = {}
  <2>1. batch \in Seq(Messages)
    BY <1>1 DEF QueueState
  <2>2. ToSet(batch) \subseteq Messages
    BY <2>1 DEF ToSet
  <2> QED
    BY <1>1, <2>1, <2>2 DEF Distinct, Delivering
<1>3. dlq \in Queues \union {None} /\ None \notin Queues
  BY ConsumerType, NoneIsNoQueue
<1>4. /\ queue' = (IF dlq = None THEN rest ELSE [rest EXCEPT ![dlq] = enqueue(dlq, rest[dlq], dead)])
      /\ failedAttempts' = [m \in Messages |-> IF m \in last THEN 0
                                              ELSE failedAttempts[m] + Cardinality(F \intersect {m})]
      /\ status' = [m \in Messages |->
                      CASE m \in ToSet(batch) \ F -> "acked"
                        [] m \in last /\ dlq = None -> "dropped"
                        [] OTHER -> status[m]]
      /\ UNCHANGED reloads
  BY DEF FlushDone
<1>5. last \subseteq F /\ F \subseteq ToSet(batch)
  OBVIOUS
<1>6. /\ again \in Seq(Messages) /\ ToSet(again) = F \ last /\ IsInjective(again)
      /\ dead \in Seq(Messages) /\ ToSet(dead) = last /\ IsInjective(dead)
  <2> HIDE DEF batch, last
  <2>1. /\ Those(batch, F \ last) \in Seq(Messages)
        /\ ToSet(Those(batch, F \ last)) = ToSet(batch) \intersect (F \ last)
        /\ IsInjective(Those(batch, F \ last))
    BY <1>2, ThoseHolds
  <2>2. /\ Those(batch, last) \in Seq(Messages)
        /\ ToSet(Those(batch, last)) = ToSet(batch) \intersect last
        /\ IsInjective(Those(batch, last))
    BY <1>2, ThoseHolds
  <2>3. ToSet(batch) \intersect (F \ last) = F \ last /\ ToSet(batch) \intersect last = last
    BY <1>5
  <2> QED
    BY <2>1, <2>2, <2>3
<1> HIDE DEF again, dead, last
<1>7. /\ Q \in QueueState /\ Distinct(Q) /\ FlushNoted(Q)
      /\ Queued(Q) = Queued(queue[q]) \union (F \ last)
      /\ Delivering(Q) = Delivering(queue[q]) \ ToSet(batch)
  BY <1>1, <1>5, <1>6, RequeueHolds DEF FlushNoted
<1> HIDE DEF Q
<1>8. /\ rest \in [Queues -> QueueState] /\ rest[q] = Q /\ \A r \in Queues \ {q} : rest[r] = queue[r]
  BY <1>1, <1>7
<1> HIDE DEF rest, batch
<1>9. /\ queue' \in [Queues -> QueueState]
      /\ \A r \in Queues : Distinct(queue'[r]) /\ FlushNoted(queue'[r])
      /\ \A r \in Queues :
           /\ Queued(queue'[r]) = Queued(rest[r]) \union (IF r = dlq THEN last ELSE {})
           /\ Delivering(queue'[r]) = Delivering(rest[r])
  <2>1. \A r \in Queues : Distinct(rest[r]) /\ FlushNoted(rest[r])
    BY <1>1, <1>7, <1>8
  <2>2. CASE dlq = None
    BY <1>3, <1>4, <1>8, <2>1, <2>2
  <2>3. CASE dlq # None
    <3> DEFINE D == enqueue(dlq, rest[dlq], dead)
    <3>1. dlq \in Queues
      BY <1>3, <2>3
    <3>2. ToSet(dead) \intersect Held(rest[dlq]) = {}
      <4>1. CASE dlq = q
        BY <1>2, <1>5, <1>6, <1>7, <1>8, <4>1 DEF Held
      <4>2. CASE dlq # q
        <5>1. Held(queue[dlq]) \intersect Held(queue[q]) = {} /\ rest[dlq] = queue[dlq]
          BY <1>1, <1>8, <3>1, <4>2
        <5> QED
          BY <1>2, <1>5, <1>6, <5>1 DEF Held
      <4> QED
        BY <4>1, <4>2
    <3>3. rest[dlq] \in QueueState /\ Distinct(rest[dlq]) /\ FlushNoted(rest[dlq])
      BY <1>8, <2>1, <3>1
    <3>4. /\ D \in QueueState /\ Distinct(D) /\ FlushNoted(D)
          /\ Queued(D) = Queued(rest[dlq]) \union last /\ Delivering(D) = Delivering(rest[dlq])
      <4> HIDE DEF dlq
      <4> QED
        BY <1>6, <3>1, <3>2, <3>3, EnqueueHolds
    <3>5. queue' = [rest EXCEPT ![dlq] = D]
      BY <1>4, <2>3
    <3> HIDE DEF D, dlq
    <3>6. queue' \in [Queues -> QueueState] /\ queue'[dlq] = D /\ \A r \in Queues \ {dlq} : queue'[r] = rest[r]
      BY <1>8, <3>1, <3>4, <3>5
    <3> QED
      BY <2>1, <3>4, <3>6
  <2> QED
    BY <2>2, <2>3
<1>10. Settled(q, i, F, last)
  <2>1. \A r \in Queues : Queued(queue'[r]) = Queued(queue[r]) \union (IF r = q THEN F \ last ELSE {})
                                               \union (IF r = dlq THEN last ELSE {})
    BY <1>7, <1>8, <1>9
  <2>2. \A r \in Queues : Delivering(queue'[r]) = IF r = q THEN Delivering(queue[r]) \ ToSet(batch) ELSE Delivering(queue[r])
    BY <1>7, <1>8, <1>9
  <2> QED
    BY <2>1, <2>2 DEF Settled, batch
<1>11. \A r \in Queues : Held(queue'[r]) = (Held(queue[r]) \ ToSet(batch))
                                           \union (IF r = q THEN F \ last ELSE {})
                                           \union (IF r = dlq THEN last ELSE {})
  <2> SUFFICES ASSUME NEW r \in Queues
               PROVE  Held(queue'[r]) = (Held(queue[r]) \ ToSet(batch))
                                           \union (IF r = q THEN F \ last ELSE {})
                                           \union (IF r = dlq THEN last ELSE {})
    OBVIOUS
  <2>1. /\ Queued(queue'[r]) = Queued(queue[r]) \union (IF r = q THEN F \ last ELSE {})
                                               \union (IF r = dlq THEN last ELSE {})
        /\ Delivering(queue'[r]) = IF r = q THEN Delivering(queue[r]) \ ToSet(batch) ELSE Delivering(queue[r])
    BY <1>10 DEF Settled, batch
  <2>2. CASE r = q
    BY <1>2, <2>1, <2>2 DEF Held
  <2>3. CASE r # q
    <3>1. Held(queue[r]) \intersect ToSet(batch) = {}
      BY <1>1, <1>2, <2>3 DEF Held
    <3> QED
      BY <2>1, <2>3, <3>1 DEF Held
  <2> QED
    BY <2>2, <2>3
<1>12. \A r, t \in Queues : r # t => Held(queue'[r]) \intersect Held(queue'[t]) = {}
  BY <1>1, <1>5, <1>11
<1>13. {m \in Messages : status'[m] = "sent"} = UNION {Held(queue'[r]) : r \in Queues}
  <2>1. \A m \in Messages : status[m] = "sent" <=> \E r \in Queues : m \in Held(queue[r])
    BY DEF IInv, InOnePlace
  <2>2. \A r \in Queues : Held(queue'[r]) \subseteq Messages
    BY <1>2, <1>5, <1>11, HeldIsSent
  <2>3. \A m \in ToSet(batch) : status[m] = "sent"
    BY <1>2, HeldIsSent DEF Held
  <2>4. ASSUME NEW m \in Messages
        PROVE  status'[m] = "sent" <=> \E r \in Queues : m \in Held(queue'[r])
    <3>1. CASE m \in ToSet(batch) \ F
      BY <1>4, <1>5, <1>11, <3>1
    <3>2. CASE m \in last /\ dlq = None
      BY <1>3, <1>4, <1>5, <1>11, <3>2
    <3>3. CASE m \in last /\ dlq # None
      <4>1. status'[m] = "sent"
        BY <1>4, <1>5, <2>3, <3>3
      <4>2. m \in Held(queue'[dlq]) /\ dlq \in Queues
        BY <1>3, <1>11, <3>3
      <4> QED
        BY <4>1, <4>2
    <3>4. CASE m \in F \ last
      <4>1. status'[m] = "sent"
        BY <1>4, <1>5, <2>3, <3>4
      <4>2. m \in Held(queue'[q])
        BY <1>11, <3>4
      <4> QED
        BY <4>1, <4>2
    <3>5. CASE m \notin ToSet(batch)
      <4>1. status'[m] = status[m]
        BY <1>4, <1>5, <3>5
      <4>2. \A r \in Queues : m \in Held(queue'[r]) <=> m \in Held(queue[r])
        BY <1>5, <1>11, <3>5
      <4> QED
        BY <2>1, <4>1, <4>2
    <3> QED
      BY <1>5, <3>1, <3>2, <3>3, <3>4, <3>5
  <2> QED
    BY <2>2, <2>4
<1>14. TypeOK'
  <2>1. \A m \in Messages : Cardinality(F \intersect {m}) \in Nat
    <3>1. \A m \in Messages : IsFiniteSet(F \intersect {m})
      BY <1>2, <1>5, QueuesFinite, FS_Subset
    <3> QED
      BY <3>1, FS_CardinalityType
  <2>2. failedAttempts' \in [Messages -> Nat]
    BY <1>4, <2>1 DEF IInv, TypeOK
  <2>3. status' \in [Messages -> {"unsent", "sent", "acked", "dropped"}]
    BY <1>4 DEF IInv, TypeOK
  <2> QED
    BY <1>4, <1>9, <2>2, <2>3 DEF IInv, TypeOK
<1>15. IInv'
  BY <1>9, <1>12, <1>13, <1>14 DEF IInv, InOnePlace
<1> QED
  BY <1>10, <1>15 DEF last

\* Every step keeps the invariant.
LEMMA StepInvariant ==
  ASSUME IInv, [Next]_vars
  PROVE  IInv'
<1>1. CASE UNCHANGED vars
  <2>1. Stay /\ queue' = queue /\ reloads' = reloads
    BY <1>1 DEF vars, Stay
  <2>2. queue' \in [Queues -> QueueState] /\ reloads' \in Nat /\ \A q \in Queues : FlushNoted(queue'[q])
    BY <2>1 DEF IInv, TypeOK
  <2> QED
    BY <2>1, <2>2, StayInvariant
<1>2. CASE Reload
  BY <1>2, ReloadInvariant
<1>3. ASSUME NEW q \in Queues, SetConsumer(q) PROVE IInv'
  BY <1>3, SetConsumerInvariant
<1>4. ASSUME NEW q \in Queues, TimerFires(q) PROVE IInv'
  BY <1>4, TimerFiresInvariant
<1>5. ASSUME NEW q \in Queues, HandlerReturns(q) PROVE IInv'
  <2>1. PICK i \in DOMAIN queue[q].batches : \E F \in SUBSET ToSet(queue[q].batches[i]) : FlushDone(q, i, F)
    BY <1>5 DEF HandlerReturns
  <2> QED
    BY <2>1, FlushDoneInvariant
<1>6. ASSUME NEW q \in Queues, NEW m \in Messages, Send(q, m) PROVE IInv'
  BY <1>6, SendInvariant
<1> QED
  BY <1>1, <1>2, <1>3, <1>4, <1>5, <1>6 DEF Next

-----------------------------------------------------------------------------
(***************************************************************************)
(* What follows from the invariant.                                        *)
(***************************************************************************)

\* The invariant holds in every state.
THEOREM InductiveInvariant == Spec => []IInv
<1>1. Init => IInv
  BY InitInvariant
<1>2. IInv /\ [Next]_vars => IInv'
  BY StepInvariant
<1> QED
  BY <1>1, <1>2, PTL DEF Spec

\* The state of the queues is always one that broker.ts can be in.
THEOREM TypeCorrect == Spec => []TypeOK
<1>1. IInv => TypeOK
  BY DEF IInv
<1> QED
  BY <1>1, InductiveInvariant, PTL

\* What the batches of a queue hold is in one sequence.
LEMMA BatchesHold ==
  ASSUME IInv, NEW q \in Queues
  PROVE  /\ InBatches(q) \in Seq(Messages)
         /\ ToSet(InBatches(q)) = Delivering(queue[q])
         /\ IsInjective(InBatches(q))
<1>1. queue[q] \in QueueState /\ Distinct(queue[q])
  BY DEF IInv, TypeOK, InOnePlace
<1>2. queue[q].batches \in Seq(Seq(Messages))
  BY <1>1 DEF QueueState
<1> QED
  BY <1>1, <1>2, FlattenHolds DEF InBatches, Distinct, Delivering

\* #flush() and #enqueue() never lose a message that was sent, and never hand
\* one to two flushes, however flushes, retries, dead letters and reloads
\* overlap.
THEOREM MessagesInOnePlace == Spec => []NoneLostNoneTwice
<1>1. ASSUME IInv, NEW q \in Queues
      PROVE  /\ IsInjective(Waiting(q) \o InBatches(q))
             /\ ToSet(Waiting(q) \o InBatches(q)) = Held(queue[q])
  <2>1. Waiting(q) \in Seq(Messages) /\ IsInjective(Waiting(q)) /\ ToSet(Waiting(q)) = Queued(queue[q])
    <3>1. queue[q] \in QueueState /\ Distinct(queue[q])
      BY <1>1 DEF IInv, TypeOK, InOnePlace
    <3> QED
      BY <3>1 DEF QueueState, Distinct, Waiting, Queued
  <2>2. /\ InBatches(q) \in Seq(Messages) /\ ToSet(InBatches(q)) = Delivering(queue[q])
        /\ IsInjective(InBatches(q))
    BY <1>1, BatchesHold
  <2>3. Queued(queue[q]) \intersect Delivering(queue[q]) = {}
    BY <1>1 DEF IInv, InOnePlace, Distinct, Delivering
  <2> QED
    BY <2>1, <2>2, <2>3, ConcatHolds DEF Held
<1>2. IInv => NoneLostNoneTwice
  <2> SUFFICES ASSUME IInv
               PROVE  NoneLostNoneTwice
    OBVIOUS
  <2>1. UNION {ToSet(Waiting(q) \o InBatches(q)) : q \in Queues} = UNION {Held(queue[q]) : q \in Queues}
    BY <1>1
  <2> QED
    BY <1>1, <2>1 DEF IInv, InOnePlace, NoneLostNoneTwice
<1> QED
  BY <1>2, InductiveInvariant, PTL

\* A queue never sits on messages with a consumer and nothing to flush them:
\* what #ensurePendingFlush() relies on when it sees a pending flush.
THEOREM FlushesToCome == Spec => []FlushToCome
<1>1. IInv => FlushToCome
  BY DEF IInv, FlushNoted, FlushToCome
<1> QED
  BY <1>1, InductiveInvariant, PTL

-----------------------------------------------------------------------------
(***************************************************************************)
(* Queues implement the abstract delivery.                                 *)
(***************************************************************************)

\* The place of a message, read off from what queues and batches hold.
PlacesAre ==
  \A m \in Messages :
    /\ status[m] # "sent" => Place(m) = [at |-> status[m], queue |-> None]
    /\ \A q \in Queues : /\ m \in Queued(queue[q]) => Place(m) = [at |-> "queued", queue |-> q]
                         /\ m \in Delivering(queue[q]) => Place(m) = [at |-> "delivering", queue |-> q]

\* Because a message is held once, it has that one place.
LEMMA PlacesKnown == IInv => PlacesAre
<1> SUFFICES ASSUME IInv, NEW m \in Messages
             PROVE  /\ status[m] # "sent" => Place(m) = [at |-> status[m], queue |-> None]
                    /\ \A q \in Queues :
                         /\ m \in Queued(queue[q]) => Place(m) = [at |-> "queued", queue |-> q]
                         /\ m \in Delivering(queue[q]) => Place(m) = [at |-> "delivering", queue |-> q]
  BY DEF PlacesAre
<1>1. \A q \in Queues : ToSet(Waiting(q)) = Queued(queue[q]) /\ ToSet(InBatches(q)) = Delivering(queue[q])
  BY BatchesHold DEF Waiting, Queued
<1>2. CASE status[m] # "sent"
  BY <1>2, HeldIsSent DEF Place, Held
<1>3. ASSUME status[m] = "sent", NEW q \in Queues, m \in Held(queue[q])
      PROVE  \A r \in Queues \ {q} : m \notin Held(queue[r])
  BY <1>3 DEF IInv, InOnePlace
<1>4. ASSUME status[m] = "sent", NEW q \in Queues, m \in Queued(queue[q])
      PROVE  Place(m) = [at |-> "queued", queue |-> q]
  <2>1. \A r \in Queues : m \in ToSet(Waiting(r)) <=> r = q
    BY <1>1, <1>3, <1>4 DEF Held
  <2>2. (CHOOSE r \in Queues : m \in ToSet(Waiting(r))) = q
    BY <2>1
  <2> QED
    BY <1>4, <2>1, <2>2 DEF Place
<1>5. ASSUME status[m] = "sent", NEW q \in Queues, m \in Delivering(queue[q])
      PROVE  Place(m) = [at |-> "delivering", queue |-> q]
  <2>1. m \notin Queued(queue[q])
    BY <1>5 DEF IInv, InOnePlace, Distinct, Delivering
  <2>2. \A r \in Queues : m \notin ToSet(Waiting(r)) /\ (m \in ToSet(InBatches(r)) <=> r = q)
    BY <1>1, <1>3, <1>5, <2>1 DEF Held
  <2>3. (CHOOSE r \in Queues : m \in ToSet(InBatches(r))) = q
    BY <2>2
  <2> QED
    BY <1>5, <2>2, <2>3 DEF Place
<1> QED
  BY <1>2, <1>4, <1>5, HeldIsSent DEF Held

\* A message that nothing happens to keeps its place.
LEMMA PlaceStays ==
  ASSUME IInv, PlacesAre, PlacesAre', NEW m \in Messages, status'[m] = status[m],
         \A q \in Queues : /\ m \in Queued(queue[q]) => m \in Queued(queue'[q])
                           /\ m \in Delivering(queue[q]) => m \in Delivering(queue'[q])
  PROVE  Place(m)' = Place(m)
<1>1. CASE status[m] # "sent"
  BY <1>1 DEF PlacesAre
<1>2. CASE status[m] = "sent"
  <2>1. PICK q \in Queues : m \in Queued(queue[q]) \/ m \in Delivering(queue[q])
    BY <1>2 DEF IInv, InOnePlace, Held
  <2> QED
    BY <2>1 DEF PlacesAre
<1> QED
  BY <1>1, <1>2

\* Initially every message is yet to be sent.
LEMMA InitRefines == Init => Delivery!Init
<1> SUFFICES ASSUME Init
             PROVE  Delivery!Init
  OBVIOUS
<1>1. PlacesAre
  BY InitInvariant, PlacesKnown
<1>2. \A m \in Messages : Place(m) = [at |-> "unsent", queue |-> None]
  BY <1>1 DEF PlacesAre, Init
<1> QED
  BY <1>2 DEF Init, Delivery!Init, Delivery!Settled

\* The messages of a batch that ends are settled as the abstract delivery has
\* it: acknowledged, back in their queue, in the dead letter queue or dropped.
LEMMA FinishRefines ==
  ASSUME IInv, PlacesAre, PlacesAre', NEW q \in Queues, NEW i \in DOMAIN queue[q].batches,
         NEW F \in SUBSET ToSet(queue[q].batches[i]), FlushDone(q, i, F)
  PROVE  Delivery!Finish(q, ToSet(queue[q].batches[i]), F) /\ queue[q].batches[i] \in Seq(Messages)
<1> DEFINE batch == queue[q].batches[i]
           S == ToSet(batch)
           dlq == Consumer[q].deadLetterQueue
           max == Consumer[q].maxRetries
           last == {m \in F : Exhausted(q, m)}
           fails(m) == Delivery!Failed(q, failedAttempts[m] + 1)
<1>1. /\ batch \in Seq(Messages) /\ S \subseteq Delivering(queue[q])
      /\ failedAttempts \in [Messages -> Nat] /\ queue[q].batches \in Seq(Seq(Messages))
  BY DEF IInv, TypeOK, QueueState, Delivering
<1>2. S \subseteq Messages
  BY <1>1 DEF ToSet
<1>3. max \in Nat /\ dlq \in Queues \union {None} /\ None \notin Queues
  BY ConsumerType, NoneIsNoQueue
<1>4. Settled(q, i, F, last)
  BY FlushDoneInvariant
<1>5. /\ failedAttempts' = [m \in Messages |-> IF m \in last THEN 0
                                              ELSE failedAttempts[m] + Cardinality(F \intersect {m})]
      /\ status' = [m \in Messages |->
                      CASE m \in S \ F -> "acked"
                        [] m \in last /\ dlq = None -> "dropped"
                        [] OTHER -> status[m]]
  BY DEF FlushDone
<1>6. ASSUME NEW m \in F
      PROVE  /\ m \in Messages
             /\ m \in last => failedAttempts[m] + 1 > max
             /\ m \notin last => failedAttempts[m] + 1 <= max
             /\ failedAttempts[m] + 1 \in Nat
  <2>1. m \in Messages /\ failedAttempts[m] \in Nat
    BY <1>1, <1>2
  <2>2. m \in last <=> failedAttempts[m] + 1 >= max + 1
    BY DEF Exhausted
  <2> HIDE DEF last, max
  <2> QED
    BY <1>3, <2>1, <2>2
<1>7. last \subseteq F /\ F \subseteq S
  OBVIOUS
<1> HIDE DEF last
<1>8. ASSUME NEW m \in S PROVE Place(m) = [at |-> "delivering", queue |-> q]
  BY <1>1, <1>2 DEF PlacesAre
<1>9. \A r \in Queues :
        /\ Queued(queue'[r]) = Queued(queue[r]) \union (IF r = q THEN F \ last ELSE {})
                                               \union (IF r = dlq THEN last ELSE {})
        /\ Delivering(queue'[r]) = IF r = q THEN Delivering(queue[r]) \ S ELSE Delivering(queue[r])
  BY <1>4 DEF Settled
<1> HIDE DEF S, batch
<1>10. ASSUME NEW m \in F PROVE Place(m)' = fails(m)
  <2>1. CASE m \notin last
    <3>1. fails(m) = [at |-> "queued", queue |-> q]
      <4>1. failedAttempts[m] + 1 <= max /\ ~ (failedAttempts[m] + 1 > max)
        BY <1>3, <1>6, <2>1
      <4> QED
        BY <4>1 DEF Delivery!Failed, Delivery!Queued
    <3>2. m \in Queued(queue'[q]) /\ m \in Messages
      BY <1>6, <1>9, <2>1
    <3> QED
      BY <3>1, <3>2 DEF PlacesAre
  <2>2. CASE m \in last /\ dlq # None
    <3>1. fails(m) = [at |-> "queued", queue |-> dlq]
      <4>1. ~ (failedAttempts[m] + 1 <= max)
        BY <1>3, <1>6, <2>2
      <4> QED
        BY <1>6, <2>2, <4>1 DEF Delivery!Failed, Delivery!Queued
    <3>2. m \in Queued(queue'[dlq]) /\ dlq \in Queues /\ m \in Messages
      BY <1>3, <1>6, <1>9, <2>2
    <3> QED
      BY <3>1, <3>2 DEF PlacesAre
  <2>3. CASE m \in last /\ dlq = None
    <3>1. fails(m) = [at |-> "dropped", queue |-> None]
      <4>1. ~ (failedAttempts[m] + 1 <= max)
        BY <1>3, <1>6, <2>3
      <4> QED
        BY <2>3, <4>1 DEF Delivery!Failed, Delivery!Settled
    <3>2. m \in Messages /\ status'[m] = "dropped"
      BY <1>5, <1>6, <2>3
    <3> QED
      BY <3>1, <3>2 DEF PlacesAre
  <2> QED
    BY <2>1, <2>2, <2>3
<1>11. ASSUME NEW m \in S \ F PROVE Place(m)' = [at |-> "acked", queue |-> None]
  <2>1. m \in Messages /\ status'[m] = "acked"
    BY <1>2, <1>5, <1>7
  <2> QED
    BY <2>1 DEF PlacesAre
<1>12. ASSUME NEW m \in Messages \ S PROVE Place(m)' = Place(m)
  <2>1. status'[m] = status[m]
    BY <1>5, <1>7
  <2>2. \A r \in Queues : /\ m \in Queued(queue[r]) => m \in Queued(queue'[r])
                          /\ m \in Delivering(queue[r]) => m \in Delivering(queue'[r])
    BY <1>9
  <2> QED
    BY <2>1, <2>2, PlaceStays
<1>13. ASSUME NEW m \in Messages
       PROVE  failedAttempts'[m] = CASE m \in F /\ failedAttempts[m] + 1 <= max -> failedAttempts[m] + 1
                                     [] m \in F /\ failedAttempts[m] + 1 > max -> 0
                                     [] OTHER -> failedAttempts[m]
  <2>1. CASE m \in last
    <3>1. m \in F /\ failedAttempts[m] + 1 > max /\ ~ (failedAttempts[m] + 1 <= max)
      BY <1>3, <1>6, <1>7, <2>1
    <3> QED
      BY <1>5, <2>1, <3>1
  <2>2. CASE m \in F \ last
    <3>1. Cardinality(F \intersect {m}) = 1
      <4>1. F \intersect {m} = {m}
        BY <2>2
      <4> QED
        BY <4>1, FS_Singleton
    <3>2. failedAttempts[m] + 1 <= max /\ ~ (failedAttempts[m] + 1 > max)
      BY <1>3, <1>6, <2>2
    <3> QED
      BY <1>5, <2>2, <3>1, <3>2
  <2>3. CASE m \notin F
    <3>1. Cardinality(F \intersect {m}) = 0
      <4>1. F \intersect {m} = {}
        BY <2>3
      <4> QED
        BY <4>1, FS_EmptySet
    <3>2. m \notin last /\ failedAttempts[m] + 0 = failedAttempts[m]
      BY <1>1, <1>7, <2>3
    <3> QED
      BY <1>5, <2>3, <3>1, <3>2
  <2> QED
    BY <2>1, <2>2, <2>3
<1>14. failedAttempts' = [m \in Messages |->
                           CASE m \in F /\ failedAttempts[m] + 1 <= max -> failedAttempts[m] + 1
                             [] m \in F /\ failedAttempts[m] + 1 > max -> 0
                             [] OTHER -> failedAttempts[m]]
  <2>1. failedAttempts' = [m \in Messages |-> failedAttempts'[m]]
    BY <1>5
  <2> QED
    BY <1>13, <2>1
<1>15. [m \in Messages |-> Place(m)'] = [m \in Messages |->
                                          CASE m \in F     -> fails(m)
                                            [] m \in S \ F -> [at |-> "acked", queue |-> None]
                                            [] OTHER       -> Place(m)]
  <2> HIDE DEF fails
  <2> QED
    BY <1>7, <1>10, <1>11, <1>12
<1>16. Delivery!Finish(q, S, F)
  <2>1. \A m \in S : [x \in Messages |-> Place(x)][m] = Delivery!Delivering(q)
    BY <1>2, <1>8 DEF Delivery!Delivering
  <2>2. [m \in Messages |-> Place(m)'] = [m \in Messages |->
                 CASE m \in F     -> Delivery!Failed(q, failedAttempts[m] + 1)
                   [] m \in S \ F -> Delivery!Settled("acked")
                   [] OTHER       -> [x \in Messages |-> Place(x)][m]]
    BY <1>15 DEF Delivery!Settled
  <2> QED
    BY <1>7, <1>14, <2>1, <2>2 DEF Delivery!Finish
<1> QED
  BY <1>1, <1>16 DEF S, batch

\* Every step of the queues is a step of the abstract delivery.
LEMMA StepRefines ==
  ASSUME IInv, PlacesAre, PlacesAre', [Next]_vars
  PROVE  [Delivery!Next]_(Delivery!vars)
<1>1. ASSUME Stay PROVE UNCHANGED Delivery!vars
  <2>1. ASSUME NEW m \in Messages PROVE Place(m)' = Place(m)
    <3>1. \A q \in Queues : /\ m \in Queued(queue[q]) => m \in Queued(queue'[q])
                            /\ m \in Delivering(queue[q]) => m \in Delivering(queue'[q])
      BY <1>1, SameContent DEF Stay
    <3>2. status'[m] = status[m]
      BY <1>1 DEF Stay
    <3> QED
      BY <3>1, <3>2, PlaceStays
  <2>2. failedAttempts' = failedAttempts
    BY <1>1 DEF Stay
  <2> QED
    BY <2>1, <2>2 DEF Delivery!vars
<1>2. CASE UNCHANGED vars \/ Reload \/ \E q \in Queues : SetConsumer(q)
  <2>1. Stay
    BY <1>2, ReloadInvariant, SetConsumerInvariant DEF Stay, vars
  <2> QED
    BY <1>1, <2>1
<1>3. ASSUME NEW q \in Queues, TimerFires(q)
      PROVE  Delivery!Next \/ UNCHANGED Delivery!vars
  <2>1. CASE Stay
    BY <1>1, <2>1
  <2>2. CASE \E S \in SUBSET Queued(queue[q]) :
               /\ Cardinality(S) <= Consumer[q].maxBatchSize
               /\ \A r \in Queues :
                    /\ Queued(queue'[r]) = IF r = q THEN Queued(queue[r]) \ S ELSE Queued(queue[r])
                    /\ Delivering(queue'[r]) = IF r = q THEN Delivering(queue[r]) \union S ELSE Delivering(queue[r])
    <3>1. PICK S \in SUBSET Queued(queue[q]) :
               /\ Cardinality(S) <= Consumer[q].maxBatchSize
               /\ \A r \in Queues :
                    /\ Queued(queue'[r]) = IF r = q THEN Queued(queue[r]) \ S ELSE Queued(queue[r])
                    /\ Delivering(queue'[r]) = IF r = q THEN Delivering(queue[r]) \union S ELSE Delivering(queue[r])
      BY <2>2
    <3>2. UNCHANGED <<failedAttempts, status>>
      BY <1>3 DEF TimerFires
    <3>3. S \subseteq Messages
      BY HeldIsSent DEF Held
    <3>4. \A m \in S : Place(m) = [at |-> "queued", queue |-> q] /\ Place(m)' = [at |-> "delivering", queue |-> q]
      BY <3>1, <3>3 DEF PlacesAre
    <3>5. ASSUME NEW m \in Messages \ S PROVE Place(m)' = Place(m)
      <4>1. \A r \in Queues : /\ m \in Queued(queue[r]) => m \in Queued(queue'[r])
                              /\ m \in Delivering(queue[r]) => m \in Delivering(queue'[r])
        BY <3>1
      <4> QED
        BY <3>2, <4>1, PlaceStays
    <3>6. Delivery!Deliver(q, S)
      <4>1. \A m \in S : [x \in Messages |-> Place(x)][m] = Delivery!Queued(q)
        BY <3>3, <3>4 DEF Delivery!Queued
      <4>2. [m \in Messages |-> Place(m)'] =
              [m \in Messages |-> IF m \in S THEN Delivery!Delivering(q) ELSE [x \in Messages |-> Place(x)][m]]
        BY <3>4, <3>5 DEF Delivery!Delivering
      <4>3. Cardinality(S) <= Consumer[q].maxBatchSize /\ failedAttempts' = failedAttempts
        BY <3>1, <3>2
      <4>4. Delivery!Cardinality(S) = Cardinality(S)
        BY Zenon DEF Cardinality, Delivery!Cardinality
      <4> QED
        BY <4>1, <4>2, <4>3, <4>4 DEF Delivery!Deliver
    <3> QED
      BY <3>3, <3>6 DEF Delivery!Next
  <2> QED
    BY <1>3, <2>1, <2>2, TimerFiresInvariant
<1>4. ASSUME NEW q \in Queues, HandlerReturns(q)
      PROVE  Delivery!Next
  <2>1. PICK i \in DOMAIN queue[q].batches : \E F \in SUBSET ToSet(queue[q].batches[i]) : FlushDone(q, i, F)
    BY <1>4 DEF HandlerReturns
  <2>2. PICK F \in SUBSET ToSet(queue[q].batches[i]) : FlushDone(q, i, F)
    BY <2>1
  <2>3. Delivery!Finish(q, ToSet(queue[q].batches[i]), F) /\ queue[q].batches[i] \in Seq(Messages)
    BY <2>2, FinishRefines
  <2>4. ToSet(queue[q].batches[i]) \subseteq Messages
    BY <2>3 DEF ToSet
  <2> QED
    BY <2>3, <2>4 DEF Delivery!Next
<1>5. ASSUME NEW q \in Queues, NEW m \in Messages, Send(q, m)
      PROVE  Delivery!Next
  <2>1. /\ status[m] = "unsent" /\ status' = [status EXCEPT ![m] = "sent"]
        /\ UNCHANGED failedAttempts /\ status \in [Messages -> {"unsent", "sent", "acked", "dropped"}]
    BY <1>5 DEF Send, IInv, TypeOK
  <2>2. \A r \in Queues : /\ Queued(queue'[r]) = IF r = q THEN Queued(queue[r]) \union {m} ELSE Queued(queue[r])
                          /\ Delivering(queue'[r]) = Delivering(queue[r])
    BY <1>5, SendInvariant
  <2>3. Place(m) = [at |-> "unsent", queue |-> None] /\ Place(m)' = [at |-> "queued", queue |-> q]
    BY <2>1, <2>2 DEF PlacesAre
  <2>4. ASSUME NEW x \in Messages \ {m} PROVE Place(x)' = Place(x)
    <3>1. status'[x] = status[x]
      BY <2>1
    <3>2. \A r \in Queues : /\ x \in Queued(queue[r]) => x \in Queued(queue'[r])
                            /\ x \in Delivering(queue[r]) => x \in Delivering(queue'[r])
      BY <2>2
    <3> QED
      BY <3>1, <3>2, PlaceStays
  <2>5. Delivery!Send(q, m)
    BY <2>1, <2>3, <2>4 DEF Delivery!Send, Delivery!Queued, Delivery!Settled
  <2> QED
    BY <2>5 DEF Delivery!Next
<1> QED
  BY <1>2, <1>3, <1>4, <1>5 DEF Next

\* Timers, flush states, consumers that come and go and batches under way:
\* together they deliver, retry and dead-letter as QueueDelivery promises.
THEOREM QueuesDeliver == Spec => ImplementsDelivery
<1>1. Init => Delivery!Init
  BY InitRefines
<1>2. IInv => PlacesAre
  BY PlacesKnown
<1>3. IInv /\ PlacesAre /\ PlacesAre' /\ [Next]_vars => [Delivery!Next]_(Delivery!vars)
  BY StepRefines
<1> QED
  BY <1>1, <1>2, <1>3, InductiveInvariant, PTL DEF Spec, ImplementsDelivery, Delivery!Spec
=============================================================================
