-------------------------- MODULE WebSocketProofs --------------------------
(***************************************************************************)
(* Proofs about WebSocket pairs, for any contexts, messages and            *)
(* connections.  An end's owner follows from how ends are coupled; the     *)
(* order of events from what the three queues of an end do to the events   *)
(* of one context, which needs induction over sequences: the least number  *)
(* principle of WellFoundedInduction, used on sets of lengths.             *)
(***************************************************************************)
EXTENDS WebSocket, SequenceTheorems, WellFoundedInduction, FiniteSetTheorems, TLAPS

-----------------------------------------------------------------------------
(***************************************************************************)
(* Induction over the natural numbers, in terms of sets.                   *)
(***************************************************************************)

\* A set of natural numbers that is not empty has a least element.
LEMMA LeastNumber ==
  ASSUME NEW S, S \subseteq Nat, S # {}
  PROVE  \E n \in S : \A m \in S : ~ (m < n)
<1> DEFINE Less == {p \in Nat \X Nat : p[1] < p[2]}
<1>1. IsWellFoundedOn(Less, Nat)
  BY NatLessThanWellFounded DEF OpToRel
<1>2. PICK n \in S : \A m \in S : ~ (<<m, n>> \in Less)
  BY <1>1, WFMin
<1> QED
  BY <1>2

\* A set with 0 that has the successor of each of its numbers has them all.
LEMMA NaturalInduction ==
  ASSUME NEW S, 0 \in S, \A n \in Nat : n \in S => n + 1 \in S
  PROVE  \A n \in Nat : n \in S
<1> DEFINE Others == Nat \ S
<1> SUFFICES ASSUME Others # {}
             PROVE  FALSE
  OBVIOUS
<1>1. Others \subseteq Nat
  OBVIOUS
<1>2. PICK n \in Others : \A m \in Others : ~ (m < n)
  <2> HIDE DEF Others
  <2> QED
    BY <1>1, LeastNumber
<1>3. n # 0 /\ n - 1 \in Nat /\ n - 1 < n
  OBVIOUS
<1>4. n - 1 \in S
  BY <1>2, <1>3
<1> QED
  BY <1>3, <1>4

-----------------------------------------------------------------------------
(***************************************************************************)
(* The events of one context in a sequence of events.                      *)
(***************************************************************************)

\* of is how Of(c, events) comes about, up to the n-th event.
Picks(of, c, events, n) ==
  of = [k \in 0 .. n |->
          IF k = 0 THEN << >>
          ELSE IF events[k].context = c THEN Append(of[k - 1], events[k]) ELSE of[k - 1]]

\* What is picked of the events up to the n-th depends on these alone.
LEMMA PicksUnique ==
  ASSUME NEW c, NEW s, NEW t, NEW f, NEW g, NEW n \in Nat, NEW m \in Nat, n <= m,
         Picks(f, c, s, n), Picks(g, c, t, m), \A k \in 1 .. n : s[k] = t[k]
  PROVE  f[n] = g[n]
<1> DEFINE Same == {k \in Nat : k <= n => f[k] = g[k]}
<1>1. 0 \in Same
  BY DEF Picks
<1>2. ASSUME NEW k \in Nat, k \in Same
      PROVE  k + 1 \in Same
  <2> SUFFICES ASSUME k + 1 <= n
               PROVE  f[k + 1] = g[k + 1]
    OBVIOUS
  <2>1. f[k] = g[k] /\ s[k + 1] = t[k + 1]
    BY <1>2
  <2>2. k + 1 \in 0 .. n /\ k + 1 \in 0 .. m /\ k + 1 # 0 /\ (k + 1) - 1 = k
    OBVIOUS
  <2>3. f[k + 1] = IF s[k + 1].context = c THEN Append(f[k], s[k + 1]) ELSE f[k]
    BY <2>2 DEF Picks
  <2>4. g[k + 1] = IF t[k + 1].context = c THEN Append(g[k], t[k + 1]) ELSE g[k]
    BY <2>2 DEF Picks
  <2> QED
    BY <2>1, <2>3, <2>4
<1>3. \A k \in Nat : k \in Same
  <2> HIDE DEF Same
  <2> QED
    BY <1>1, <1>2, NaturalInduction
<1> QED
  BY <1>3

\* The recursion of Of is defined for every length.
LEMMA PicksExist ==
  ASSUME NEW c, NEW s, NEW n \in Nat
  PROVE  \E f : Picks(f, c, s, n)
<1> DEFINE Defined == {k \in Nat : \E f : Picks(f, c, s, k)}
<1>1. 0 \in Defined
  <2> DEFINE f == [k \in 0 .. 0 |-> << >>]
  <2>1. Picks(f, c, s, 0)
    BY DEF Picks
  <2> QED
    BY <2>1
<1>2. ASSUME NEW k \in Nat, k \in Defined
      PROVE  k + 1 \in Defined
  <2>1. PICK f : Picks(f, c, s, k)
    BY <1>2
  <2> DEFINE g == [i \in 0 .. k + 1 |->
                     IF i <= k THEN f[i]
                     ELSE IF s[k + 1].context = c THEN Append(f[k], s[k + 1]) ELSE f[k]]
  <2>2. ASSUME NEW i \in 0 .. k + 1
        PROVE  g[i] = IF i = 0 THEN << >>
                      ELSE IF s[i].context = c THEN Append(g[i - 1], s[i]) ELSE g[i - 1]
    <3>1. CASE i = 0
      BY <2>1, <3>1 DEF Picks
    <3>2. CASE i \in 1 .. k
      <4>1. g[i] = f[i] /\ g[i - 1] = f[i - 1] /\ i \in 0 .. k /\ i # 0
        BY <3>2
      <4>2. f[i] = IF s[i].context = c THEN Append(f[i - 1], s[i]) ELSE f[i - 1]
        BY <2>1, <4>1 DEF Picks
      <4> QED
        BY <4>1, <4>2
    <3>3. CASE i = k + 1
      <4>1. g[i - 1] = f[k] /\ i # 0 /\ ~ (i <= k)
        BY <3>3
      <4> QED
        BY <3>3, <4>1
    <3> QED
      BY <3>1, <3>2, <3>3
  <2>3. Picks(g, c, s, k + 1)
    <3>1. g = [i \in 0 .. k + 1 |-> g[i]]
      OBVIOUS
    <3> HIDE DEF g
    <3> QED
      BY <2>2, <3>1 DEF Picks
  <2> QED
    BY <2>3
<1>3. \A k \in Nat : k \in Defined
  <2> HIDE DEF Defined
  <2> QED
    BY <1>1, <1>2, NaturalInduction
<1> QED
  BY <1>3

\* Of picks the events of the context up to the last.
LEMMA OfPicks ==
  ASSUME NEW c, NEW s, Len(s) \in Nat
  PROVE  \E f : Picks(f, c, s, Len(s)) /\ Of(c, s) = f[Len(s)]
<1> DEFINE of == CHOOSE f : Picks(f, c, s, Len(s))
<1>1. Picks(of, c, s, Len(s))
  BY PicksExist
<1>2. Of(c, s) = of[Len(s)]
  BY DEF Of, Picks
<1> QED
  BY <1>1, <1>2

\* There are no events in an empty sequence.
LEMMA OfEmpty ==
  ASSUME NEW c
  PROVE  Of(c, << >>) = << >>
<1>1. PICK f : Picks(f, c, << >>, 0) /\ Of(c, << >>) = f[0]
  BY OfPicks
<1> QED
  BY <1>1 DEF Picks

\* An event at the end is picked, or not, by itself.
LEMMA OfAppend ==
  ASSUME NEW c, NEW s \in Seq(Events), NEW e \in Events
  PROVE  Of(c, Append(s, e)) = IF e.context = c THEN Append(Of(c, s), e) ELSE Of(c, s)
<1> DEFINE t == Append(s, e)
<1>1. /\ t \in Seq(Events) /\ Len(s) \in Nat /\ Len(t) = Len(s) + 1
      /\ \A k \in 1 .. Len(s) : s[k] = t[k]
      /\ t[Len(s) + 1] = e
  BY AppendProperties, LenProperties
<1> HIDE DEF t
<1>2. PICK f : Picks(f, c, s, Len(s)) /\ Of(c, s) = f[Len(s)]
  BY <1>1, OfPicks
<1>3. PICK g : Picks(g, c, t, Len(t)) /\ Of(c, t) = g[Len(t)]
  BY <1>1, OfPicks
<1>4. f[Len(s)] = g[Len(s)]
  <2>1. Len(t) \in Nat /\ Len(s) <= Len(t)
    BY <1>1
  <2>2. Picks(f, c, s, Len(s)) /\ Picks(g, c, t, Len(t))
    BY <1>2, <1>3
  <2> QED
    BY <1>1, <2>1, <2>2, PicksUnique
<1>5. /\ Len(t) \in 0 .. Len(t) /\ Len(t) # 0 /\ Len(t) - 1 = Len(s) /\ t[Len(t)] = e
  BY <1>1
<1>6. g[Len(t)] = IF e.context = c THEN Append(g[Len(s)], e) ELSE g[Len(s)]
  BY <1>3, <1>5 DEF Picks
<1> QED
  BY <1>2, <1>3, <1>4, <1>6 DEF t

\* The events of a context are events.
LEMMA OfType ==
  ASSUME NEW c, NEW s \in Seq(Events)
  PROVE  Of(c, s) \in Seq(Events)
<1> DEFINE Typed == {n \in Nat : \A t \in Seq(Events) : Len(t) = n => Of(c, t) \in Seq(Events)}
<1>1. 0 \in Typed
  BY OfEmpty, EmptySeq
<1>2. ASSUME NEW n \in Nat, n \in Typed
      PROVE  n + 1 \in Typed
  <2> SUFFICES ASSUME NEW t \in Seq(Events), Len(t) = n + 1
               PROVE  Of(c, t) \in Seq(Events)
    OBVIOUS
  <2>1. t # << >>
    BY EmptySeq
  <2>2. PICK r \in Seq(Events), e \in Events : t = Append(r, e)
    BY <2>1, SequenceEmptyOrAppend
  <2>3. Len(r) = n
    BY <2>2, AppendProperties, LenProperties
  <2>4. Of(c, r) \in Seq(Events)
    BY <1>2, <2>3
  <2>5. Of(c, Append(r, e)) = IF e.context = c THEN Append(Of(c, r), e) ELSE Of(c, r)
    BY OfAppend
  <2>6. Append(Of(c, r), e) \in Seq(Events)
    BY <2>4, AppendProperties
  <2> QED
    BY <2>2, <2>4, <2>5, <2>6
<1>3. \A n \in Nat : n \in Typed
  <2> HIDE DEF Typed
  <2> QED
    BY <1>1, <1>2, NaturalInduction
<1> QED
  BY <1>3, LenProperties

\* Appending to the second of two sequences appends to both.
LEMMA AppendToConcat ==
  ASSUME NEW s \in Seq(Events), NEW t \in Seq(Events), NEW e \in Events
  PROVE  Append(s \o t, e) = s \o Append(t, e)
OBVIOUS

\* The events of a context in two sequences, one after the other.
LEMMA OfConcat ==
  ASSUME NEW c, NEW s \in Seq(Events), NEW t \in Seq(Events)
  PROVE  Of(c, s \o t) = Of(c, s) \o Of(c, t)
<1> DEFINE Splits == {n \in Nat : \A u \in Seq(Events) : Len(u) = n => Of(c, s \o u) = Of(c, s) \o Of(c, u)}
<1>1. 0 \in Splits
  <2> SUFFICES ASSUME NEW u \in Seq(Events), Len(u) = 0
               PROVE  Of(c, s \o u) = Of(c, s) \o Of(c, u)
    OBVIOUS
  <2>1. u = << >>
    BY EmptySeq
  <2> QED
    BY <2>1, OfEmpty, OfType, ConcatEmptySeq
<1>2. ASSUME NEW n \in Nat, n \in Splits
      PROVE  n + 1 \in Splits
  <2> SUFFICES ASSUME NEW u \in Seq(Events), Len(u) = n + 1
               PROVE  Of(c, s \o u) = Of(c, s) \o Of(c, u)
    OBVIOUS
  <2>1. u # << >>
    BY EmptySeq
  <2>2. PICK r \in Seq(Events), e \in Events : u = Append(r, e)
    BY <2>1, SequenceEmptyOrAppend
  <2>3. Len(r) = n
    BY <2>2, AppendProperties, LenProperties
  <2>4. Of(c, s \o r) = Of(c, s) \o Of(c, r)
    BY <1>2, <2>3
  <2>5. s \o u = Append(s \o r, e) /\ s \o r \in Seq(Events)
    BY <2>2, AppendToConcat, ConcatProperties
  <2>6. /\ Of(c, s \o u) = IF e.context = c THEN Append(Of(c, s \o r), e) ELSE Of(c, s \o r)
        /\ Of(c, u) = IF e.context = c THEN Append(Of(c, r), e) ELSE Of(c, r)
    <3>1. ASSUME NEW v \in Seq(Events)
          PROVE  Of(c, Append(v, e)) = IF e.context = c THEN Append(Of(c, v), e) ELSE Of(c, v)
      BY OfAppend
    <3>2. /\ Of(c, Append(s \o r, e)) = IF e.context = c THEN Append(Of(c, s \o r), e) ELSE Of(c, s \o r)
          /\ Of(c, Append(r, e)) = IF e.context = c THEN Append(Of(c, r), e) ELSE Of(c, r)
      BY <2>5, <3>1
    <3> QED
      BY <2>2, <2>5, <3>2
  <2>7. CASE e.context = c
    <3>1. Of(c, s) \in Seq(Events) /\ Of(c, r) \in Seq(Events)
      BY OfType
    <3>3. Append(Of(c, s) \o Of(c, r), e) = Of(c, s) \o Append(Of(c, r), e)
      BY <3>1, AppendToConcat
    <3> QED
      BY <2>4, <2>6, <2>7, <3>3
  <2>8. CASE e.context # c
    BY <2>4, <2>6, <2>8
  <2> QED
    BY <2>7, <2>8
<1>3. \A n \in Nat : n \in Splits
  <2> HIDE DEF Splits
  <2> QED
    BY <1>1, <1>2, NaturalInduction
<1> QED
  BY <1>3, LenProperties

\* No event of the context, nothing picked.
LEMMA OfNothing ==
  ASSUME NEW c, NEW s \in Seq(Events), \A i \in 1 .. Len(s) : s[i].context # c
  PROVE  Of(c, s) = << >>
<1>1. Len(s) \in Nat
  BY LenProperties
<1>2. PICK f : Picks(f, c, s, Len(s)) /\ Of(c, s) = f[Len(s)]
  BY <1>1, OfPicks
<1> DEFINE Nothing == {n \in Nat : n <= Len(s) => f[n] = << >>}
<1>3. 0 \in Nothing
  BY <1>1, <1>2 DEF Picks
<1>4. ASSUME NEW n \in Nat, n \in Nothing
      PROVE  n + 1 \in Nothing
  <2> SUFFICES ASSUME n + 1 <= Len(s)
               PROVE  f[n + 1] = << >>
    OBVIOUS
  <2>1. /\ n + 1 \in 0 .. Len(s) /\ n + 1 # 0 /\ (n + 1) - 1 = n /\ n <= Len(s)
        /\ s[n + 1].context # c
    BY <1>1
  <2>2. f[n + 1] = f[n]
    BY <1>2, <2>1 DEF Picks
  <2> QED
    BY <1>4, <2>1, <2>2
<1>5. \A n \in Nat : n \in Nothing
  <2> HIDE DEF Nothing
  <2> QED
    BY <1>3, <1>4, NaturalInduction
<1> QED
  BY <1>1, <1>2, <1>5

\* One event by itself.
LEMMA OfOne ==
  ASSUME NEW c, NEW e \in Events
  PROVE  Of(c, <<e>>) = IF e.context = c THEN <<e>> ELSE << >>
<1>1. << >> \in Seq(Events) /\ Append(<< >>, e) = <<e>>
  OBVIOUS
<1>2. Of(c, Append(<< >>, e)) = IF e.context = c THEN Append(Of(c, << >>), e) ELSE Of(c, << >>)
  BY <1>1, OfAppend, Zenon
<1> QED
  BY <1>1, <1>2, OfEmpty

\* Taking the first event of a context out of a sequence and putting it before
\* the rest changes the order of no context's events.
LEMMA OfRemoveFirst ==
  ASSUME NEW c, NEW s \in Seq(Events), NEW i \in 1 .. Len(s),
         \A j \in 1 .. Len(s) : j < i => s[j].context # s[i].context
  PROVE  /\ RemoveAt(s, i) \in Seq(Events)
         /\ Of(c, s) = Of(c, <<s[i]>>) \o Of(c, RemoveAt(s, i))
<1> DEFINE before == SubSeq(s, 1, i - 1)
           after == SubSeq(s, i + 1, Len(s))
<1>1. Len(s) \in Nat /\ i \in Nat /\ s[i] \in Events /\ <<s[i]>> \in Seq(Events)
  BY LenProperties, ElementOfSeq
<1>2. before \in Seq(Events) /\ after \in Seq(Events)
  BY <1>1, SubSeqProperties, ElementOfSeq
<1>3. s = before \o (<<s[i]>> \o after)
  <2>1. <<s[i]>> \o after = SubSeq(s, i, Len(s))
    BY <1>1, SubSeqRecursiveFirst
  <2>2. before \o SubSeq(s, (i - 1) + 1, Len(s)) = SubSeq(s, 1, Len(s))
    BY <1>1, ConcatAdjacentSubSeq
  <2>3. (i - 1) + 1 = i /\ SubSeq(s, 1, Len(s)) = s
    BY <1>1, SubSeqFull
  <2> QED
    BY <2>1, <2>2, <2>3
<1>4. RemoveAt(s, i) = before \o after
  BY DEF RemoveAt
<1>5. s[i].context = c => Of(c, before) = << >>
  <2> SUFFICES ASSUME s[i].context = c
               PROVE  Of(c, before) = << >>
    OBVIOUS
  <2>1. /\ Len(before) = i - 1
        /\ \A j \in 1 .. i - 1 : before[j] = s[j]
    BY <1>1, SubSeqProperties, ElementOfSeq
  <2>2. \A j \in 1 .. Len(before) : before[j].context # c
    BY <1>1, <2>1
  <2> HIDE DEF before
  <2> QED
    BY <1>2, <2>2, OfNothing
<1> HIDE DEF before, after
<1>6. <<s[i]>> \o after \in Seq(Events) /\ before \o after \in Seq(Events)
  BY <1>1, <1>2, ConcatProperties
<1>7. /\ Of(c, s) = Of(c, before) \o (Of(c, <<s[i]>>) \o Of(c, after))
      /\ Of(c, before \o after) = Of(c, before) \o Of(c, after)
  <2>1. Of(c, before \o (<<s[i]>> \o after)) = Of(c, before) \o Of(c, <<s[i]>> \o after)
    <3> DEFINE rest == <<s[i]>> \o after
    <3>1. rest \in Seq(Events)
      BY <1>6
    <3> HIDE DEF rest
    <3>2. Of(c, before \o rest) = Of(c, before) \o Of(c, rest)
      BY <1>2, <3>1, OfConcat
    <3> QED
      BY <3>2 DEF rest
  <2>2. Of(c, <<s[i]>> \o after) = Of(c, <<s[i]>>) \o Of(c, after)
    BY <1>1, <1>2, OfConcat, Zenon
  <2>3. Of(c, before \o after) = Of(c, before) \o Of(c, after)
    BY <1>2, OfConcat, Zenon
  <2> QED
    BY <1>3, <2>1, <2>2, <2>3
<1>8. Of(c, before) \in Seq(Events) /\ Of(c, after) \in Seq(Events) /\ Of(c, <<s[i]>>) \in Seq(Events)
  BY <1>1, <1>2, OfType
<1>9. CASE s[i].context = c
  <2>1. Of(c, <<s[i]>>) \o Of(c, after) \in Seq(Events)
    BY <1>8, ConcatProperties
  <2> QED
    BY <1>4, <1>5, <1>6, <1>7, <1>8, <1>9, <2>1, ConcatEmptySeq
<1>10. CASE s[i].context # c
  <2>1. Of(c, <<s[i]>>) = << >>
    BY <1>1, <1>10, OfOne
  <2>2. Of(c, before) \o Of(c, after) \in Seq(Events)
    BY <1>8, ConcatProperties
  <2> QED
    BY <1>4, <1>6, <1>7, <1>8, <2>1, <2>2, ConcatEmptySeq
<1> QED
  BY <1>9, <1>10

-----------------------------------------------------------------------------
(***************************************************************************)
(* The inductive invariant.                                                *)
(***************************************************************************)

\* What has come to an end: dispatched, or waiting for accept().
Delivered(e) == dispatched[e] \o dispatchQueue[e]

Ordered ==
  \A e \in Ends : \A c \in Contexts \union {Network} :
    Of(c, Delivered(Pair(e))) \o Of(c, flight[e]) = Of(c, sent[e])

\* #accept takes what is in the queue, and nothing is queued after it.
QueueTaken == \A e \in Ends : accepted[e] => dispatchQueue[e] = << >>

\* While the connection of a fetch() or of new WebSocket() is being opened,
\* code has no end in its hands that it could use, and nothing has happened.
Fresh ==
  \A x \in Connections :
    connection[x].state = "connecting" =>
      /\ use \in {"fetch", "proxy", "constructed"}
      /\ connection[x].end = "client"
      /\ \A y \in Connections \ {x} : connection[y].state = "none"
      /\ \A e \in Ends : ~accepted[e] /\ dispatchQueue[e] = << >> /\ flight[e] = << >>

\* Connections and the ends they are coupled with; the end of a connection
\* that is being opened is marked when it is open.
Coupling ==
  /\ \A x, y \in Connections : \A e \in Ends : Listening(x, e) /\ Listening(y, e) => x = y
  /\ \A x \in Connections : connection[x].state = "none" => connection[x].end = None
  /\ \A e \in Ends : coupled[e] => \E x \in Connections : Listening(x, e)
  /\ \A x \in Connections : \A e \in Ends :
       Listening(x, e) => coupled[e] \/ (e = "client" /\ use \in {"fetch", "proxy", "constructed"})

\* An end that code has accepted is coupled with no connection.
CodeOwns == \A e \in byCode : accepted[e] /\ \A x \in Connections : ~Listening(x, e)

IInv == TypeOK /\ QueueTaken /\ Fresh /\ Coupling /\ CodeOwns /\ Ordered

-----------------------------------------------------------------------------
(***************************************************************************)
(* What the steps do to the order of events.                               *)
(***************************************************************************)

\* An end has a pair, whose pair it is.
LEMMA PairsAreEnds ==
  ASSUME NEW e \in Ends
  PROVE  Pair(e) \in Ends /\ Pair(Pair(e)) = e /\ Pair(e) # e
BY DEF Ends, Pair

\* What has come to an end is a sequence of events.
LEMMA DeliveredType ==
  ASSUME TypeOK, NEW e \in Ends
  PROVE  /\ dispatched[e] \in Seq(Events) /\ dispatchQueue[e] \in Seq(Events)
         /\ flight[e] \in Seq(Events) /\ sent[e] \in Seq(Events)
         /\ Delivered(e) \in Seq(Events)
BY ConcatProperties DEF TypeOK, Queues, Delivered

\* Without a new event, and with nothing moved between ends, order is kept.
LEMMA StillOrdered ==
  ASSUME Ordered, UNCHANGED <<flight, sent>>, \A e \in Ends : Delivered(e)' = Delivered(e)
  PROVE  Ordered'
BY PairsAreEnds DEF Ordered

\* Events that an end sends go to the end of what is under way.
LEMMA SendsKeepsOrder ==
  ASSUME TypeOK, Ordered, NEW e \in Ends, NEW X \in Seq(Events), Sends(e, X),
         \A d \in Ends : Delivered(d)' = Delivered(d)
  PROVE  Ordered' /\ flight' \in Queues /\ sent' \in Queues
<1>1. \A d \in Ends : /\ flight'[d] = IF d = e THEN flight[d] \o X ELSE flight[d]
                      /\ sent'[d] = IF d = e THEN sent[d] \o X ELSE sent[d]
  BY DEF Sends, TypeOK, Queues
<1>2. flight[e] \in Seq(Events) /\ sent[e] \in Seq(Events)
  BY DeliveredType
<1>3. flight[e] \o X \in Seq(Events) /\ sent[e] \o X \in Seq(Events)
  BY <1>2, ConcatProperties
<1>4. flight' \in Queues /\ sent' \in Queues
  BY <1>3 DEF Sends, TypeOK, Queues
<1>5. ASSUME NEW d \in Ends, NEW c \in Contexts \union {Network}
      PROVE  Of(c, Delivered(Pair(d))') \o Of(c, flight'[d]) = Of(c, sent'[d])
  <2>1. Delivered(Pair(d))' = Delivered(Pair(d))
    BY PairsAreEnds
  <2>2. Of(c, Delivered(Pair(d))) \o Of(c, flight[d]) = Of(c, sent[d])
    BY DEF Ordered
  <2>3. CASE d # e
    BY <1>1, <2>1, <2>2, <2>3
  <2>4. CASE d = e
    <3> DEFINE there == Of(c, Delivered(Pair(e)))
               coming == Of(c, flight[e])
               added == Of(c, X)
    <3>1. there \in Seq(Events) /\ coming \in Seq(Events) /\ added \in Seq(Events)
      BY <1>2, OfType, DeliveredType, PairsAreEnds
    <3>2. Of(c, flight'[e]) = coming \o added /\ Of(c, sent'[e]) = Of(c, sent[e]) \o added
      <4>1. flight'[e] = flight[e] \o X /\ sent'[e] = sent[e] \o X
        BY <1>1
      <4>2. Of(c, flight[e] \o X) = coming \o added
        BY <1>2, OfConcat
      <4>3. Of(c, sent[e] \o X) = Of(c, sent[e]) \o added
        BY <1>2, OfConcat
      <4> QED
        BY <4>1, <4>2, <4>3
    <3>3. there \o coming = Of(c, sent[e])
      BY <2>2, <2>4
    <3>4. there \o (coming \o added) = (there \o coming) \o added
      <4> HIDE DEF there, coming, added
      <4> QED
        BY <3>1, ConcatAssociative
    <3> QED
      BY <2>1, <2>4, <3>2, <3>3, <3>4
  <2> QED
    BY <2>3, <2>4
<1>6. Ordered'
  BY <1>5 DEF Ordered
<1> QED
  BY <1>4, <1>6

\* accept() hands the queue over: what has come stays, in its order.
LEMMA AcceptDelivers ==
  ASSUME TypeOK, QueueTaken, NEW e \in Ends, NEW conns, Accept(e, conns)
  PROVE  /\ accepted' \in Flags /\ dispatchQueue' \in Queues /\ dispatched' \in Queues
         /\ QueueTaken'
         /\ accepted'[e] /\ \A d \in Ends : accepted[d] => accepted'[d]
         /\ \A d \in Ends : Delivered(d)' = Delivered(d)
         /\ connection' = conns \/ connection' = Told(conns, e, dispatchQueue[e])
<1>1. CASE accepted[e]
  BY <1>1 DEF Accept, TypeOK, QueueTaken, Delivered
<1>2. CASE ~accepted[e]
  <2>1. /\ accepted' = [accepted EXCEPT ![e] = TRUE]
        /\ dispatchQueue' = [dispatchQueue EXCEPT ![e] = << >>]
        /\ dispatched' = [dispatched EXCEPT ![e] = @ \o dispatchQueue[e]]
        /\ connection' = Told(conns, e, dispatchQueue[e])
    BY <1>2 DEF Accept, Dispatch
  <2>2. /\ dispatched[e] \in Seq(Events) /\ dispatchQueue[e] \in Seq(Events)
        /\ Delivered(e) \in Seq(Events)
    BY DeliveredType
  <2>3. << >> \in Seq(Events)
    BY EmptySeq
  <2>4. accepted' \in Flags /\ dispatchQueue' \in Queues /\ dispatched' \in Queues
    BY <2>1, <2>2, <2>3 DEF TypeOK, Flags, Queues, Delivered
  <2>5. QueueTaken' /\ accepted'[e] /\ \A d \in Ends : accepted[d] => accepted'[d]
    BY <2>1 DEF QueueTaken, TypeOK, Flags, Queues
  <2>6. ASSUME NEW d \in Ends
        PROVE  Delivered(d)' = Delivered(d)
    <3>1. CASE d = e
      <4>1. dispatched'[e] = Delivered(e) /\ dispatchQueue'[e] = << >>
        BY <2>1 DEF Delivered, TypeOK, Queues
      <4>2. Delivered(e) \o << >> = Delivered(e)
        BY <2>2, ConcatEmptySeq
      <4> QED
        BY <3>1, <4>1, <4>2 DEF Delivered
    <3>2. CASE d # e
      BY <2>1, <3>2 DEF Delivered, TypeOK, Queues
    <3> QED
      BY <3>1, <3>2
  <2> QED
    BY <2>1, <2>4, <2>5, <2>6
<1> QED
  BY <1>1, <1>2

\* An event that its gate lets through is delivered behind those that have
\* come, and is the first under way of its context.
LEMMA PassingKeepsOrder ==
  ASSUME TypeOK, QueueTaken, Ordered, NEW e \in Ends, NEW i \in DOMAIN flight[e],
         QueuingDispatchToPair(e, i)
  PROVE  /\ dispatchQueue' \in Queues /\ dispatched' \in Queues /\ flight' \in Queues
         /\ QueueTaken' /\ Ordered'
         /\ connection' = connection \/ connection' = Told(connection, Pair(e), <<flight[e][i]>>)
<1> DEFINE p == Pair(e)
           event == flight[e][i]
           rest == RemoveAt(flight[e], i)
<1>1. p \in Ends /\ p # e
  BY PairsAreEnds
<1>2. /\ dispatched[p] \in Seq(Events) /\ dispatchQueue[p] \in Seq(Events)
      /\ flight[e] \in Seq(Events) /\ sent[e] \in Seq(Events) /\ Delivered(p) \in Seq(Events)
  BY <1>1, DeliveredType
<1>3. i \in 1 .. Len(flight[e])
  BY <1>2, LenProperties
<1>4. event \in Events /\ <<event>> \in Seq(Events)
  BY <1>2, <1>3, ElementOfSeq
<1>5. /\ \A j \in 1 .. Len(flight[e]) : j < i => flight[e][j].context # event.context
      /\ flight' = [flight EXCEPT ![e] = rest] /\ accepted' = accepted /\ sent' = sent
  BY <1>2, LenProperties DEF QueuingDispatchToPair, ends
<1>6. rest \in Seq(Events) /\ \A c : Of(c, flight[e]) = Of(c, <<event>>) \o Of(c, rest)
  BY <1>2, <1>3, <1>5, OfRemoveFirst
<1>7. flight' \in Queues /\ flight'[e] = rest /\ \A d \in Ends : d # e => flight'[d] = flight[d]
  BY <1>5, <1>6 DEF TypeOK, Queues
<1> HIDE DEF p, event, rest
<1>8. /\ dispatchQueue' \in Queues /\ dispatched' \in Queues /\ QueueTaken'
      /\ Delivered(p)' = Delivered(p) \o <<event>>
      /\ \A d \in Ends : d # p => Delivered(d)' = Delivered(d)
      /\ connection' = connection \/ connection' = Told(connection, p, <<event>>)
  <2>1. CASE accepted[p]
    <3>1. /\ dispatched' = [dispatched EXCEPT ![p] = @ \o <<event>>]
          /\ connection' = Told(connection, p, <<event>>) /\ dispatchQueue' = dispatchQueue
      BY <2>1 DEF QueuingDispatchToPair, Dispatch, p, event
    <3>2. dispatchQueue[p] = << >>
      BY <1>1, <2>1 DEF QueueTaken
    <3>3. dispatched[p] \o <<event>> \in Seq(Events)
      BY <1>2, <1>4, ConcatProperties
    <3>4. Delivered(p) = dispatched[p] /\ Delivered(p)' = dispatched[p] \o <<event>>
      BY <1>1, <1>2, <3>1, <3>2, <3>3, ConcatEmptySeq DEF Delivered, TypeOK, Queues
    <3> QED
      BY <1>1, <1>5, <3>1, <3>3, <3>4 DEF Delivered, TypeOK, Queues, QueueTaken
  <2>2. CASE ~accepted[p]
    <3>1. /\ dispatchQueue' = [dispatchQueue EXCEPT ![p] = Append(@, event)]
          /\ connection' = connection /\ dispatched' = dispatched
      BY <2>2 DEF QueuingDispatchToPair, p, event
    <3>2. /\ Append(dispatchQueue[p], event) \in Seq(Events)
          /\ Append(dispatchQueue[p], event) = dispatchQueue[p] \o <<event>>
      BY <1>2, <1>4, AppendProperties, AppendIsConcat
    <3>3. dispatched[p] \o (dispatchQueue[p] \o <<event>>) = (dispatched[p] \o dispatchQueue[p]) \o <<event>>
      <4> DEFINE told == dispatched[p]
                 queued == dispatchQueue[p]
                 one == <<event>>
      <4>1. told \in Seq(Events) /\ queued \in Seq(Events) /\ one \in Seq(Events)
        BY <1>2, <1>4
      <4> HIDE DEF told, queued, one
      <4>2. told \o (queued \o one) = (told \o queued) \o one
        BY <4>1, ConcatAssociative
      <4> QED
        BY <4>2 DEF told, queued, one
    <3>4. /\ dispatchQueue'[p] = dispatchQueue[p] \o <<event>>
          /\ \A d \in Ends : d # p => dispatchQueue'[d] = dispatchQueue[d]
      BY <1>1, <3>1, <3>2 DEF TypeOK, Queues
    <3>5. dispatchQueue' \in Queues
      BY <3>1, <3>2 DEF TypeOK, Queues
    <3>6. QueueTaken'
      BY <1>5, <2>2, <3>4 DEF QueueTaken
    <3> QED
      BY <3>1, <3>3, <3>4, <3>5, <3>6 DEF Delivered, TypeOK
  <2> QED
    BY <2>1, <2>2
<1>9. ASSUME NEW d \in Ends, NEW c \in Contexts \union {Network}
      PROVE  Of(c, Delivered(Pair(d))') \o Of(c, flight'[d]) = Of(c, sent'[d])
  <2>1. Of(c, Delivered(Pair(d))) \o Of(c, flight[d]) = Of(c, sent[d])
    BY DEF Ordered
  <2>2. CASE d # e
    <3>1. Pair(d) \in Ends /\ Pair(d) # p
      BY <2>2, PairsAreEnds DEF p
    <3> QED
      BY <1>5, <1>7, <1>8, <2>1, <2>2, <3>1
  <2>3. CASE d = e
    <3> DEFINE there == Of(c, Delivered(p))
               one == Of(c, <<event>>)
               coming == Of(c, rest)
    <3>1. there \in Seq(Events) /\ one \in Seq(Events) /\ coming \in Seq(Events)
      BY <1>2, <1>4, <1>6, OfType
    <3>2. Of(c, Delivered(p)') = there \o one
      <4>1. Delivered(p)' = Delivered(p) \o <<event>>
        BY <1>8
      <4>2. Of(c, Delivered(p) \o <<event>>) = there \o one
        BY <1>2, <1>4, OfConcat
      <4> QED
        BY <4>1, <4>2
    <3>3. there \o (one \o coming) = Of(c, sent[e])
      BY <1>6, <2>1, <2>3 DEF p
    <3>4. (there \o one) \o coming = there \o (one \o coming)
      <4> HIDE DEF there, one, coming
      <4> QED
        BY <3>1, ConcatAssociative
    <3>5. Of(c, flight'[e]) = coming /\ sent' = sent
      BY <1>5, <1>7
    <3> QED
      BY <2>3, <3>2, <3>3, <3>4, <3>5 DEF p
  <2> QED
    BY <2>2, <2>3
<1>10. Ordered'
  BY <1>9 DEF Ordered
<1> QED
  BY <1>7, <1>8, <1>10 DEF p, event

-----------------------------------------------------------------------------
(***************************************************************************)
(* What the steps do to connections.                                       *)
(***************************************************************************)

\* Events told to a connection at most close it.
LEMMA ToldType ==
  ASSUME NEW conns \in [Connections -> ConnectionState], NEW e, NEW events
  PROVE  /\ Told(conns, e, events) \in [Connections -> ConnectionState]
         /\ \A x \in Connections :
              /\ Told(conns, e, events)[x].end = conns[x].end
              /\ Told(conns, e, events)[x].state \in {conns[x].state, "closing"}
BY DEF Told, ConnectionState

\* A connection that is being opened is the only one, and nobody can use it.
LEMMA NothingYet ==
  ASSUME IInv, NEW x \in Connections, connection[x].state = "connecting"
  PROVE  /\ ~Connected
         /\ \A y \in Connections : connection[y].state \in {"connecting", "none"}
         /\ \A y \in Connections : connection[y].state = "connecting" => y = x
         /\ use = "constructed" \/ Held = {}
         /\ \A e \in Ends : ~accepted[e] /\ dispatchQueue[e] = << >> /\ flight[e] = << >>
<1>1. /\ use \in {"fetch", "proxy", "constructed"} /\ connection[x].end = "client"
      /\ \A y \in Connections \ {x} : connection[y].state = "none" /\ connection[y].end = None
      /\ \A e \in Ends : ~accepted[e] /\ dispatchQueue[e] = << >> /\ flight[e] = << >>
  BY DEF IInv, Fresh, Coupling
<1>2. ~Connected
  BY <1>1, NoneIsNoEnd DEF Connected, Ends
<1> QED
  BY <1>1, <1>2 DEF Held

\* Steps that leave ends with their connections, when none is being opened.
LEMMA CouplingStays ==
  ASSUME IInv, UNCHANGED <<use, coupled>>,
         \A x \in Connections : /\ connection[x].state # "connecting"
                                /\ connection'[x].end = connection[x].end
                                /\ connection'[x].state # "connecting"
                                /\ connection'[x].state = "none" => connection[x].state = "none"
  PROVE  /\ Fresh' /\ Coupling'
         /\ UNCHANGED byCode /\ (\A e \in Ends : accepted[e] => accepted'[e]) => CodeOwns'
<1>1. Fresh'
  BY DEF Fresh
<1>2. Coupling'
  BY DEF IInv, Coupling, Listening
<1>3. ASSUME UNCHANGED byCode, \A e \in Ends : accepted[e] => accepted'[e]
      PROVE  CodeOwns'
  BY <1>3 DEF IInv, TypeOK, CodeOwns, Listening
<1> QED
  BY <1>1, <1>2, <1>3

\* The same for steps that leave all connections as they are.
LEMMA CouplingUnchanged ==
  ASSUME IInv, UNCHANGED <<use, coupled, connection>>,
         \A x \in Connections : connection[x].state # "connecting"
  PROVE  /\ Fresh' /\ Coupling'
         /\ UNCHANGED byCode /\ (\A e \in Ends : accepted[e] => accepted'[e]) => CodeOwns'
BY CouplingStays

\* The same for a step that tells connections of events.
LEMMA CouplingTold ==
  ASSUME IInv, UNCHANGED <<use, coupled>>, NEW e, NEW events,
         connection' = connection \/ connection' = Told(connection, e, events),
         \A x \in Connections : connection[x].state # "connecting"
  PROVE  /\ Fresh' /\ Coupling' /\ connection' \in [Connections -> ConnectionState]
         /\ UNCHANGED byCode /\ (\A d \in Ends : accepted[d] => accepted'[d]) => CodeOwns'
<1>1. connection \in [Connections -> ConnectionState]
  BY DEF IInv, TypeOK
<1>2. \A x \in Connections : /\ connection'[x].end = connection[x].end
                             /\ connection'[x].state \in {connection[x].state, "closing"}
  BY <1>1, ToldType
<1> QED
  BY <1>1, <1>2, ToldType, CouplingStays

-----------------------------------------------------------------------------
(***************************************************************************)
(* Steps.                                                                  *)
(***************************************************************************)

\* accept()
LEMMA AcceptInvariant ==
  ASSUME IInv, NEW e \in Ends, accept(e)
  PROVE  IInv'
<1>1. \A x \in Connections : connection[x].state # "connecting"
  BY NothingYet DEF accept
<1>2. TypeOK /\ QueueTaken /\ Ordered /\ Accept(e, connection)
  BY DEF IInv, accept
<1>3. /\ accepted' \in Flags /\ dispatchQueue' \in Queues /\ dispatched' \in Queues
      /\ QueueTaken'
      /\ \A d \in Ends : Delivered(d)' = Delivered(d)
      /\ connection' = connection \/ connection' = Told(connection, e, dispatchQueue[e])
  BY <1>2, AcceptDelivers
<1>4. Fresh' /\ Coupling' /\ connection' \in [Connections -> ConnectionState]
  BY <1>1, <1>3, CouplingTold DEF accept
<1>5. Ordered'
  BY <1>2, <1>3, StillOrdered DEF accept
<1>6. byCode' = byCode \union {e} /\ byCode' \subseteq Ends
  BY <1>2 DEF accept, TypeOK
<1>7. TypeOK'
  BY <1>2, <1>3, <1>4, <1>6 DEF TypeOK, accept
<1>8. CodeOwns'
  <2>1. \A x \in Connections : ~Listening(x, e)
    <3>1. ~coupled[e] /\ use # "constructed" /\ (use \in {"fetch", "proxy"} => e = "worker")
      BY DEF accept, Held
    <3> QED
      BY <3>1 DEF IInv, Coupling
  <2>2. accepted'[e] /\ \A d \in Ends : accepted[d] => accepted'[d]
    BY <1>2, AcceptDelivers
  <2>3. \A x \in Connections : connection'[x].end = connection[x].end
    BY <1>2, <1>3, ToldType DEF TypeOK
  <2> QED
    BY <1>2, <1>6, <2>1, <2>2, <2>3 DEF IInv, CodeOwns, Listening, TypeOK
<1> QED
  BY <1>3, <1>4, <1>5, <1>7, <1>8 DEF IInv

\* Marking an end closed.
LEMMA CloseEndType ==
  ASSUME TypeOK, NEW e \in Ends, CloseEnd(e)
  PROVE  closedOutgoing' \in Flags /\ closedIncoming' \in Flags
BY PairsAreEnds DEF CloseEnd, TypeOK, Flags

\* Events that code, a connection or a reload sends from an end.
LEMMA SendInvariant ==
  ASSUME IInv, NEW e \in Ends, NEW X \in Seq(Events), Sends(e, X),
         UNCHANGED <<use, byCode, accepted, coupled, dispatchQueue, dispatched>>,
         closedOutgoing' \in Flags, closedIncoming' \in Flags, unsent' \subseteq Messages,
         connection' \in [Connections -> ConnectionState], Fresh', Coupling', CodeOwns'
  PROVE  IInv'
<1>1. TypeOK /\ Ordered
  BY DEF IInv
<1>2. \A d \in Ends : Delivered(d)' = Delivered(d)
  BY DEF Delivered
<1>3. Ordered' /\ flight' \in Queues /\ sent' \in Queues
  BY <1>1, <1>2, SendsKeepsOrder
<1>4. TypeOK'
  BY <1>1, <1>3 DEF TypeOK
<1>5. QueueTaken'
  BY DEF IInv, QueueTaken
<1> QED
  BY <1>3, <1>4, <1>5 DEF IInv

\* Steps that send nothing and move no event.
LEMMA NothingSentInvariant ==
  ASSUME IInv, UNCHANGED <<use, byCode, dispatchQueue, flight, dispatched, sent>>,
         accepted' \in Flags, coupled' \in Flags,
         closedOutgoing' \in Flags, closedIncoming' \in Flags, unsent' \subseteq Messages,
         connection' \in [Connections -> ConnectionState], Fresh', Coupling', CodeOwns', QueueTaken'
  PROVE  IInv'
<1>1. Ordered'
  BY StillOrdered DEF IInv, Delivered
<1>2. TypeOK'
  BY DEF IInv, TypeOK
<1> QED
  BY <1>1, <1>2 DEF IInv

\* coupleWebSocket for a response.
LEMMA CoupleResponseInvariant ==
  ASSUME IInv, NEW x \in Connections, CoupleResponse(x)
  PROVE  IInv'
<1> DEFINE e == IF use = "proxy" THEN "worker" ELSE "client"
<1>1. e \in Ends /\ TypeOK /\ QueueTaken /\ Ordered /\ Coupling
  BY DEF IInv, Ends
<1>2. \A y \in Connections : connection[y].state # "connecting"
  BY NothingYet DEF CoupleResponse
<1>3. /\ connection[x].state = "none" /\ connection[x].end = None
      /\ use \in {"response", "proxy"} /\ UNCHANGED <<use, byCode, closedOutgoing, closedIncoming, flight, unsent, sent>>
  BY <1>1 DEF CoupleResponse, Coupling
<1>4. connection \in [Connections -> ConnectionState]
  BY <1>1 DEF TypeOK
<1>5. CASE MayCouple(e)
  <2> DEFINE conns == [connection EXCEPT ![x].state = "open", ![x].end = e]
  <2>1. Accept(e, conns) /\ coupled' = [coupled EXCEPT ![e] = TRUE]
    BY <1>5 DEF CoupleResponse
  <2>2. /\ conns \in [Connections -> ConnectionState]
        /\ conns[x].end = e /\ conns[x].state = "open"
        /\ \A y \in Connections : y # x => conns[y] = connection[y]
    BY <1>1, <1>4 DEF ConnectionState
  <2> HIDE DEF conns
  <2>3. /\ accepted' \in Flags /\ dispatchQueue' \in Queues /\ dispatched' \in Queues
        /\ QueueTaken'
        /\ \A d \in Ends : Delivered(d)' = Delivered(d)
        /\ connection' = conns \/ connection' = Told(conns, e, dispatchQueue[e])
    BY <1>1, <2>1, AcceptDelivers
  <2>4. /\ connection' \in [Connections -> ConnectionState]
        /\ connection'[x].end = e /\ connection'[x].state \in {"open", "closing"}
        /\ \A y \in Connections : y # x => /\ connection'[y].end = connection[y].end
                                           /\ connection'[y].state \in {connection[y].state, "closing"}
    BY <2>2, <2>3, ToldType
  <2>5. Fresh'
    BY <1>2, <2>4 DEF Fresh
  <2>6. \A y \in Connections : connection[y].end # e
    <3>1. ~coupled[e]
      BY <1>5 DEF MayCouple
    <3>2. e = "client" => use = "response"
      BY <1>3
    <3> HIDE DEF e
    <3> QED
      BY <1>1, <1>3, <3>1, <3>2 DEF Coupling, Listening
  <2>7. coupled' \in Flags /\ \A d \in Ends : coupled'[d] = (d = e \/ coupled[d])
    BY <1>1, <2>1 DEF TypeOK, Flags
  <2> HIDE DEF e
  <2>8. Coupling'
    <3>1. \A y \in Connections, z \in Connections, d \in Ends :
            connection'[y].end = d /\ connection'[z].end = d => y = z
      BY <1>1, <2>4, <2>6 DEF Coupling, Listening
    <3>2. \A y \in Connections : connection'[y].state = "none" => connection'[y].end = None
      BY <1>1, <2>4 DEF Coupling
    <3>3. \A d \in Ends : coupled'[d] => \E y \in Connections : connection'[y].end = d
      <4> SUFFICES ASSUME NEW d \in Ends, coupled'[d]
                   PROVE  \E y \in Connections : connection'[y].end = d
        OBVIOUS
      <4>1. CASE d = e
        BY <2>4, <4>1
      <4>2. CASE d # e
        <5>1. PICK y \in Connections : connection[y].end = d
          BY <1>1, <2>7, <4>2 DEF Coupling, Listening
        <5>2. y # x
          BY <1>3, <5>1, NoneIsNoEnd
        <5> QED
          BY <2>4, <5>1, <5>2
      <4> QED
        BY <4>1, <4>2
    <3>4. \A y \in Connections, d \in Ends :
            connection'[y].end = d =>
              coupled'[d] \/ (d = "client" /\ use' \in {"fetch", "proxy", "constructed"})
      <4> SUFFICES ASSUME NEW y \in Connections, NEW d \in Ends, connection'[y].end = d
                   PROVE  coupled'[d] \/ (d = "client" /\ use \in {"fetch", "proxy", "constructed"})
        BY <1>3
      <4>1. CASE y = x
        BY <2>4, <2>7, <4>1
      <4>2. CASE y # x
        <5>1. connection[y].end = d
          BY <2>4, <4>2
        <5>2. coupled[d] \/ (d = "client" /\ use \in {"fetch", "proxy", "constructed"})
          BY <1>1, <5>1 DEF Coupling, Listening
        <5> QED
          BY <2>7, <5>2
      <4> QED
        BY <4>1, <4>2
    <3> QED
      BY <3>1, <3>2, <3>3, <3>4 DEF Coupling, Listening
  <2>9. TypeOK' /\ Ordered'
    BY <1>1, <1>3, <2>3, <2>4, <2>7, StillOrdered DEF TypeOK
  <2>10. CodeOwns'
    <3>1. e \notin byCode
      <4>1. ~accepted[e]
        BY <1>5 DEF MayCouple
      <4> QED
        BY <4>1 DEF IInv, CodeOwns
    <3>2. \A d \in Ends : accepted[d] => accepted'[d]
      BY <1>1, <2>1, AcceptDelivers
    <3>3. \A d \in byCode, y \in Connections : connection'[y].end # d
      BY <2>4, <3>1 DEF IInv, CodeOwns, Listening
    <3> QED
      BY <1>1, <1>3, <3>2, <3>3 DEF IInv, CodeOwns, Listening, TypeOK
  <2> QED
    BY <2>3, <2>5, <2>8, <2>9, <2>10 DEF IInv
<1>6. CASE ~MayCouple(e)
  <2>1. /\ connection' = [connection EXCEPT ![x].state = "open"]
        /\ UNCHANGED <<accepted, coupled, dispatchQueue, dispatched>>
    BY <1>6 DEF CoupleResponse
  <2>2. connection' \in [Connections -> ConnectionState]
    BY <1>4, <2>1 DEF ConnectionState
  <2>3. \A y \in Connections : /\ connection'[y].end = connection[y].end
                               /\ connection'[y].state \in {connection[y].state, "open"}
    BY <1>4, <2>1 DEF ConnectionState
  <2>4. Fresh' /\ Coupling' /\ CodeOwns'
    BY <1>2, <1>3, <2>1, <2>3, CouplingStays
  <2> QED
    BY <1>1, <1>3, <2>1, <2>2, <2>4, NothingSentInvariant DEF TypeOK, QueueTaken
<1> QED
  BY <1>5, <1>6

\* The connection of a fetch() or of new WebSocket() is open: the client's end
\* is coupled with it.
LEMMA OpenedInvariant ==
  ASSUME IInv, NEW x \in Connections, Opened(x)
  PROVE  IInv'
<1>1. TypeOK /\ Coupling /\ connection \in [Connections -> ConnectionState]
  BY DEF IInv, TypeOK
<1>2. /\ connection[x].state = "connecting" /\ connection[x].end = "client"
      /\ use \in {"fetch", "proxy", "constructed"}
      /\ \A y \in Connections : y # x => connection[y].state # "connecting"
      /\ \A e \in Ends : dispatchQueue[e] = << >>
  BY NothingYet DEF Opened, IInv, Fresh
<1>3. /\ connection' = [connection EXCEPT ![x].state = "open"]
      /\ accepted' = [accepted EXCEPT !["client"] = TRUE, !["worker"] = (use = "constructed")]
      /\ coupled' = [coupled EXCEPT !["client"] = TRUE]
      /\ UNCHANGED <<use, byCode, closedOutgoing, closedIncoming, dispatchQueue, flight, unsent, dispatched, sent>>
  BY DEF Opened
<1>4. connection' \in [Connections -> ConnectionState]
  BY <1>1, <1>3 DEF ConnectionState
<1>5. \A y \in Connections : /\ connection'[y].end = connection[y].end
                             /\ connection'[y].state = IF y = x THEN "open" ELSE connection[y].state
  BY <1>1, <1>3 DEF ConnectionState
<1>6. accepted' \in Flags /\ coupled' \in Flags
      /\ \A e \in Ends : coupled'[e] = (e = "client" \/ coupled[e])
  BY <1>1, <1>3 DEF TypeOK, Flags, Ends
<1>7. Fresh'
  BY <1>2, <1>5 DEF Fresh
<1>8. Coupling'
  BY <1>1, <1>2, <1>3, <1>5, <1>6 DEF Coupling, Listening
<1>9. QueueTaken'
  BY <1>2, <1>3 DEF QueueTaken
<1>10. CodeOwns'
  <2>1. \A e \in Ends : ~accepted[e]
    BY NothingYet DEF Opened
  <2>2. byCode' = {}
    BY <1>1, <1>3, <2>1 DEF IInv, CodeOwns, TypeOK
  <2> QED
    BY <2>2 DEF CodeOwns
<1> QED
  BY <1>1, <1>3, <1>4, <1>6, <1>7, <1>8, <1>9, <1>10, NothingSentInvariant DEF TypeOK

\* It fails.
LEMMA FailedInvariant ==
  ASSUME IInv, NEW x \in Connections, Failed(x)
  PROVE  IInv'
<1>1. TypeOK /\ Coupling /\ connection \in [Connections -> ConnectionState]
  BY DEF IInv, TypeOK
<1>2. \A y \in Connections : y # x => connection[y].state # "connecting"
  BY NothingYet DEF Failed
<1>3. /\ connection' = [connection EXCEPT ![x].state = "failed"]
      /\ CloseEnd("client") /\ "client" \in Ends
      /\ Sends("client", <<Event("error", None, Network), Event("close", None, Network)>>)
      /\ UNCHANGED <<use, byCode, accepted, coupled, dispatchQueue, unsent, dispatched>>
  BY DEF Failed, Ends
<1>4. connection' \in [Connections -> ConnectionState]
  BY <1>1, <1>3 DEF ConnectionState
<1>5. \A y \in Connections : /\ connection'[y].end = connection[y].end
                             /\ connection'[y].state = IF y = x THEN "failed" ELSE connection[y].state
  BY <1>1, <1>3 DEF ConnectionState
<1>6. Fresh'
  BY <1>2, <1>5 DEF Fresh
<1>7. Coupling'
  <2>1. connection[x].state = "connecting"
    BY DEF Failed
  <2> QED
    BY <1>1, <1>3, <1>5, <2>1 DEF Coupling, Listening
<1>8. <<Event("error", None, Network), Event("close", None, Network)>> \in Seq(Events)
  BY DEF Event, Events
<1>9. closedOutgoing' \in Flags /\ closedIncoming' \in Flags /\ unsent' \subseteq Messages
  BY <1>1, <1>3, CloseEndType DEF TypeOK
<1>10. CodeOwns'
  BY <1>3, <1>5 DEF IInv, CodeOwns, Listening
<1> QED
  BY <1>3, <1>4, <1>6, <1>7, <1>8, <1>9, <1>10, SendInvariant

\* The constructor accepts its end and sends the error again.
LEMMA RejectedInvariant ==
  ASSUME IInv, NEW x \in Connections, Rejected(x)
  PROVE  IInv'
<1> DEFINE conns == [connection EXCEPT ![x].state = "closed"]
           X == <<Event("error", None, Network)>>
<1>1. /\ TypeOK /\ QueueTaken /\ Ordered /\ connection \in [Connections -> ConnectionState]
      /\ "worker" \in Ends /\ "client" \in Ends
  BY DEF IInv, TypeOK, Ends
<1>2. \A y \in Connections : connection[y].state # "connecting"
  BY NothingYet DEF Rejected
<1>3. /\ Accept("worker", conns) /\ Sends("client", X) /\ connection[x].state = "failed"
      /\ UNCHANGED <<use, byCode, coupled, closedOutgoing, closedIncoming, unsent>>
  BY DEF Rejected
<1>4. /\ conns \in [Connections -> ConnectionState]
      /\ \A y \in Connections : /\ conns[y].end = connection[y].end
                                /\ conns[y].state = IF y = x THEN "closed" ELSE connection[y].state
  BY <1>1 DEF ConnectionState
<1>5. X \in Seq(Events)
  BY DEF Event, Events
<1> HIDE DEF conns, X
<1>6. /\ accepted' \in Flags /\ dispatchQueue' \in Queues /\ dispatched' \in Queues
      /\ QueueTaken'
      /\ \A d \in Ends : Delivered(d)' = Delivered(d)
      /\ connection' = conns \/ connection' = Told(conns, "worker", dispatchQueue["worker"])
  BY <1>1, <1>3, AcceptDelivers
<1>7. Ordered' /\ flight' \in Queues /\ sent' \in Queues
  BY <1>1, <1>3, <1>5, <1>6, SendsKeepsOrder
<1>8. connection' \in [Connections -> ConnectionState]
  BY <1>4, <1>6, ToldType
<1>9. \A y \in Connections : /\ connection'[y].end = connection[y].end
                             /\ connection'[y].state \in {connection[y].state, "closed", "closing"}
  BY <1>4, <1>6, ToldType
<1>10. Fresh' /\ Coupling' /\ CodeOwns'
  <2>1. \A d \in Ends : accepted[d] => accepted'[d]
    BY <1>1, <1>3, <1>4, AcceptDelivers
  <2> QED
    BY <1>2, <1>3, <1>9, <2>1, CouplingStays
<1>11. TypeOK'
  BY <1>1, <1>3, <1>6, <1>7, <1>8 DEF TypeOK
<1> QED
  BY <1>6, <1>7, <1>10, <1>11 DEF IInv

\* Code sends and closes.
LEMMA CodeSendsInvariant ==
  ASSUME IInv, NEW e \in Ends, NEW c \in Contexts,
         close(e, c) \/ \E m \in Messages : send(e, c, m)
  PROVE  IInv'
<1>1. \A x \in Connections : connection[x].state # "connecting"
  BY NothingYet DEF close, send
<1>2. TypeOK
  BY DEF IInv
<1>3. CASE close(e, c)
  <2>1. <<Event("close", None, c)>> \in Seq(Events)
    BY DEF Event, Events
  <2>2. CloseEnd(e) /\ Sends(e, <<Event("close", None, c)>>)
        /\ UNCHANGED <<use, byCode, accepted, coupled, dispatchQueue, connection, unsent, dispatched>>
    BY <1>3 DEF close
  <2>3. Fresh' /\ Coupling' /\ CodeOwns'
    BY <1>1, <2>2, CouplingUnchanged
  <2>4. closedOutgoing' \in Flags /\ closedIncoming' \in Flags
    BY <1>2, <2>2, CloseEndType
  <2>5. connection' \in [Connections -> ConnectionState] /\ unsent' \subseteq Messages
    BY <1>2, <2>2 DEF TypeOK
  <2> QED
    BY <2>1, <2>2, <2>3, <2>4, <2>5, SendInvariant
<1>4. ASSUME NEW m \in Messages, send(e, c, m)
      PROVE  IInv'
  <2>1. <<Event("message", m, c)>> \in Seq(Events)
    BY DEF Event, Events
  <2>2. Sends(e, <<Event("message", m, c)>>) /\ unsent' = unsent \ {m}
        /\ UNCHANGED <<use, byCode, ends, dispatchQueue, connection, dispatched>>
    BY <1>4 DEF send
  <2>3. Fresh' /\ Coupling' /\ CodeOwns'
    BY <1>1, <2>2, CouplingUnchanged DEF ends
  <2>4. /\ connection' \in [Connections -> ConnectionState] /\ unsent' \subseteq Messages
        /\ closedOutgoing' \in Flags /\ closedIncoming' \in Flags
    BY <1>2, <2>2 DEF TypeOK, ends
  <2>5. UNCHANGED <<accepted, coupled>>
    BY <2>2 DEF ends
  <2> QED
    BY <2>1, <2>2, <2>3, <2>4, <2>5, SendInvariant
<1> QED
  BY <1>3, <1>4

\* An output gate lets an event through.
LEMMA PassingInvariant ==
  ASSUME IInv, NEW e \in Ends, NEW i \in DOMAIN flight[e], QueuingDispatchToPair(e, i)
  PROVE  IInv'
<1>1. TypeOK /\ QueueTaken /\ Ordered
  BY DEF IInv
<1>2. \A x \in Connections : connection[x].state # "connecting"
  <2>1. flight[e] # << >>
    BY <1>1, DeliveredType, LenProperties, EmptySeq
  <2> QED
    BY <2>1, NothingYet
<1>3. /\ dispatchQueue' \in Queues /\ dispatched' \in Queues /\ flight' \in Queues
      /\ QueueTaken' /\ Ordered'
      /\ connection' = connection \/ connection' = Told(connection, Pair(e), <<flight[e][i]>>)
  BY <1>1, PassingKeepsOrder
<1>4. UNCHANGED <<use, byCode, accepted, coupled, closedOutgoing, closedIncoming, unsent, sent>>
  BY DEF QueuingDispatchToPair, ends
<1>5. Fresh' /\ Coupling' /\ CodeOwns' /\ connection' \in [Connections -> ConnectionState]
  BY <1>2, <1>3, <1>4, CouplingTold
<1>6. TypeOK'
  BY <1>1, <1>3, <1>4, <1>5 DEF TypeOK
<1> QED
  BY <1>3, <1>5, <1>6 DEF IInv

\* The peer of a connection sends a message.
LEMMA PeerSendsInvariant ==
  ASSUME IInv, NEW x \in Connections, NEW m \in Messages, PeerSends(x, m)
  PROVE  IInv'
<1>1. TypeOK /\ connection \in [Connections -> ConnectionState] /\ connection[x] \in ConnectionState
  BY DEF IInv, TypeOK
<1>2. \A y \in Connections : connection[y].state # "connecting"
  BY NothingYet DEF PeerSends
<1>3. /\ connection' = [connection EXCEPT ![x].frames = Append(@, m)] /\ unsent' = unsent \ {m}
      /\ UNCHANGED <<use, byCode, accepted, coupled, closedOutgoing, closedIncoming, dispatchQueue,
                     flight, dispatched, sent>>
  BY DEF PeerSends, ends
<1>4. Append(connection[x].frames, m) \in Seq(Messages)
  BY <1>1, AppendProperties DEF ConnectionState
<1>5. /\ connection' \in [Connections -> ConnectionState]
      /\ \A y \in Connections : /\ connection'[y].end = connection[y].end
                                /\ connection'[y].state = connection[y].state
  BY <1>1, <1>3, <1>4 DEF ConnectionState
<1>6. Fresh' /\ Coupling' /\ CodeOwns'
  BY <1>2, <1>3, <1>5, CouplingStays
<1> QED
  BY <1>1, <1>3, <1>5, <1>6, NothingSentInvariant DEF TypeOK, IInv, QueueTaken

\* A connection emits a message.
LEMMA OnMessageInvariant ==
  ASSUME IInv, NEW x \in Connections, OnMessage(x)
  PROVE  IInv'
<1> DEFINE e == connection[x].end
           X == <<Event("message", Head(connection[x].frames), Network)>>
<1>1. TypeOK /\ connection \in [Connections -> ConnectionState] /\ connection[x] \in ConnectionState
  BY DEF IInv, TypeOK
<1>2. \A y \in Connections : connection[y].state # "connecting"
  BY NothingYet DEF OnMessage
<1>3. /\ connection[x].frames # << >> /\ e # None
      /\ connection' = [connection EXCEPT ![x].frames = Tail(@)]
      /\ UNCHANGED <<use, byCode, accepted, coupled, closedOutgoing, closedIncoming, dispatchQueue,
                     unsent, dispatched>>
      /\ IF closedOutgoing[e] THEN UNCHANGED <<flight, sent>> ELSE Sends(e, X)
  BY DEF OnMessage, ends
<1>4. /\ Head(connection[x].frames) \in Messages /\ Tail(connection[x].frames) \in Seq(Messages)
      /\ e \in Ends
  BY <1>1, <1>3, HeadTailProperties DEF ConnectionState
<1>5. /\ connection' \in [Connections -> ConnectionState]
      /\ \A y \in Connections : /\ connection'[y].end = connection[y].end
                                /\ connection'[y].state = connection[y].state
  BY <1>1, <1>3, <1>4 DEF ConnectionState
<1>6. X \in Seq(Events)
  BY <1>4 DEF Event, Events
<1>7. Fresh' /\ Coupling' /\ CodeOwns'
  BY <1>2, <1>3, <1>5, CouplingStays
<1> HIDE DEF e, X
<1>8. closedOutgoing' \in Flags /\ closedIncoming' \in Flags /\ unsent' \subseteq Messages
  BY <1>1, <1>3 DEF TypeOK
<1>9. CASE closedOutgoing[e]
  BY <1>1, <1>3, <1>5, <1>7, <1>8, <1>9, NothingSentInvariant DEF TypeOK, IInv, QueueTaken
<1>10. CASE ~closedOutgoing[e]
  BY <1>3, <1>4, <1>5, <1>6, <1>7, <1>8, <1>10, SendInvariant
<1> QED
  BY <1>9, <1>10

\* A connection is closed.
LEMMA OnCloseInvariant ==
  ASSUME IInv, NEW x \in Connections, OnClose(x)
  PROVE  IInv'
<1> DEFINE e == connection[x].end
           X == <<Event("close", None, Network)>>
<1>1. TypeOK /\ connection \in [Connections -> ConnectionState] /\ connection[x] \in ConnectionState
  BY DEF IInv, TypeOK
<1>2. \A y \in Connections : connection[y].state # "connecting"
  BY NothingYet DEF OnClose
<1>3. /\ connection' = [connection EXCEPT ![x].state = "closed", ![x].frames = << >>]
      /\ UNCHANGED <<use, byCode, accepted, coupled, dispatchQueue, unsent, dispatched>>
      /\ IF e = None \/ closedOutgoing[e]
         THEN UNCHANGED <<closedOutgoing, closedIncoming, flight, sent>>
         ELSE CloseEnd(e) /\ Sends(e, X)
  BY DEF OnClose
<1>4. /\ connection' \in [Connections -> ConnectionState]
      /\ \A y \in Connections : /\ connection'[y].end = connection[y].end
                                /\ connection'[y].state \in {connection[y].state, "closed"}
  <2>1. << >> \in Seq(Messages)
    OBVIOUS
  <2> DEFINE closed == [connection[x] EXCEPT !.state = "closed", !.frames = << >>]
  <2>2. /\ closed \in ConnectionState
        /\ closed.end = connection[x].end /\ closed.state = "closed"
    BY <1>1, <2>1 DEF ConnectionState
  <2>3. connection' = [connection EXCEPT ![x] = closed]
    BY <1>1, <1>3 DEF ConnectionState
  <2> HIDE DEF closed
  <2> QED
    BY <1>1, <2>2, <2>3
<1>5. X \in Seq(Events)
  BY DEF Event, Events
<1>6. Fresh' /\ Coupling' /\ CodeOwns'
  BY <1>2, <1>3, <1>4, CouplingStays
<1>7. e \in Ends \union {None}
  BY <1>1 DEF ConnectionState
<1> HIDE DEF e, X
<1>8. CASE e = None \/ closedOutgoing[e]
  BY <1>1, <1>3, <1>4, <1>6, <1>8, NothingSentInvariant DEF TypeOK, IInv, QueueTaken
<1>9. CASE ~ (e = None \/ closedOutgoing[e])
  <2>1. e \in Ends /\ CloseEnd(e) /\ Sends(e, X)
    BY <1>3, <1>7, <1>9
  <2>2. closedOutgoing' \in Flags /\ closedIncoming' \in Flags /\ unsent' \subseteq Messages
    BY <1>1, <1>3, <2>1, CloseEndType DEF TypeOK
  <2> QED
    BY <1>3, <1>4, <1>5, <1>6, <2>1, <2>2, SendInvariant
<1> QED
  BY <1>8, <1>9

\* Reloads.
LEMMA ReloadInvariant ==
  ASSUME IInv, ReloadServer \/ ReloadPlugin
  PROVE  IInv'
<1>1. TypeOK /\ connection \in [Connections -> ConnectionState]
  BY DEF IInv, TypeOK
<1>2. CASE ReloadServer
  <2>1. \A y \in Connections : connection[y].state # "connecting"
    BY <1>2, NothingYet DEF ReloadServer
  <2>2. UNCHANGED <<use, byCode, accepted, coupled, closedOutgoing, closedIncoming, dispatchQueue,
                    flight, unsent, dispatched, sent>>
    BY <1>2 DEF ReloadServer, ends
  <2>3. PICK served : connection' = [x \in Connections |->
                                       IF x \in served THEN [connection[x] EXCEPT !.state = "closing"]
                                       ELSE connection[x]]
    BY <1>2 DEF ReloadServer
  <2>4. /\ connection' \in [Connections -> ConnectionState]
        /\ \A y \in Connections : /\ connection'[y].end = connection[y].end
                                  /\ connection'[y].state \in {connection[y].state, "closing"}
    BY <1>1, <2>3 DEF ConnectionState
  <2>5. Fresh' /\ Coupling' /\ CodeOwns'
    BY <2>1, <2>2, <2>4, CouplingStays
  <2> QED
    BY <1>1, <2>2, <2>4, <2>5, NothingSentInvariant DEF TypeOK, IInv, QueueTaken
<1>3. CASE ReloadPlugin
  <2>1. \A y \in Connections : connection[y].state # "connecting"
    BY <1>3, NothingYet DEF ReloadPlugin
  <2>2. /\ "worker" \in Ends /\ CloseEnd("worker") /\ Sends("worker", <<Event("close", None, Network)>>)
        /\ UNCHANGED <<use, byCode, accepted, coupled, dispatchQueue, connection, unsent, dispatched>>
    BY <1>3 DEF ReloadPlugin, Ends
  <2>3. <<Event("close", None, Network)>> \in Seq(Events)
    BY DEF Event, Events
  <2>4. Fresh' /\ Coupling' /\ CodeOwns'
    BY <2>1, <2>2, CouplingUnchanged
  <2>5. /\ closedOutgoing' \in Flags /\ closedIncoming' \in Flags /\ unsent' \subseteq Messages
        /\ connection' \in [Connections -> ConnectionState]
    BY <1>1, <2>2, CloseEndType DEF TypeOK
  <2> QED
    BY <2>2, <2>3, <2>4, <2>5, SendInvariant
<1> QED
  BY <1>2, <1>3

\* The initial states satisfy the invariant.
LEMMA InitInvariant ==
  ASSUME Init
  PROVE  IInv
<1>1. << >> \in Seq(Events) /\ << >> \in Seq(Messages)
  BY EmptySeq
<1>2. /\ accepted = [e \in Ends |-> FALSE] /\ byCode = {} /\ coupled = [e \in Ends |-> FALSE]
      /\ dispatchQueue = [e \in Ends |-> << >>] /\ flight = [e \in Ends |-> << >>]
      /\ dispatched = [e \in Ends |-> << >>] /\ sent = [e \in Ends |-> << >>]
  BY DEF Init
<1>3. NoConnection \in ConnectionState /\ Connecting("client") \in ConnectionState
  BY <1>1 DEF NoConnection, Connecting, ConnectionState, Ends
<1>4. connection \in [Connections -> ConnectionState]
  BY <1>3 DEF Init
<1>5. TypeOK
  BY <1>1, <1>2, <1>4 DEF Init, TypeOK, Flags, Queues
<1>6. QueueTaken
  BY <1>2 DEF QueueTaken
<1>7. \/ connection = [y \in Connections |-> NoConnection]
      \/ /\ use \in {"fetch", "proxy", "constructed"}
         /\ \E x \in Connections :
              connection = [y \in Connections |-> IF y = x THEN Connecting("client") ELSE NoConnection]
  BY DEF Init
<1>8. /\ NoConnection.state = "none" /\ NoConnection.end = None
      /\ Connecting("client").state = "connecting" /\ Connecting("client").end = "client"
  BY DEF NoConnection, Connecting
<1>9. Fresh /\ Coupling /\ CodeOwns
  BY <1>2, <1>7, <1>8, NoneIsNoEnd DEF Fresh, Coupling, Listening, CodeOwns
<1>10. Ordered
  <2> SUFFICES ASSUME NEW e \in Ends, NEW c \in Contexts \union {Network}
               PROVE  Of(c, Delivered(Pair(e))) \o Of(c, flight[e]) = Of(c, sent[e])
    BY DEF Ordered
  <2>1. Delivered(Pair(e)) = << >> /\ flight[e] = << >> /\ sent[e] = << >>
    BY <1>1, <1>2, PairsAreEnds, ConcatEmptySeq DEF Delivered
  <2> QED
    BY <2>1, <1>1, OfEmpty, ConcatEmptySeq
<1> QED
  BY <1>5, <1>6, <1>9, <1>10 DEF IInv

\* Every step keeps it.
LEMMA StepInvariant ==
  ASSUME IInv, [Next]_vars
  PROVE  IInv'
<1>1. CASE UNCHANGED vars
  BY <1>1 DEF vars, ends, IInv, TypeOK, QueueTaken, Fresh, Coupling, CodeOwns, Listening, Ordered, Delivered
<1> QED
  BY <1>1, AcceptInvariant, CodeSendsInvariant, PassingInvariant, CoupleResponseInvariant,
     OpenedInvariant, FailedInvariant, RejectedInvariant, PeerSendsInvariant,
     OnMessageInvariant, OnCloseInvariant, ReloadInvariant DEF Next

-----------------------------------------------------------------------------
(***************************************************************************)
(* Theorems.                                                               *)
(***************************************************************************)

\* The invariant holds in every behaviour of a pair.
THEOREM InductiveInvariant == Spec => []IInv
<1>1. Init => IInv
  BY InitInvariant
<1>2. IInv /\ [Next]_vars => IInv'
  BY StepInvariant
<1> QED
  BY <1>1, <1>2, PTL DEF Spec

\* Ends hold flags and sequences of events, connections a state and an end.
THEOREM TypeCorrect == Spec => []TypeOK
<1>1. IInv => TypeOK
  BY DEF IInv
<1> QED
  BY <1>1, InductiveInvariant, PTL

\* What one context sends arrives once and in order: through the output gate,
\* the queue of an end that nobody has accepted, and accept().
THEOREM EventsInOrder == Spec => []InOrder
<1>1. IInv => InOrder
  <2> SUFFICES ASSUME IInv, NEW e \in Ends, NEW c \in Contexts \union {Network}
               PROVE  Of(c, dispatched[Pair(e)]) \o Of(c, dispatchQueue[Pair(e)]) \o Of(c, flight[e])
                        = Of(c, sent[e])
    BY DEF InOrder
  <2>1. dispatched[Pair(e)] \in Seq(Events) /\ dispatchQueue[Pair(e)] \in Seq(Events)
    BY PairsAreEnds, DeliveredType DEF IInv
  <2>2. Of(c, Delivered(Pair(e))) = Of(c, dispatched[Pair(e)]) \o Of(c, dispatchQueue[Pair(e)])
    BY <2>1, OfConcat DEF Delivered
  <2> QED
    BY <2>2 DEF IInv, Ordered
<1> QED
  BY <1>1, InductiveInvariant, PTL

\* An end that is returned twice, fetched, proxied or constructed serves one
\* connection at most, and none if code has accepted it; it is marked only if
\* it serves one.
THEOREM OneOwnerEach == Spec => []OneOwner
<1>1. IInv => OneOwner
  <2> SUFFICES ASSUME IInv, NEW e \in Ends
               PROVE  /\ Cardinality({x \in Connections : Listening(x, e)}) <= 1
                      /\ e \in byCode => \A x \in Connections : ~Listening(x, e)
                      /\ coupled[e] => \E x \in Connections : Listening(x, e)
    BY DEF OneOwner
  <2>c. e \in byCode => \A x \in Connections : ~Listening(x, e)
    BY DEF IInv, CodeOwns
  <2> DEFINE listening == {x \in Connections : Listening(x, e)}
  <2>1. \A x, y \in listening : x = y
    BY DEF IInv, Coupling
  <2>2. CASE listening = {}
    <3>1. Cardinality(listening) = 0
      <4> HIDE DEF listening
      <4> QED
        BY <2>2, FS_EmptySet
    <3>2. ~ coupled[e]
      BY <2>2 DEF IInv, Coupling
    <3> QED
      BY <2>c, <3>1, <3>2
  <2>3. CASE listening # {}
    <3>1. PICK x \in listening : TRUE
      BY <2>3
    <3>2. listening = {x}
      BY <2>1, <3>1
    <3>3. Cardinality(listening) = 1
      <4> HIDE DEF listening
      <4> QED
        BY <3>2, FS_Singleton
    <3> QED
      BY <2>c, <3>3 DEF IInv, Coupling
  <2> QED
    BY <2>2, <2>3
<1> QED
  BY <1>1, InductiveInvariant, PTL
=============================================================================
