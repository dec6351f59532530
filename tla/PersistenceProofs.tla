-------------------------- MODULE PersistenceProofs --------------------------
(***************************************************************************)
(* Proofs about what is kept in storage: the alarms of Durable Objects,    *)
(* the multipart uploads of an R2 bucket, and the files under both.  The   *)
(* three components share no state, so that each has its own inductive     *)
(* invariant, and a part of this module; what they share is the absent     *)
(* value.                                                                  *)
(***************************************************************************)
EXTENDS AlarmStore, R2Multipart, FileStorage, SequenceTheorems, TLAPS

-----------------------------------------------------------------------------
(***************************************************************************)
(* The inductive invariant.                                                *)
(***************************************************************************)

\* Every alarm has a timer that is not later than it, or is not due before
\* the map is looked at again: setAlarm leaves those to the check that are
\* further away than the interval, and the check is never further than that.
CoveredInTime ==
  Up => /\ check \in 0..Interval
        /\ \A o \in Objects :
             alarms[o] # None =>
               \/ timer[o] # None /\ timer[o] <= alarms[o]
               \/ check <= alarms[o]

\* The store is on its way to what the map holds, for every key that is not
\* disputed: it holds it, or will when the one operation under way has ended.
\* A process that is down has no map.
StoreOnItsWay ==
  \A o \in Objects :
    /\ mode = "down" => alarms[o] = None
    /\ mode # "down" /\ o \notin disputed =>
         IF storing[o].left = 0 THEN stored[o] = alarms[o]
                                ELSE storing[o].alone /\ storing[o].values = {alarms[o]}

\* The types of what #deleteAlarm changes.
MapAndStoreTypes ==
  /\ alarms \in [Objects -> TimeOrNone] /\ timer \in [Objects -> TimeOrNone]
  /\ storing \in [Objects -> StoringState] /\ disputed \in SUBSET Objects

\* What the steps below have to keep, apart from the types.
AlarmsAgree == CoveredInTime /\ OnlyScheduledAlarmsFire /\ StoreOnItsWay

AlarmInvariant == AlarmTypeOK /\ AlarmsAgree

-----------------------------------------------------------------------------
(***************************************************************************)
(* Operators.                                                              *)
(***************************************************************************)

\* Time passing leaves a time a time, and no time no time.
LEMMA NearerType ==
  ASSUME NEW n \in Nat, NEW t \in 0..n \union {None}
  PROVE  /\ Nearer(t) \in 0..n \union {None}
         /\ Nearer(t) = None <=> t = None
         /\ t \notin {None, 0} => t \in Nat \ {0} /\ Nearer(t) = t - 1
BY NoneIsNoTime DEF Nearer

\* So for the times that alarms have.
LEMMA NearerTime ==
  ASSUME NEW t \in TimeOrNone
  PROVE  /\ Nearer(t) \in TimeOrNone
         /\ Nearer(t) = None <=> t = None
         /\ t \notin {None, 0} => t \in Nat \ {0} /\ Nearer(t) = t - 1
<1>1. MaxDelay \in Nat
  BY TimesAreNaturals
<1> QED
  BY <1>1, NearerType DEF TimeOrNone, Time

\* put and delete add an operation, and another value unless it is alone.
LEMMA IssueProperties ==
  ASSUME AlarmTypeOK, NEW o \in Objects, NEW v \in TimeOrNone, Issue(o, v)
  PROVE  /\ storing' \in [Objects -> StoringState]
         /\ storing'[o].left # 0
         /\ storing[o].left = 0 => storing'[o].alone /\ storing'[o].values = {v}
         /\ \A p \in Objects \ {o} : storing'[p] = storing[p]
<1>1. storing[o] \in StoringState /\ storing \in [Objects -> StoringState]
  BY DEF AlarmTypeOK
<1>2. CASE storing[o].left = 0
  <2>1. storing' = [storing EXCEPT ![o] = [left |-> 1, values |-> {v}, alone |-> TRUE]]
    BY <1>1, <1>2 DEF Issue
  <2>2. [left |-> 1, values |-> {v}, alone |-> TRUE] \in StoringState
    BY DEF StoringState
  <2> QED
    BY <1>1, <2>1, <2>2
<1>3. CASE storing[o].left # 0
  <2> DEFINE more == [left |-> storing[o].left + 1, values |-> storing[o].values \union {v},
                      alone |-> FALSE]
  <2>1. storing' = [storing EXCEPT ![o] = more]
    BY <1>1, <1>3 DEF Issue
  <2>2. more \in StoringState /\ more.left # 0
    BY <1>1 DEF StoringState
  <2> HIDE DEF more
  <2> QED
    BY <1>1, <1>3, <2>1, <2>2
<1> QED
  BY <1>2, <1>3

\* An operation of this AlarmStore leaves its key undisputed, and on its way
\* to v, if it is alone.
LEMMA StoreProperties ==
  ASSUME AlarmTypeOK, NEW o \in Objects, NEW v \in TimeOrNone, Store(o, v)
  PROVE  /\ storing' \in [Objects -> StoringState] /\ disputed' \in SUBSET Objects
         /\ storing'[o].left # 0
         /\ o \notin disputed' => storing'[o].alone /\ storing'[o].values = {v}
         /\ \A p \in Objects \ {o} : storing'[p] = storing[p] /\ (p \in disputed' <=> p \in disputed)
<1>1. Issue(o, v)
  BY DEF Store
<1>2. disputed' = IF storing[o].left = 0 THEN disputed \ {o} ELSE disputed \union {o}
  BY DEF Store
<1>3. disputed \in SUBSET Objects
  BY DEF AlarmTypeOK
<1> QED
  BY <1>1, <1>2, <1>3, IssueProperties

\* What the store holds or may hold is a time, or nothing.
LEMMA OutcomesType ==
  ASSUME AlarmTypeOK, NEW o \in Objects
  PROVE  Outcomes(o) \in SUBSET TimeOrNone
<1>1. 0 \in TimeOrNone /\ None \in TimeOrNone
  BY TimesAreNaturals DEF TimeOrNone, Time
<1>2. stored[o] \in TimeOrNone /\ storing[o].values \in SUBSET TimeOrNone
  BY DEF AlarmTypeOK, StoringState
<1> QED
  BY <1>1, <1>2 DEF Outcomes

\* An operation that ends alone leaves its value.
LEMMA SettleProperties ==
  ASSUME AlarmTypeOK, NEW o \in Objects, Settle(o)
  PROVE  /\ storing' \in [Objects -> StoringState] /\ stored' \in [Objects -> TimeOrNone]
         /\ storing[o].left # 0
         /\ \/ /\ storing'[o].left # 0 /\ stored' = stored
               /\ storing'[o].alone = storing[o].alone
               /\ storing'[o].values = storing[o].values
            \/ /\ storing'[o].left = 0
               /\ storing[o].alone => stored'[o] \in storing[o].values
         /\ \A p \in Objects \ {o} : storing'[p] = storing[p] /\ stored'[p] = stored[p]
<1>1. /\ storing[o] \in StoringState /\ storing \in [Objects -> StoringState]
      /\ stored \in [Objects -> TimeOrNone]
  BY DEF AlarmTypeOK
<1>2. storing[o].left \in Nat /\ storing[o].left > 0
  BY <1>1 DEF StoringState, Settle
<1>3. CASE storing[o].left > 1
  <2>1. storing' = [storing EXCEPT ![o].left = storing[o].left - 1] /\ stored' = stored
    BY <1>1, <1>3 DEF Settle
  <2>2. storing[o].left - 1 \in Nat /\ storing[o].left - 1 # 0
    BY <1>2, <1>3
  <2>3. ASSUME NEW n \in Nat
        PROVE  [storing[o] EXCEPT !.left = n] \in StoringState
    BY <1>1 DEF StoringState
  <2>4. storing'[o] = [storing[o] EXCEPT !.left = storing[o].left - 1]
    BY <1>1, <2>1
  <2>5. /\ storing'[o].left = storing[o].left - 1
        /\ storing'[o].alone = storing[o].alone /\ storing'[o].values = storing[o].values
    BY <1>1, <2>4 DEF StoringState
  <2> QED
    BY <1>1, <1>2, <2>1, <2>2, <2>3, <2>4, <2>5
<1>4. CASE ~(storing[o].left > 1)
  <2>1. storing' = [storing EXCEPT ![o] = Quiet]
    BY <1>4 DEF Settle
  <2>2. PICK v \in IF storing[o].alone THEN storing[o].values ELSE Outcomes(o) :
           stored' = [stored EXCEPT ![o] = v]
    BY <1>4 DEF Settle
  <2>3. v \in TimeOrNone
    BY <1>1, <2>2, OutcomesType DEF StoringState
  <2>4. Quiet \in StoringState /\ Quiet.left = 0
    BY DEF Quiet, StoringState
  <2> QED
    BY <1>1, <1>2, <2>1, <2>2, <2>3, <2>4
<1> QED
  BY <1>3, <1>4

-----------------------------------------------------------------------------
(***************************************************************************)
(* Steps.                                                                  *)
(***************************************************************************)

\* #deleteAlarm, whoever calls it, leaves map, timers and store in agreement.
LEMMA ForgetKeepsAgreement ==
  ASSUME AlarmInvariant, NEW o \in Objects, mode # "down",
         Forget(o), UNCHANGED <<mode, check, stored>>
  PROVE  AlarmsAgree' /\ MapAndStoreTypes'
<1> USE DEF AlarmInvariant
<1>1. /\ alarms \in [Objects -> TimeOrNone] /\ timer \in [Objects -> TimeOrNone]
      /\ stored \in [Objects -> TimeOrNone] /\ None \in TimeOrNone
  BY DEF AlarmTypeOK, TimeOrNone
<1>2. /\ storing' \in [Objects -> StoringState] /\ disputed' \in SUBSET Objects
      /\ storing'[o].left # 0
      /\ o \notin disputed' => storing'[o].alone /\ storing'[o].values = {None}
      /\ \A p \in Objects \ {o} : storing'[p] = storing[p] /\ (p \in disputed' <=> p \in disputed)
  <2>1. Store(o, None) /\ AlarmTypeOK /\ None \in TimeOrNone
    BY <1>1 DEF Forget
  <2> HIDE DEF AlarmInvariant
  <2> QED
    BY <2>1, StoreProperties
<1>3. alarms' = [alarms EXCEPT ![o] = None] /\ timer' = [timer EXCEPT ![o] = None]
  BY DEF Forget
<1>4. CoveredInTime'
  BY <1>1, <1>3 DEF AlarmsAgree, CoveredInTime, Up
<1>5. OnlyScheduledAlarmsFire'
  BY <1>1, <1>3 DEF AlarmsAgree, OnlyScheduledAlarmsFire, Up
<1>6. StoreOnItsWay'
  <2> SUFFICES ASSUME NEW p \in Objects, p \notin disputed'
               PROVE  IF storing'[p].left = 0 THEN stored'[p] = alarms'[p]
                      ELSE storing'[p].alone /\ storing'[p].values = {alarms'[p]}
    BY DEF StoreOnItsWay
  <2>1. CASE p = o
    BY <1>1, <1>2, <1>3, <2>1
  <2>2. CASE p # o
    <3>1. storing'[p] = storing[p] /\ alarms'[p] = alarms[p] /\ stored' = stored /\ p \notin disputed
      BY <1>1, <1>2, <1>3, <2>2
    <3> QED
      BY <3>1 DEF AlarmsAgree, StoreOnItsWay
  <2> QED
    BY <2>1, <2>2
<1> QED
  BY <1>1, <1>2, <1>3, <1>4, <1>5, <1>6 DEF AlarmsAgree, MapAndStoreTypes

\* The same for callers that only call it when there is an alarm.
LEMMA LocalDeleteKeepsAgreement ==
  ASSUME AlarmInvariant, NEW o \in Objects, LocalDelete(o), UNCHANGED <<mode, check, stored>>
  PROVE  AlarmsAgree' /\ MapAndStoreTypes' /\ bridge' \in SUBSET Objects
<1>1. bridge \in SUBSET Objects
  BY DEF AlarmInvariant, AlarmTypeOK
<1>2. CASE alarms[o] # None
  <2>1. Forget(o) /\ mode # "down" /\ bridge' = bridge \union {o}
    BY <1>2 DEF LocalDelete, AlarmInvariant, AlarmsAgree, StoreOnItsWay
  <2> QED
    BY <1>1, <2>1, ForgetKeepsAgreement
<1>3. CASE alarms[o] = None
  <2>1. UNCHANGED <<alarms, timer, storing, bridge, disputed>>
    BY <1>3 DEF LocalDelete
  <2>2. MapAndStoreTypes'
    BY <2>1 DEF AlarmInvariant, AlarmTypeOK, MapAndStoreTypes
  <2> QED
    BY <1>1, <2>1, <2>2 DEF AlarmInvariant, AlarmsAgree, CoveredInTime, Up, OnlyScheduledAlarmsFire,
                StoreOnItsWay
<1> QED
  BY <1>2, <1>3

\* A scan gives every alarm a timer or leaves it to the next check.
LEMMA ScanKeepsAgreement ==
  ASSUME AlarmInvariant, mode # "down", mode' = "running", Scan,
         UNCHANGED <<alarms, stored, storing, disputed>>
  PROVE  AlarmsAgree' /\ timer' \in [Objects -> TimeOrNone] /\ check' \in 0..Interval
<1> USE DEF AlarmInvariant, AlarmTypeOK
<1>1. timer' \in [Objects -> TimeOrNone] /\ check' = Interval
  BY DEF Scan
<1>2. Interval \in 0..Interval
  BY TimesAreNaturals
<1>3. CoveredInTime'
  <2> SUFFICES ASSUME NEW o \in Objects, alarms[o] # None
               PROVE  \/ timer'[o] # None /\ timer'[o] <= alarms[o]
                      \/ Interval <= alarms[o]
    BY <1>1, <1>2 DEF CoveredInTime, Up
  <2>1. alarms[o] \in Nat
    BY TimesAreNaturals DEF TimeOrNone, Time
  <2>2. CASE Near(alarms[o])
    BY <2>1, <2>2 DEF Scan
  <2>3. CASE ~Near(alarms[o])
    BY <2>1, <2>3, TimesAreNaturals DEF Near
  <2> QED
    BY <2>2, <2>3
<1>4. OnlyScheduledAlarmsFire'
  BY DEF AlarmsAgree, OnlyScheduledAlarmsFire, Up, Scan
<1>5. StoreOnItsWay'
  BY DEF AlarmsAgree, StoreOnItsWay
<1> QED
  BY <1>1, <1>2, <1>3, <1>4, <1>5 DEF AlarmsAgree

\* Time brings alarms, timers and the check nearer together, and waits for
\* timers that are due.
LEMMA TickKeepsInvariant ==
  ASSUME AlarmInvariant, Tick
  PROVE  AlarmInvariant'
<1> USE DEF AlarmInvariant
<1>1. \A o \in Objects :
        /\ alarms'[o] = Nearer(alarms[o]) /\ timer'[o] = Nearer(timer[o])
        /\ stored'[o] = Nearer(stored[o])
        /\ storing'[o].left = storing[o].left /\ storing'[o].alone = storing[o].alone
        /\ storing'[o].values = {Nearer(v) : v \in storing[o].values}
        /\ storing'[o] \in StoringState
  <2> SUFFICES ASSUME NEW o \in Objects
               PROVE  /\ alarms'[o] = Nearer(alarms[o]) /\ timer'[o] = Nearer(timer[o])
                      /\ stored'[o] = Nearer(stored[o])
                      /\ storing'[o].left = storing[o].left /\ storing'[o].alone = storing[o].alone
                      /\ storing'[o].values = {Nearer(v) : v \in storing[o].values}
                      /\ storing'[o] \in StoringState
    OBVIOUS
  <2>1. storing[o] \in StoringState /\ storing[o].values \in SUBSET TimeOrNone
    BY DEF AlarmTypeOK, StoringState
  <2>2. storing'[o] = [storing[o] EXCEPT !.values = {Nearer(v) : v \in storing[o].values}]
    BY DEF Tick
  <2>3. {Nearer(v) : v \in storing[o].values} \in SUBSET TimeOrNone
    BY <2>1, NearerTime
  <2>4. ASSUME NEW vs \in SUBSET TimeOrNone
        PROVE  /\ [storing[o] EXCEPT !.values = vs] \in StoringState
               /\ [storing[o] EXCEPT !.values = vs].left = storing[o].left
               /\ [storing[o] EXCEPT !.values = vs].alone = storing[o].alone
               /\ [storing[o] EXCEPT !.values = vs].values = vs
    BY <2>1 DEF StoringState
  <2>5. /\ storing'[o] \in StoringState /\ storing'[o].left = storing[o].left
        /\ storing'[o].alone = storing[o].alone
        /\ storing'[o].values = {Nearer(v) : v \in storing[o].values}
    BY <2>2, <2>3, <2>4
  <2> QED
    BY <2>5 DEF Tick
<1>2. AlarmTypeOK'
  <2>1. storing' \in [Objects -> StoringState]
    <3>1. storing' = [o \in Objects |-> storing'[o]]
      BY DEF Tick
    <3> QED
      BY <1>1, <3>1
  <2>2. /\ alarms' \in [Objects -> TimeOrNone] /\ timer' \in [Objects -> TimeOrNone]
        /\ stored' \in [Objects -> TimeOrNone]
    BY NearerTime DEF Tick, AlarmTypeOK
  <2>3. check' \in 0..Interval \union {None}
    BY NearerType, TimesAreNaturals DEF Tick, AlarmTypeOK
  <2> QED
    BY <2>1, <2>2, <2>3 DEF Tick, AlarmTypeOK
<1>3. CoveredInTime'
  <2> SUFFICES ASSUME Up
               PROVE  /\ Nearer(check) \in 0..Interval
                      /\ \A o \in Objects :
                           Nearer(alarms[o]) # None =>
                             \/ Nearer(timer[o]) # None /\ Nearer(timer[o]) <= Nearer(alarms[o])
                             \/ Nearer(check) <= Nearer(alarms[o])
    BY <1>1 DEF CoveredInTime, Up, Tick
  <2>1. check \in 0..Interval /\ check # 0
    BY DEF AlarmsAgree, CoveredInTime, Tick
  <2>2. Nearer(check) = check - 1
    BY <2>1, NoneIsNoTime, TimesAreNaturals DEF Nearer
  <2>3. ASSUME NEW o \in Objects, Nearer(alarms[o]) # None
        PROVE  \/ Nearer(timer[o]) # None /\ Nearer(timer[o]) <= Nearer(alarms[o])
               \/ Nearer(check) <= Nearer(alarms[o])
    <3>1. alarms[o] \in Nat
      <4>1. alarms[o] \in TimeOrNone
        BY DEF AlarmTypeOK
      <4>2. alarms[o] # None
        BY <2>3, <4>1, NearerTime
      <4> QED
        BY <4>1, <4>2, TimesAreNaturals DEF TimeOrNone, Time
    <3>2. CASE timer[o] # None /\ timer[o] <= alarms[o]
      <4>1. timer[o] \in Nat \ {0}
        BY <3>2, TimesAreNaturals DEF Tick, AlarmTypeOK, TimeOrNone, Time
      <4>2. alarms[o] \in Nat \ {0}
        BY <3>1, <3>2, <4>1
      <4>3. Nearer(timer[o]) = timer[o] - 1 /\ Nearer(alarms[o]) = alarms[o] - 1
        BY <4>1, <4>2, NoneIsNoTime DEF Nearer
      <4>4. Nearer(timer[o]) # None
        BY <4>1, <4>3, NoneIsNoTime
      <4> QED
        BY <3>2, <4>1, <4>2, <4>3, <4>4
    <3>3. CASE check <= alarms[o]
      <4>1. alarms[o] \in Nat \ {0} /\ check \in Nat
        BY <2>1, <3>1, <3>3, TimesAreNaturals
      <4>2. Nearer(alarms[o]) = alarms[o] - 1
        BY <4>1, NoneIsNoTime DEF Nearer
      <4> QED
        BY <2>2, <3>3, <4>1, <4>2
    <3> QED
      BY <2>3, <3>1, <3>2, <3>3, NoneIsNoTime DEF AlarmsAgree, CoveredInTime
  <2> QED
    BY <2>1, <2>2, <2>3, TimesAreNaturals
<1>4. OnlyScheduledAlarmsFire'
  BY <1>1, NearerTime DEF AlarmTypeOK, AlarmsAgree, OnlyScheduledAlarmsFire, Up, Tick
<1>5. StoreOnItsWay'
  <2> SUFFICES ASSUME NEW o \in Objects
               PROVE  /\ mode = "down" => alarms'[o] = None
                      /\ mode # "down" /\ o \notin disputed =>
                           IF storing'[o].left = 0 THEN stored'[o] = alarms'[o]
                           ELSE storing'[o].alone /\ storing'[o].values = {alarms'[o]}
    BY DEF StoreOnItsWay, Tick
  <2>1. mode = "down" => alarms'[o] = None
    BY <1>1 DEF AlarmsAgree, StoreOnItsWay, Nearer
  <2>2. CASE mode # "down" /\ o \notin disputed /\ storing[o].left = 0
    BY <1>1, <2>2 DEF AlarmsAgree, StoreOnItsWay
  <2>3. CASE mode # "down" /\ o \notin disputed /\ storing[o].left # 0
    <3>1. storing[o].alone /\ storing[o].values = {alarms[o]}
      BY <2>3 DEF AlarmsAgree, StoreOnItsWay
    <3>2. {Nearer(v) : v \in storing[o].values} = {Nearer(alarms[o])}
      BY <3>1
    <3> QED
      BY <1>1, <2>3, <3>1, <3>2
  <2> QED
    BY <1>1, <2>1, <2>2, <2>3
<1> QED
  BY <1>2, <1>3, <1>4, <1>5 DEF AlarmsAgree

\* setAlarm gives the alarm a timer at once, or the check comes before it.
LEMMA SetAlarmKeepsInvariant ==
  ASSUME AlarmInvariant, NEW o \in Objects, NEW t \in Time, SetAlarm(o, t)
  PROVE  AlarmInvariant'
<1> USE DEF AlarmInvariant, AlarmTypeOK
<1>1. t \in Nat /\ t \in TimeOrNone /\ t # None
  BY TimesAreNaturals, NoneIsNoTime DEF Time, TimeOrNone
<1>2. /\ storing' \in [Objects -> StoringState] /\ disputed' \in SUBSET Objects
      /\ storing'[o].left # 0
      /\ o \notin disputed' => storing'[o].alone /\ storing'[o].values = {t}
      /\ \A p \in Objects \ {o} : storing'[p] = storing[p] /\ (p \in disputed' <=> p \in disputed)
  <2>1. Store(o, t) /\ AlarmTypeOK /\ t \in TimeOrNone
    BY <1>1 DEF SetAlarm
  <2> HIDE DEF AlarmInvariant, AlarmTypeOK
  <2> QED
    BY <2>1, StoreProperties
<1>3. AlarmTypeOK'
  <2>1. /\ alarms' = [alarms EXCEPT ![o] = t] /\ timer' \in {timer, [timer EXCEPT ![o] = t]}
        /\ sets' = sets + 1 /\ bridge' = bridge \union {o}
        /\ UNCHANGED <<mode, check, stored, stale, fired, flush>>
    BY DEF SetAlarm
  <2> QED
    BY <1>1, <1>2, <2>1
<1>4. CoveredInTime'
  <2> SUFFICES ASSUME NEW p \in Objects, alarms'[p] # None
               PROVE  \/ timer'[p] # None /\ timer'[p] <= alarms'[p]
                      \/ check <= alarms'[p]
    BY DEF AlarmsAgree, CoveredInTime, Up, SetAlarm
  <2>1. CASE p # o
    BY <2>1 DEF AlarmsAgree, CoveredInTime, Up, SetAlarm
  <2>2. CASE p = o /\ Soon(t)
    BY <1>1, <2>2 DEF SetAlarm
  <2>3. CASE p = o /\ ~Soon(t)
    <3>1. alarms'[p] = t
      BY <2>3 DEF SetAlarm
    <3>2. check \in 0..Interval /\ Interval + Overlap <= t
      BY <1>1, <2>3, TimesAreNaturals DEF AlarmsAgree, CoveredInTime, SetAlarm, Soon
    <3> QED
      BY <1>1, <3>1, <3>2, TimesAreNaturals
  <2> QED
    BY <2>1, <2>2, <2>3
<1>5. OnlyScheduledAlarmsFire'
  BY <1>1 DEF AlarmsAgree, OnlyScheduledAlarmsFire, Up, SetAlarm
<1>6. StoreOnItsWay'
  <2>1. mode' = "running" /\ stored' = stored /\ alarms' = [alarms EXCEPT ![o] = t]
    BY DEF SetAlarm, Up
  <2> SUFFICES ASSUME NEW p \in Objects, p \notin disputed'
               PROVE  IF storing'[p].left = 0 THEN stored'[p] = alarms'[p]
                      ELSE storing'[p].alone /\ storing'[p].values = {alarms'[p]}
    BY <2>1 DEF StoreOnItsWay
  <2>2. CASE p = o
    BY <1>2, <2>1, <2>2
  <2>3. CASE p # o
    <3>1. /\ storing'[p] = storing[p] /\ alarms'[p] = alarms[p] /\ stored' = stored
          /\ p \notin disputed /\ mode = "running"
      BY <1>2, <2>1, <2>3 DEF SetAlarm, Up
    <3> QED
      BY <3>1 DEF AlarmsAgree, StoreOnItsWay
  <2> QED
    BY <2>2, <2>3
<1> QED
  BY <1>3, <1>4, <1>5, <1>6 DEF AlarmsAgree

\* The end of an operation of the store, whoever awaits it: the one of a key
\* that is not disputed leaves there what the map holds.
LEMMA SettleKeepsAgreement ==
  ASSUME AlarmInvariant, NEW o \in Objects, Settle(o),
         UNCHANGED <<mode, alarms, timer, check, disputed>>
  PROVE  /\ AlarmsAgree'
         /\ storing' \in [Objects -> StoringState] /\ stored' \in [Objects -> TimeOrNone]
<1> USE DEF AlarmInvariant
<1>1. /\ storing' \in [Objects -> StoringState] /\ stored' \in [Objects -> TimeOrNone]
      /\ storing[o].left # 0
      /\ \/ /\ storing'[o].left # 0 /\ stored' = stored
            /\ storing'[o].alone = storing[o].alone
            /\ storing'[o].values = storing[o].values
         \/ /\ storing'[o].left = 0
            /\ storing[o].alone => stored'[o] \in storing[o].values
      /\ \A p \in Objects \ {o} : storing'[p] = storing[p] /\ stored'[p] = stored[p]
  BY SettleProperties
<1>2. CoveredInTime' /\ OnlyScheduledAlarmsFire'
  BY DEF AlarmsAgree, CoveredInTime, OnlyScheduledAlarmsFire, Up
<1>3. StoreOnItsWay'
  <2> SUFFICES ASSUME NEW p \in Objects, mode # "down", p \notin disputed
               PROVE  IF storing'[p].left = 0 THEN stored'[p] = alarms[p]
                      ELSE storing'[p].alone /\ storing'[p].values = {alarms[p]}
    BY DEF AlarmsAgree, StoreOnItsWay
  <2>1. IF storing[p].left = 0 THEN stored[p] = alarms[p]
        ELSE storing[p].alone /\ storing[p].values = {alarms[p]}
    BY DEF AlarmsAgree, StoreOnItsWay
  <2>2. CASE p = o
    BY <1>1, <2>1, <2>2
  <2>3. CASE p # o
    BY <1>1, <2>1, <2>3
  <2> QED
    BY <2>2, <2>3
<1> QED
  BY <1>1, <1>2, <1>3 DEF AlarmsAgree

\* An operation of a disposed AlarmStore disputes its key.
LEMMA StaleStoreKeepsInvariant ==
  ASSUME AlarmInvariant, NEW o \in Objects, NEW v \in TimeOrNone, StaleStore(o, v)
  PROVE  AlarmInvariant'
<1> USE DEF AlarmInvariant
<1>1. /\ storing' \in [Objects -> StoringState]
      /\ \A p \in Objects \ {o} : storing'[p] = storing[p]
  <2>1. Issue(o, v)
    BY DEF StaleStore
  <2> QED
    BY <2>1, IssueProperties
<1>2. disputed' = disputed \union {o}
  BY DEF StaleStore
<1>3. AlarmTypeOK'
  BY <1>1, <1>2 DEF StaleStore, AlarmTypeOK
<1>4. CoveredInTime' /\ OnlyScheduledAlarmsFire'
  BY DEF AlarmsAgree, CoveredInTime, OnlyScheduledAlarmsFire, Up, StaleStore
<1>5. StoreOnItsWay'
  BY <1>1, <1>2 DEF AlarmsAgree, StoreOnItsWay, StaleStore
<1> QED
  BY <1>3, <1>4, <1>5 DEF AlarmsAgree

\* Steps of flushAlarms() that only move it on.
LEMMA BookkeepingOfFlush ==
  ASSUME AlarmInvariant, flush' \in FlushState,
         UNCHANGED <<mode, alarms, timer, check, stored, storing, bridge, stale, fired, sets, disputed>>
  PROVE  AlarmInvariant'
BY DEF AlarmInvariant, AlarmTypeOK, AlarmsAgree, CoveredInTime, Up, OnlyScheduledAlarmsFire,
       StoreOnItsWay

\* The initial states satisfy the invariant.
LEMMA AlarmInvariantBegins ==
  ASSUME AlarmInit
  PROVE  AlarmInvariant
<1>1. AlarmTypeOK
  <2>1. Quiet \in StoringState /\ NoFlush \in FlushState /\ None \in TimeOrNone
    BY DEF Quiet, StoringState, NoFlush, FlushAt, FlushState, TimeOrNone
  <2> QED
    BY <2>1 DEF AlarmInit, AlarmTypeOK
<1>2. AlarmsAgree
  BY DEF AlarmInit, AlarmsAgree, CoveredInTime, Up, OnlyScheduledAlarmsFire, StoreOnItsWay
<1> QED
  BY <1>1, <1>2 DEF AlarmInvariant

\* Every step keeps it.
LEMMA AlarmInvariantStays ==
  ASSUME AlarmInvariant, [AlarmNext]_alarmVars
  PROVE  AlarmInvariant'
<1>1. AlarmTypeOK /\ AlarmsAgree /\ flush \in FlushState /\ bridge \in SUBSET Objects
  BY DEF AlarmInvariant, AlarmTypeOK
<1>2. CASE SetupStore
  <2>1. AlarmTypeOK'
    BY <1>1, <1>2 DEF SetupStore, AlarmTypeOK
  <2>2. \A o \in Objects : storing[o].left = 0 => alarms'[o] = stored[o]
    BY <1>2 DEF SetupStore, Outcomes
  <2>3. \A o \in Objects : timer[o] = None
    BY <1>1, <1>2 DEF SetupStore, AlarmsAgree, OnlyScheduledAlarmsFire, Up
  <2>4. CoveredInTime' /\ OnlyScheduledAlarmsFire'
    BY <1>2, <2>3 DEF SetupStore, CoveredInTime, Up, OnlyScheduledAlarmsFire
  <2>5. StoreOnItsWay'
    <3> SUFFICES ASSUME NEW o \in Objects, o \notin disputed'
                 PROVE  storing'[o].left = 0 /\ stored'[o] = alarms'[o]
      BY <1>2 DEF SetupStore, StoreOnItsWay
    <3>1. storing[o].left \in Nat
      BY <1>1 DEF AlarmTypeOK, StoringState
    <3>2. disputed' = {p \in Objects : storing[p].left > 0} /\ UNCHANGED <<storing, stored>>
      BY <1>2 DEF SetupStore
    <3>3. storing[o].left = 0
      BY <3>1, <3>2
    <3> QED
      BY <2>2, <3>2, <3>3
  <2> QED
    BY <2>1, <2>4, <2>5 DEF AlarmInvariant, AlarmsAgree
<1>3. CASE SetupAlarms
  <2>1. AlarmsAgree' /\ timer' \in [Objects -> TimeOrNone] /\ check' \in 0..Interval
    BY <1>3, ScanKeepsAgreement DEF SetupAlarms
  <2> QED
    BY <1>1, <1>3, <2>1 DEF SetupAlarms, AlarmInvariant, AlarmTypeOK
<1>4. CASE Check
  <2>1. AlarmsAgree' /\ timer' \in [Objects -> TimeOrNone] /\ check' \in 0..Interval
    BY <1>4, ScanKeepsAgreement DEF Check, Up
  <2> QED
    BY <1>1, <1>4, <2>1 DEF Check, AlarmInvariant, AlarmTypeOK
<1>5. CASE Dispose
  <2>1. AlarmTypeOK'
    BY <1>1, <1>5 DEF Dispose, AlarmTypeOK, TimeOrNone, NoFlush, FlushAt, FlushState
  <2>2. AlarmsAgree'
    BY <1>5 DEF Dispose, AlarmsAgree, CoveredInTime, Up, OnlyScheduledAlarmsFire, StoreOnItsWay
  <2> QED
    BY <2>1, <2>2 DEF AlarmInvariant
<1>6. CASE ProcessEnds
  <2>1. Quiet \in StoringState
    BY DEF Quiet, StoringState
  <2>2. NoFlush \in FlushState /\ None \in TimeOrNone
    BY DEF NoFlush, FlushAt, FlushState, TimeOrNone
  <2>3. AlarmTypeOK'
    BY <1>1, <1>6, <2>1, <2>2 DEF ProcessEnds, AlarmTypeOK
  <2>4. AlarmsAgree'
    BY <1>6 DEF ProcessEnds, AlarmsAgree, CoveredInTime, Up, OnlyScheduledAlarmsFire, StoreOnItsWay
  <2> QED
    BY <2>3, <2>4 DEF AlarmInvariant
<1>7. CASE Tick
  BY <1>7, TickKeepsInvariant
<1>8. ASSUME NEW o \in Objects, NEW t \in Time, SetAlarm(o, t)
      PROVE  AlarmInvariant'
  BY <1>8, SetAlarmKeepsInvariant
<1>9. ASSUME NEW o \in Objects, DeleteAlarm(o)
      PROVE  AlarmInvariant'
  <2>1. AlarmsAgree' /\ MapAndStoreTypes'
    BY <1>9, ForgetKeepsAgreement DEF DeleteAlarm, Up
  <2> QED
    BY <1>1, <1>9, <2>1 DEF DeleteAlarm, AlarmInvariant, AlarmTypeOK, MapAndStoreTypes
<1>10. ASSUME NEW o \in Objects, NEW v \in TimeOrNone, StaleStore(o, v)
       PROVE  AlarmInvariant'
  BY <1>10, StaleStoreKeepsInvariant
<1>11. ASSUME NEW o \in Objects, StoreDone(o)
       PROVE  AlarmInvariant'
  <2>1. /\ AlarmsAgree'
        /\ storing' \in [Objects -> StoringState] /\ stored' \in [Objects -> TimeOrNone]
    BY <1>11, SettleKeepsAgreement DEF StoreDone
  <2> QED
    BY <1>1, <1>11, <2>1 DEF StoreDone, AlarmInvariant, AlarmTypeOK
<1>12. ASSUME NEW o \in Objects, BridgeDone(o)
       PROVE  AlarmInvariant'
  <2>1. /\ AlarmsAgree'
        /\ storing' \in [Objects -> StoringState] /\ stored' \in [Objects -> TimeOrNone]
    BY <1>12, SettleKeepsAgreement DEF BridgeDone
  <2> QED
    BY <1>1, <1>12, <2>1 DEF BridgeDone, AlarmInvariant, AlarmTypeOK
<1>13. ASSUME NEW o \in Objects, Fire(o)
       PROVE  AlarmInvariant'
  <2>1. mode # "down"
    BY <1>1, <1>13, NoneIsNoTime DEF AlarmsAgree, OnlyScheduledAlarmsFire, Up, Fire
  <2>2. AlarmsAgree' /\ MapAndStoreTypes'
    BY <1>13, <2>1, ForgetKeepsAgreement DEF Fire
  <2>3. fired' \in [Objects -> Nat]
    BY <1>1, <1>13 DEF Fire, AlarmTypeOK
  <2> QED
    BY <1>1, <1>13, <2>2, <2>3 DEF Fire, AlarmInvariant, AlarmTypeOK, MapAndStoreTypes
<1>14. ASSUME NEW o \in Objects, RunHandler(o)
       PROVE  AlarmInvariant'
  <2>1. AlarmsAgree' /\ MapAndStoreTypes' /\ bridge' \in SUBSET Objects
    BY <1>14, LocalDeleteKeepsAgreement DEF RunHandler
  <2>2. fired' \in [Objects -> Nat]
    BY <1>1, <1>14 DEF RunHandler, AlarmTypeOK
  <2> QED
    BY <1>1, <1>14, <2>1, <2>2 DEF RunHandler, AlarmInvariant, AlarmTypeOK, MapAndStoreTypes
<1>15. ASSUME NEW o \in Objects, FlushVisit(o)
       PROVE  AlarmInvariant'
  <2>1. mode # "down"
    BY <1>1, <1>15 DEF AlarmsAgree, StoreOnItsWay, FlushVisit
  <2>2. AlarmsAgree' /\ MapAndStoreTypes'
    BY <1>15, <2>1, ForgetKeepsAgreement DEF FlushVisit
  <2>3. After(o) \in SUBSET WholeMap
    BY <1>1 DEF After, FlushState
  <2>4. flush' \in FlushState
    BY <1>15, <2>3 DEF FlushVisit, FlushAt, FlushState
  <2> QED
    BY <1>1, <1>15, <2>2, <2>4 DEF FlushVisit, AlarmInvariant, AlarmTypeOK, MapAndStoreTypes
<1>16. ASSUME NEW o \in Objects, FlushSkip(o)
       PROVE  AlarmInvariant'
  <2>1. After(o) \in SUBSET WholeMap
    BY <1>1 DEF After, FlushState
  <2>2. flush' \in FlushState
    BY <1>16, <2>1 DEF FlushSkip, FlushAt, FlushState
  <2> QED
    BY <1>16, <2>2, BookkeepingOfFlush DEF FlushSkip
<1>17. ASSUME NEW o \in Objects, FlushCallback(o)
       PROVE  AlarmInvariant'
  <2>1. flush' \in FlushState
    BY <1>1, <1>17 DEF FlushCallback, FlushState
  <2>2. /\ AlarmsAgree'
        /\ storing' \in [Objects -> StoringState] /\ stored' \in [Objects -> TimeOrNone]
    BY <1>17, SettleKeepsAgreement DEF FlushCallback
  <2> QED
    BY <1>1, <1>17, <2>1, <2>2 DEF FlushCallback, AlarmInvariant, AlarmTypeOK
<1>18. ASSUME NEW o \in Objects, FlushHandler(o)
       PROVE  AlarmInvariant'
  <2>1. AlarmsAgree' /\ MapAndStoreTypes' /\ bridge' \in SUBSET Objects
    BY <1>18, LocalDeleteKeepsAgreement DEF FlushHandler
  <2>2. flush' \in FlushState
    BY <1>1, <1>18 DEF FlushHandler, FlushState
  <2> QED
    BY <1>1, <1>18, <2>1, <2>2 DEF FlushHandler, AlarmInvariant, AlarmTypeOK, MapAndStoreTypes
<1>19. CASE FlushHandled
  <2>1. flush' \in FlushState
    BY <1>1, <1>19 DEF FlushHandled, FlushAt, FlushState
  <2> QED
    BY <1>19, <2>1, BookkeepingOfFlush DEF FlushHandled
<1>20. CASE FlushThrows \/ FlushEnd
  <2>1. flush' \in FlushState
    BY <1>20 DEF FlushThrows, FlushEnd, NoFlush, FlushAt, FlushState
  <2> QED
    BY <1>20, <2>1, BookkeepingOfFlush DEF FlushThrows, FlushEnd
<1>21. ASSUME NEW keys \in (SUBSET Objects) \union {WholeMap}, FlushStart(keys)
       PROVE  AlarmInvariant'
  <2>1. keys \in SUBSET WholeMap
    BY DEF WholeMap
  <2>2. flush' \in FlushState
    BY <1>21, <2>1 DEF FlushStart, FlushAt, FlushState
  <2> QED
    BY <1>21, <2>2, BookkeepingOfFlush DEF FlushStart
<1>22. CASE UNCHANGED alarmVars
  <2>1. /\ UNCHANGED <<mode, alarms, timer, check, stored, storing, bridge, stale, fired, sets, disputed>>
        /\ flush' \in FlushState
    BY <1>1, <1>22 DEF alarmVars
  <2> QED
    BY <2>1, BookkeepingOfFlush
<1> QED
  BY <1>2, <1>3, <1>4, <1>5, <1>6, <1>7, <1>8, <1>9, <1>10, <1>11, <1>12, <1>13, <1>14,
     <1>15, <1>16, <1>17, <1>18, <1>19, <1>20, <1>21, <1>22 DEF AlarmNext, Proceed, FlushOn

-----------------------------------------------------------------------------
(***************************************************************************)
(* Theorems.                                                               *)
(***************************************************************************)

\* The invariant holds in every behaviour of alarms.ts, however operations of
\* the store overlap, whatever handlers do, and over any restart.
THEOREM AlarmInvariantHolds == AlarmSpec => []AlarmInvariant
<1>1. AlarmInit => AlarmInvariant
  BY AlarmInvariantBegins
<1>2. AlarmInvariant /\ [AlarmNext]_alarmVars => AlarmInvariant'
  BY AlarmInvariantStays
<1> QED
  BY <1>1, <1>2, PTL DEF AlarmSpec

\* The maps of AlarmStore hold times or nothing, for every object.
THEOREM AlarmTypes == AlarmSpec => []AlarmTypeOK
<1>1. AlarmInvariant => AlarmTypeOK
  BY DEF AlarmInvariant
<1> QED
  BY <1>1, AlarmInvariantHolds, PTL

\* setAlarm's overlap and setupAlarms' interval together miss no alarm: one
\* that is due has a timer that is due, or a check that will give it one.
THEOREM NoAlarmIsLate == AlarmSpec => []NeverLate
<1>1. AlarmInvariant => NeverLate
  <2> SUFFICES ASSUME AlarmInvariant, Up, NEW o \in Objects, alarms[o] = 0
               PROVE  0 \in {timer[o], check}
    BY DEF NeverLate
  <2>1. alarms[o] # None /\ check \in 0..Interval
    BY NoneIsNoTime DEF AlarmInvariant, AlarmsAgree, CoveredInTime
  <2>2. CASE timer[o] # None /\ timer[o] <= alarms[o]
    <3>1. timer[o] \in Nat
      BY <2>2, TimesAreNaturals DEF AlarmInvariant, AlarmTypeOK, TimeOrNone, Time
    <3> QED
      BY <2>2, <3>1
  <2>3. CASE check <= alarms[o]
    BY <2>1, <2>3, TimesAreNaturals
  <2> QED
    BY <2>1, <2>2, <2>3 DEF AlarmInvariant, AlarmsAgree, CoveredInTime
<1> QED
  BY <1>1, AlarmInvariantHolds, PTL

\* #deleteAlarm clears the timer with the alarm, whoever calls it: no timer
\* is left of an alarm that was deleted, run or flushed.
THEOREM NoTimerWithoutAlarm == AlarmSpec => []OnlyScheduledAlarmsFire
<1>1. AlarmInvariant => OnlyScheduledAlarmsFire
  BY DEF AlarmInvariant, AlarmsAgree
<1> QED
  BY <1>1, AlarmInvariantHolds, PTL

\* Whatever the un-awaited operations of the store have done to a key, one by
\* itself is enough for the store to hold what the map holds: a restart then
\* finds the alarms that were scheduled.
THEOREM RestartFindsAlarms == AlarmSpec => []StoreFollowsMap
<1>1. AlarmInvariant => StoreFollowsMap
  BY DEF AlarmInvariant, AlarmsAgree, StoreOnItsWay, StoreFollowsMap
<1> QED
  BY <1>1, AlarmInvariantHolds, PTL

-----------------------------------------------------------------------------
(***************************************************************************)
(* Multipart uploads: the inductive invariant.                             *)
(***************************************************************************)
Cleaning(c) == pc[c] \in {"list", "deleteParts"}

\* A call that completes an upload, once it has seen that all parts are there.
Completer(c) ==
  /\ kind[c] = "complete"
  /\ pc[c] \in {"put", "putObject", "putIndex", "list", "deleteParts", "returned"}

\* Its object has been written, and the index.
ObjectPut(c) == Completer(c) /\ pc[c] \notin {"put", "putObject"}
IndexPut(c) == Completer(c) /\ pc[c] \notin {"put", "putIndex"}

\* What c may delete: all parts of an upload that it aborts or whose object it
\* has replaced, those it has not used of one that it completes.
Deletes(c, e) ==
  \/ kind[c] = "abort" /\ e = Object(upload[c], {})
  \/ kind[c] = "complete" /\ e = Object(upload[c], uses[c])
  \/ kind[c] \in {"complete", "put", "delete"} /\ existing[c] # None /\ e = Object(existing[c], {})

\* Where a call of each kind can be, and what it has there.
Places(k) ==
  CASE k = "uploadPart" -> {"putPart", "returned"}
    [] k = "abort" -> {"list", "deleteParts", "markAborted", "returned"}
    [] k = "complete" -> {"headParts", "put", "putObject", "putIndex", "list", "deleteParts", "returned", "threw"}
    [] k \in {"put", "delete"} -> {"put", "list", "deleteParts", "returned"}
    [] k = "get" -> {"stream", "returned", "threw"}
CallMatches(c) ==
  /\ kind[c] \in {"uploadPart", "abort", "complete", "put", "delete", "get"} /\ pc[c] \in Places(kind[c])
  /\ kind[c] \in {"uploadPart", "abort", "complete", "get"} => upload[c] \in Uploads
  /\ kind[c] \in {"uploadPart", "abort", "get"} \/ pc[c] = "headParts" => existing[c] = None
  /\ kind[c] = "complete" =>
       etags[c] \in [uses[c] -> Calls] /\ (pc[c] = "headParts" => todo[c] \subseteq uses[c])
  /\ kind[c] = "get" => todo[c] \subseteq uses[c]
  /\ Cleaning(c) => /\ cleaning[c] # << >>
                    /\ \A i \in DOMAIN cleaning[c] : Deletes(c, cleaning[c][i])
  /\ pc[c] = "deleteParts" => todo[c] \subseteq PartNumbers \ Kept(c)
CallsMatch ==
  \A c \in Calls : IF pc[c] = "idle" THEN existing[c] = None ELSE CallMatches(c)

\* No two calls have completed or aborted u at once.
Clear(u) == u \notin contested

\* So one call at a time does.
Finishing(c) == Active(c) /\ kind[c] \in {"complete", "abort"}
OneFinisher ==
  \A c, d \in Calls :
    Clear(upload[c]) /\ Finishing(c) /\ Finishing(d) /\ upload[c] = upload[d] => c = d

\* The index says how far the call is that finishes the upload.
IndexFollows ==
  \A c \in Calls : Clear(upload[c]) =>
    /\ kind[c] = "complete" /\ pc[c] \in {"headParts", "put", "putIndex"} => index[upload[c]] = "pending"
    /\ IndexPut(c) => index[upload[c]] = "completed"
    /\ kind[c] = "abort" /\ Active(c) => index[upload[c]] = "pending"
OneCompleter ==
  \A c, d \in Calls :
    Clear(upload[c]) /\ Completer(c) /\ Completer(d) /\ upload[c] = upload[d] => c = d

\* The parts ns of upload u are those that a call completed it with.
Completed(u, ns) == \E c \in Calls : ObjectPut(c) /\ upload[c] = u /\ uses[c] = ns

\* An object with parts, in the storage or where a call has found it, is of an
\* upload that was completed.
ObjectsCompleted ==
  /\ object # Absent => IF object.upload = None THEN object.numbers = {}
                        ELSE Completed(object.upload, object.numbers)
  /\ \A c \in Calls : existing[c] # None => \E d \in Calls : Completed(existing[c], uses[d])
  /\ \A c \in Calls : kind[c] = "get" /\ pc[c] # "idle" => Completed(upload[c], uses[c])

\* Parts that were found stay until the object points to them.
PartsFound ==
  \A c \in Calls : Clear(upload[c]) => \A n \in uses[c] :
    \/ kind[c] = "complete" /\ pc[c] = "headParts" /\ n \notin todo[c]
    \/ kind[c] = "complete" /\ pc[c] \in {"put", "putObject"}
    => part[upload[c]][n] # Absent

\* An object that was replaced does not come back.
Replaced(u) == object # Absent => object.upload # u
FoundReplaced ==
  \A c \in Calls :
    existing[c] # None /\ Clear(existing[c]) /\ (Cleaning(c) \/ pc[c] = "putIndex") =>
      Replaced(existing[c])

(***************************************************************************)
(* What is left over while no two calls overlap.                           *)
(***************************************************************************)
Pointed(u, n) == object # Absent /\ object.upload = u /\ n \in object.numbers

\* Call c has yet to delete part n of upload u, or to point to it.
Deals(c, u, n) ==
  \/ pc[c] \in {"putObject", "putIndex"} /\ u \in {upload[c], existing[c]}
  \/ pc[c] = "list" /\ \E i \in DOMAIN cleaning[c] : cleaning[c][i].upload = u /\ n \notin cleaning[c][i].numbers
  \/ pc[c] = "deleteParts" /\ Target(c) = u /\ n \in todo[c]
  \/ /\ pc[c] = "deleteParts"
     /\ \E i \in DOMAIN cleaning[c] : i # 1 /\ cleaning[c][i].upload = u /\ n \notin cleaning[c][i].numbers

\* What a call that runs alone knows of the storage.
Knows(c) ==
  /\ pc[c] = "putPart" => index[upload[c]] = "pending"
  /\ pc[c] \in {"put", "putObject"} => existing[c] = Found
  /\ pc[c] = "putIndex" => object = Object(upload[c], uses[c])
  /\ pc[c] = "deleteParts" =>
       \A n \in PartNumbers \ (Kept(c) \union todo[c]) : part[Target(c)][n] = Absent
  /\ pc[c] = "markAborted" => \A n \in PartNumbers : part[upload[c]][n] = Absent
  /\ kind[c] = "abort" /\ Cleaning(c) => cleaning[c] = <<Object(upload[c], {})>>
LittleLeft ==
  ~ overlapped =>
    /\ \A c \in Calls : Active(c) => Knows(c) /\ \A d \in Calls : Active(d) => d = c
    /\ \A u \in Uploads : \A n \in PartNumbers :
         part[u][n] # Absent =>
           \/ index[u] = "pending"
           \/ Pointed(u, n)
           \/ \E c \in Calls : Active(c) /\ Deals(c, u, n)

MultipartInvariant ==
  /\ MultipartTypeOK /\ CallsMatch /\ OneFinisher /\ IndexFollows /\ OneCompleter
  /\ ObjectsCompleted /\ PartsFound /\ FoundReplaced /\ PointedPartsExist /\ ReadersServed
  /\ LittleLeft

-----------------------------------------------------------------------------
(***************************************************************************)
(* Steps of calls on a bucket.                                             *)
(***************************************************************************)

\* What the other calls have stays.
Aside(c) ==
  \A d \in Calls \ {c} :
    /\ pc'[d] = pc[d] /\ kind'[d] = kind[d] /\ upload'[d] = upload[d] /\ uses'[d] = uses[d]
    /\ etags'[d] = etags[d] /\ todo'[d] = todo[d] /\ existing'[d] = existing[d]
    /\ cleaning'[d] = cleaning[d]

\* What call c was called with stays, once it has begun.
Goes(c) ==
  /\ Aside(c) /\ overlapped' = overlapped /\ contested' = contested
  /\ kind'[c] = kind[c] /\ upload'[c] = upload[c] /\ uses'[c] = uses[c] /\ etags'[c] = etags[c]

\* Call c begins.
Begins(c, name, u) ==
  /\ Aside(c) /\ pc[c] = "idle"
  /\ kind'[c] = name /\ upload'[c] = u
  /\ overlapped' = (overlapped \/ \E d \in Calls : Active(d))
  /\ contested \subseteq contested'
  /\ UNCHANGED storage

\* Call c begins to finish u, no other call does, unless it is contested now.
BeginsAlone(c, u) == u \in contested' \/ \A d \in Calls : ~ Finishes(d, u)

\* What the calls that begin have then.
LEMMA BeginningsAre ==
  ASSUME MultipartTypeOK, NEW c \in Calls
  PROVE  /\ \A u \in Uploads, n \in PartNumbers : uploadPart(c, u, n) =>
              /\ Begins(c, "uploadPart", u) /\ index[u] = "pending" /\ pc'[c] = "putPart" /\ uses'[c] = {n}
              /\ existing'[c] = existing[c]
         /\ \A u \in Uploads : abort(c, u) =>
              /\ Begins(c, "abort", u) /\ index[u] = "pending" /\ BeginsAlone(c, u) /\ pc'[c] = "list"
              /\ cleaning'[c] = <<Object(u, {})>> /\ existing'[c] = existing[c]
         /\ \A u \in Uploads : complete(c, u) =>
              /\ Begins(c, "complete", u) /\ index[u] = "pending" /\ BeginsAlone(c, u) /\ pc'[c] = "headParts"
              /\ uses'[c] \subseteq PartNumbers /\ todo'[c] = uses'[c] /\ etags'[c] \in [uses'[c] -> Calls]
              /\ existing'[c] = existing[c]
         /\ put(c) => Begins(c, "put", None) /\ pc'[c] = "put" /\ existing'[c] = Found
         /\ delete(c) => Begins(c, "delete", None) /\ pc'[c] = "put" /\ existing'[c] = Found
         /\ get(c) => /\ Begins(c, "get", Found) /\ Found # None /\ pc'[c] = "stream"
                      /\ uses'[c] = object.numbers /\ todo'[c] = object.numbers
                      /\ existing'[c] = existing[c]
<1> USE DEF MultipartTypeOK, Begins, BeginsAlone, Aside, Start, Goto, storage, overlaps
<1>1. ASSUME NEW u \in Uploads, NEW n \in PartNumbers, uploadPart(c, u, n)
      PROVE  /\ Begins(c, "uploadPart", u) /\ index[u] = "pending" /\ pc'[c] = "putPart" /\ uses'[c] = {n}
             /\ existing'[c] = existing[c]
  BY <1>1 DEF uploadPart
<1>2. ASSUME NEW u \in Uploads, abort(c, u)
      PROVE  /\ Begins(c, "abort", u) /\ index[u] = "pending" /\ BeginsAlone(c, u) /\ pc'[c] = "list"
             /\ cleaning'[c] = <<Object(u, {})>> /\ existing'[c] = existing[c]
  BY <1>2 DEF abort
<1>3. ASSUME NEW u \in Uploads, complete(c, u)
      PROVE  /\ Begins(c, "complete", u) /\ index[u] = "pending" /\ BeginsAlone(c, u) /\ pc'[c] = "headParts"
             /\ uses'[c] \subseteq PartNumbers /\ todo'[c] = uses'[c] /\ etags'[c] \in [uses'[c] -> Calls]
             /\ existing'[c] = existing[c]
  <2>1. PICK ns \in SUBSET PartNumbers :
          /\ uses' = [uses EXCEPT ![c] = ns] /\ todo' = [todo EXCEPT ![c] = ns]
          /\ etags' \in {[etags EXCEPT ![c] = f] : f \in {f \in [ns -> Calls] :
                            \A n \in ns : f[n] \in Uploaded(u, n)}}
    BY <1>3, Zenon DEF complete
  <2>2. PICK f \in [ns -> Calls] : etags' = [etags EXCEPT ![c] = f]
    BY <2>1
  <2> QED
    BY <1>3, <2>1, <2>2 DEF complete
<1>4. put(c) => Begins(c, "put", None) /\ pc'[c] = "put" /\ existing'[c] = Found
  BY DEF put
<1>5. delete(c) => Begins(c, "delete", None) /\ pc'[c] = "put" /\ existing'[c] = Found
  BY DEF delete
<1>6. get(c) => /\ Begins(c, "get", Found) /\ Found # None /\ pc'[c] = "stream"
                /\ uses'[c] = object.numbers /\ todo'[c] = object.numbers
                /\ existing'[c] = existing[c]
  BY DEF get
<1> QED
  BY <1>1, <1>2, <1>3, <1>4, <1>5, <1>6

\* What is to be cleaned up lists what the call may delete, all of it.
LEMMA RedundantIs ==
  ASSUME MultipartTypeOK, NEW c \in Calls, kind[c] \in {"complete", "put", "delete"},
         kind[c] = "complete" => upload[c] \in Uploads
  PROVE  /\ Redundant(c) \in Seq(Pointers)
         /\ \A i \in DOMAIN Redundant(c) : Deletes(c, Redundant(c)[i])
         /\ kind[c] = "complete" =>
              \E i \in DOMAIN Redundant(c) : Redundant(c)[i] = Object(upload[c], uses[c])
         /\ existing[c] # None =>
              \E i \in DOMAIN Redundant(c) : Redundant(c)[i] = Object(existing[c], {})
         /\ Redundant(c) = << >> <=> kind[c] # "complete" /\ existing[c] = None
<1> DEFINE own == Object(upload[c], uses[c])
           old == Object(existing[c], {})
<1>1. old \in Pointers /\ (kind[c] = "complete" => own \in Pointers)
  BY DEF MultipartTypeOK, Object, Pointers
<1>2. CASE kind[c] = "complete" /\ existing[c] = None
  <2>1. Redundant(c) = <<own>>
    BY <1>1, <1>2 DEF Redundant
  <2> HIDE DEF own
  <2> QED
    BY <1>1, <1>2, <2>1 DEF Deletes, own
<1>3. CASE kind[c] = "complete" /\ existing[c] # None
  <2>1. Redundant(c) = <<own>> \o <<old>>
    BY <1>1, <1>3 DEF Redundant
  <2>2. Deletes(c, own) /\ Deletes(c, old)
    BY <1>3 DEF Deletes
  <2> HIDE DEF own, old
  <2>3. own \in Pointers /\ old \in Pointers
    BY <1>1, <1>3
  <2>4. <<own>> \in Seq(Pointers) /\ <<old>> \in Seq(Pointers) /\ Len(<<own>>) = 1 /\ Len(<<old>>) = 1
    BY <2>3
  <2>5. /\ Redundant(c) \in Seq(Pointers) /\ Len(Redundant(c)) = 2
        /\ Redundant(c)[1] = own /\ Redundant(c)[2] = old
    BY <2>1, <2>4, ConcatProperties, SMTT(20)
  <2>6. DOMAIN Redundant(c) = {1, 2}
    BY <2>5
  <2>7. Redundant(c) # << >>
    BY <2>5
  <2>8. \A i \in DOMAIN Redundant(c) : Deletes(c, Redundant(c)[i])
    BY <2>2, <2>5, <2>6
  <2> QED
    BY <1>3, <2>5, <2>6, <2>7, <2>8, Zenon DEF own, old
<1>4. CASE kind[c] # "complete" /\ existing[c] = None
  <2>1. Redundant(c) = << >>
    BY <1>4 DEF Redundant
  <2> QED
    BY <1>4, <2>1
<1>5. CASE kind[c] # "complete" /\ existing[c] # None
  <2>1. Redundant(c) = <<old>>
    BY <1>1, <1>5 DEF Redundant
  <2>2. Deletes(c, old)
    BY <1>5 DEF Deletes
  <2> HIDE DEF old
  <2> QED
    BY <1>1, <1>5, <2>1, <2>2 DEF old
<1> QED
  BY <1>2, <1>3, <1>4, <1>5

\* Call c cleans up what Redundant lists.
CleansUp(c) ==
  /\ cleaning'[c] = Redundant(c)
  /\ pc'[c] = (IF Redundant(c) = << >> THEN "returned" ELSE "list")

\* What each step of a call does to what it has and to the storage.
LEMMA StepsAre ==
  ASSUME MultipartTypeOK, NEW c \in Calls
  PROVE  /\ PutPart(c) => /\ Goes(c) /\ pc[c] = "putPart" /\ pc'[c] = "returned"
                          /\ existing'[c] = existing[c] /\ object' = object /\ index' = index
                          /\ \A u \in Uploads, n \in PartNumbers :
                               part'[u][n] = IF u = upload[c] /\ n \in uses[c] THEN c ELSE part[u][n]
         /\ \A n \in PartNumbers : HeadPart(c, n) =>
              /\ Goes(c) /\ pc[c] = "headParts" /\ n \in todo[c] /\ UNCHANGED storage
              /\ existing'[c] = existing[c]
              /\ \/ /\ pc'[c] = "headParts" /\ todo'[c] = todo[c] \ {n}
                    /\ part[upload[c]][n] = etags[c][n]
                 \/ pc'[c] = "threw" /\ todo'[c] = {}
         /\ HeadExisting(c) =>
              /\ Goes(c) /\ pc[c] = "headParts" /\ todo[c] = {} /\ pc'[c] = "put"
              /\ existing'[c] = Found /\ UNCHANGED storage
         /\ PutObject(c) =>
              /\ Goes(c) /\ kind[c] = "complete" /\ existing'[c] = existing[c]
              /\ object' = Object(upload[c], uses[c]) /\ index' = index /\ part' = part
              /\ \/ pc[c] = "put" /\ pc'[c] = "putIndex"
                 \/ pc[c] = "putObject" /\ CleansUp(c)
         /\ PutIndex(c) =>
              /\ Goes(c) /\ kind[c] = "complete" /\ existing'[c] = existing[c]
              /\ index' = [index EXCEPT ![upload[c]] = "completed"] /\ object' = object /\ part' = part
              /\ \/ pc[c] = "put" /\ pc'[c] = "putObject"
                 \/ pc[c] = "putIndex" /\ CleansUp(c)
         /\ Overwrite(c) =>
              /\ Goes(c) /\ kind[c] \in {"put", "delete"} /\ existing'[c] = existing[c] /\ pc[c] = "put"
              /\ object' \in {Plain, Absent} /\ index' = index /\ part' = part /\ CleansUp(c)
         /\ \A n \in PartNumbers : PullPart(c, n) =>
              /\ Goes(c) /\ pc[c] = "stream" /\ n \in todo[c] /\ UNCHANGED storage
              /\ existing'[c] = existing[c] /\ todo'[c] = todo[c] \ {n}
              /\ \/ pc'[c] \in {"stream", "returned"}
                 \/ pc'[c] = "threw" /\ part[upload[c]][n] = Absent
         /\ ListParts(c) =>
              /\ Goes(c) /\ pc[c] = "list" /\ pc'[c] = "deleteParts" /\ UNCHANGED storage
              /\ existing'[c] = existing[c] /\ cleaning'[c] = cleaning[c]
              /\ todo'[c] = {n \in PartNumbers \ Kept(c) : part[Target(c)][n] # Absent}
         /\ \A n \in PartNumbers : DeletePart(c, n) =>
              /\ Goes(c) /\ pc[c] = "deleteParts" /\ pc'[c] = pc[c] /\ n \in todo[c]
              /\ existing'[c] = existing[c] /\ cleaning'[c] = cleaning[c] /\ todo'[c] = todo[c] \ {n}
              /\ object' = object /\ index' = index
              /\ \A u \in Uploads, m \in PartNumbers :
                   part'[u][m] = IF u = Target(c) /\ m = n THEN Absent ELSE part[u][m]
         /\ PartsDeleted(c) =>
              /\ Goes(c) /\ pc[c] = "deleteParts" /\ todo[c] = {} /\ UNCHANGED storage
              /\ existing'[c] = existing[c] /\ cleaning'[c] = Tail(cleaning[c])
              /\ \/ pc'[c] = "list" /\ Tail(cleaning[c]) # << >>
                 \/ pc'[c] = "markAborted" /\ kind[c] = "abort" /\ Tail(cleaning[c]) = << >>
                 \/ pc'[c] = "returned" /\ kind[c] # "abort" /\ Tail(cleaning[c]) = << >>
         /\ MarkAborted(c) =>
              /\ Goes(c) /\ pc[c] = "markAborted" /\ pc'[c] = "returned"
              /\ existing'[c] = existing[c]
              /\ index' = [index EXCEPT ![upload[c]] = "aborted"] /\ object' = object /\ part' = part
<1> USE DEF MultipartTypeOK, Goes, Aside, Goto, storage, args, overlaps
<1>1. PutPart(c) => /\ Goes(c) /\ pc[c] = "putPart" /\ pc'[c] = "returned"
                    /\ existing'[c] = existing[c] /\ object' = object /\ index' = index
                    /\ \A u \in Uploads, n \in PartNumbers :
                         part'[u][n] = IF u = upload[c] /\ n \in uses[c] THEN c ELSE part[u][n]
  BY DEF PutPart
<1>2. ASSUME NEW n \in PartNumbers, HeadPart(c, n)
      PROVE  /\ Goes(c) /\ pc[c] = "headParts" /\ n \in todo[c] /\ UNCHANGED storage
             /\ existing'[c] = existing[c]
             /\ \/ /\ pc'[c] = "headParts" /\ todo'[c] = todo[c] \ {n}
                   /\ part[upload[c]][n] = etags[c][n]
                \/ pc'[c] = "threw" /\ todo'[c] = {}
  BY <1>2 DEF HeadPart
<1>3. HeadExisting(c) =>
        /\ Goes(c) /\ pc[c] = "headParts" /\ todo[c] = {} /\ pc'[c] = "put"
        /\ existing'[c] = Found /\ UNCHANGED storage
  BY DEF HeadExisting
<1>4. PutObject(c) =>
        /\ Goes(c) /\ kind[c] = "complete" /\ existing'[c] = existing[c]
        /\ object' = Object(upload[c], uses[c]) /\ index' = index /\ part' = part
        /\ \/ pc[c] = "put" /\ pc'[c] = "putIndex"
           \/ pc[c] = "putObject" /\ CleansUp(c)
  BY DEF PutObject, Cleanup, CleansUp
<1>5. PutIndex(c) =>
        /\ Goes(c) /\ kind[c] = "complete" /\ existing'[c] = existing[c]
        /\ index' = [index EXCEPT ![upload[c]] = "completed"] /\ object' = object /\ part' = part
        /\ \/ pc[c] = "put" /\ pc'[c] = "putObject"
           \/ pc[c] = "putIndex" /\ CleansUp(c)
  BY DEF PutIndex, Cleanup, CleansUp
<1>6. Overwrite(c) =>
        /\ Goes(c) /\ kind[c] \in {"put", "delete"} /\ existing'[c] = existing[c] /\ pc[c] = "put"
        /\ object' \in {Plain, Absent} /\ index' = index /\ part' = part /\ CleansUp(c)
  BY DEF Overwrite, Cleanup, CleansUp
<1>7. ASSUME NEW n \in PartNumbers, PullPart(c, n)
      PROVE  /\ Goes(c) /\ pc[c] = "stream" /\ n \in todo[c] /\ UNCHANGED storage
             /\ existing'[c] = existing[c] /\ todo'[c] = todo[c] \ {n}
             /\ \/ pc'[c] \in {"stream", "returned"}
                \/ pc'[c] = "threw" /\ part[upload[c]][n] = Absent
  BY <1>7 DEF PullPart
<1>8. ListParts(c) =>
        /\ Goes(c) /\ pc[c] = "list" /\ pc'[c] = "deleteParts" /\ UNCHANGED storage
        /\ existing'[c] = existing[c] /\ cleaning'[c] = cleaning[c]
        /\ todo'[c] = {n \in PartNumbers \ Kept(c) : part[Target(c)][n] # Absent}
  BY DEF ListParts
<1>9. ASSUME NEW n \in PartNumbers, DeletePart(c, n)
      PROVE  /\ Goes(c) /\ pc[c] = "deleteParts" /\ pc'[c] = pc[c] /\ n \in todo[c]
             /\ existing'[c] = existing[c] /\ cleaning'[c] = cleaning[c] /\ todo'[c] = todo[c] \ {n}
             /\ object' = object /\ index' = index
             /\ \A u \in Uploads, m \in PartNumbers :
                  part'[u][m] = IF u = Target(c) /\ m = n THEN Absent ELSE part[u][m]
  BY <1>9 DEF DeletePart
<1>10. PartsDeleted(c) =>
         /\ Goes(c) /\ pc[c] = "deleteParts" /\ todo[c] = {} /\ UNCHANGED storage
         /\ existing'[c] = existing[c] /\ cleaning'[c] = Tail(cleaning[c])
         /\ \/ pc'[c] = "list" /\ Tail(cleaning[c]) # << >>
            \/ pc'[c] = "markAborted" /\ kind[c] = "abort" /\ Tail(cleaning[c]) = << >>
            \/ pc'[c] = "returned" /\ kind[c] # "abort" /\ Tail(cleaning[c]) = << >>
  BY DEF PartsDeleted
<1>11. MarkAborted(c) =>
         /\ Goes(c) /\ pc[c] = "markAborted" /\ pc'[c] = "returned"
         /\ existing'[c] = existing[c]
         /\ index' = [index EXCEPT ![upload[c]] = "aborted"] /\ object' = object /\ part' = part
  BY DEF MarkAborted
<1> QED
  BY <1>1, <1>2, <1>3, <1>4, <1>5, <1>6, <1>7, <1>8, <1>9, <1>10, <1>11, Zenon

\* The types of the first state.
LEMMA MultipartTypesHold == MultipartInit => MultipartTypeOK
<1> SUFFICES ASSUME MultipartInit PROVE MultipartTypeOK
  OBVIOUS
<1>1. << >> \in [{} -> Calls]
  OBVIOUS
<1>2. << >> \in UNION {[ns -> Calls] : ns \in SUBSET PartNumbers}
  <2>1. [{} -> Calls] \in {[ns -> Calls] : ns \in SUBSET PartNumbers}
    OBVIOUS
  <2> QED
    BY <1>1, <2>1
<1>3. << >> \in Seq(Pointers)
  OBVIOUS
<1> QED
  BY <1>2, <1>3 DEF MultipartInit, MultipartTypeOK

\* Types are kept by every step.
LEMMA MultipartTypesKept ==
  ASSUME MultipartTypeOK, CallsMatch, [MultipartNext]_multipartVars
  PROVE  MultipartTypeOK'
<1>1. CASE UNCHANGED multipartVars
  BY <1>1 DEF MultipartTypeOK, multipartVars
<1>2. ASSUME NEW u \in Uploads, createMultipartUpload(u)
      PROVE  MultipartTypeOK'
  BY <1>2 DEF createMultipartUpload, MultipartTypeOK, States, args, overlaps
<1>3. ASSUME NEW c \in Calls, put(c) \/ delete(c) \/ get(c)
      PROVE  MultipartTypeOK'
  <2>1. object # Absent => object.upload \in Uploads \union {None} /\ object.numbers \in SUBSET PartNumbers
    BY DEF MultipartTypeOK, Pointers
  <2>2. Found \in Uploads \union {None}
    BY <2>1 DEF Found
  <2>3. get(c) => object # Absent
    BY DEF get, Found
  <2>4. ASSUME put(c) \/ delete(c) PROVE MultipartTypeOK'
    <3>1. existing' = [existing EXCEPT ![c] = Found] /\ existing' \in [Calls -> Uploads \union {None}]
      BY <2>2, <2>4 DEF put, delete, MultipartTypeOK
    <3>2. /\ kind' \in [Calls -> {"uploadPart", "abort", "complete", "put", "delete", "get", None}]
          /\ upload' \in [Calls -> Uploads \union {None}] /\ overlapped' \in BOOLEAN /\ contested' = contested
      BY <2>4 DEF put, delete, Start, MultipartTypeOK
    <3> QED
      BY <2>4, <3>1, <3>2 DEF put, delete, Goto, MultipartTypeOK, storage
  <2>5. ASSUME get(c) PROVE MultipartTypeOK'
    BY <2>5, <2>1, <2>2, <2>3 DEF get, Start, Goto, MultipartTypeOK, storage, overlaps
  <2> QED
    BY <1>3, <2>4, <2>5
<1>4. ASSUME NEW c \in Calls, NEW u \in Uploads, abort(c, u)
      PROVE  MultipartTypeOK'
  <2>1. <<Object(u, {})>> \in Seq(Pointers)
    BY DEF Object, Pointers
  <2> QED
    BY <1>4, <2>1 DEF abort, Start, Goto, MultipartTypeOK, storage, overlaps
<1>5. ASSUME NEW c \in Calls, NEW u \in Uploads, complete(c, u)
      PROVE  MultipartTypeOK'
  <2>1. PICK ns \in SUBSET PartNumbers :
          /\ uses' = [uses EXCEPT ![c] = ns] /\ todo' = [todo EXCEPT ![c] = ns]
          /\ etags' \in {[etags EXCEPT ![c] = f] : f \in {f \in [ns -> Calls] :
                            \A n \in ns : f[n] \in Uploaded(u, n)}}
    BY <1>5, Zenon DEF complete
  <2>2. PICK f \in [ns -> Calls] : etags' = [etags EXCEPT ![c] = f]
    BY <2>1
  <2>3. f \in UNION {[m -> Calls] : m \in SUBSET PartNumbers}
    BY <2>1, <2>2
  <2>4. etags' \in [Calls -> UNION {[m -> Calls] : m \in SUBSET PartNumbers}]
    BY <2>2, <2>3 DEF MultipartTypeOK
  <2> QED
    BY <1>5, <2>1, <2>4 DEF complete, Start, Goto, MultipartTypeOK, storage, overlaps
<1>6. ASSUME NEW c \in Calls, NEW u \in Uploads, NEW n \in PartNumbers, uploadPart(c, u, n)
      PROVE  MultipartTypeOK'
  BY <1>6 DEF uploadPart, Start, Goto, MultipartTypeOK, storage, overlaps
<1>7. ASSUME NEW c \in Calls, PutPart(c) \/ \E n \in PartNumbers : HeadPart(c, n) \/ PullPart(c, n)
      PROVE  MultipartTypeOK'
  <2>1. ASSUME PutPart(c) PROVE MultipartTypeOK'
    BY <2>1 DEF PutPart, Goto, MultipartTypeOK, storage, args, overlaps
  <2>2. ASSUME NEW n \in PartNumbers, HeadPart(c, n) PROVE MultipartTypeOK'
    <3>1. \/ todo' = [todo EXCEPT ![c] = todo[c] \ {n}] /\ UNCHANGED pc
          \/ todo' = [todo EXCEPT ![c] = {}] /\ pc' = [pc EXCEPT ![c] = "threw"]
      BY <2>2 DEF HeadPart, Goto
    <3>2. todo' \in [Calls -> SUBSET PartNumbers]
      <4>1. todo \in [Calls -> SUBSET PartNumbers]
        BY DEF MultipartTypeOK
      <4>2. todo[c] \ {n} \in SUBSET PartNumbers /\ {} \in SUBSET PartNumbers
        BY <4>1
      <4>3. PICK left \in SUBSET PartNumbers : todo' = [todo EXCEPT ![c] = left]
        BY <3>1, <4>2
      <4> QED
        BY <4>1, <4>3
    <3>3. pc' \in [Calls -> {"idle", "putPart", "headParts", "put", "putObject", "putIndex", "stream",
                            "list", "deleteParts", "markAborted", "returned", "threw"}]
      BY <3>1 DEF MultipartTypeOK
    <3>4. UNCHANGED <<storage, args, existing, cleaning, overlaps>>
      BY <2>2 DEF HeadPart
    <3> QED
      BY <3>2, <3>3, <3>4 DEF MultipartTypeOK, storage, args, overlaps
  <2>3. ASSUME NEW n \in PartNumbers, PullPart(c, n) PROVE MultipartTypeOK'
    BY <2>3 DEF PullPart, Goto, MultipartTypeOK, storage, args, overlaps
  <2> QED
    BY <1>7, <2>1, <2>2, <2>3
<1>8. ASSUME NEW c \in Calls, PutObject(c) \/ PutIndex(c) \/ Overwrite(c)
      PROVE  MultipartTypeOK'
  <2>1. kind[c] \in {"complete", "put", "delete"} /\ pc[c] # "idle"
    BY <1>8 DEF PutObject, PutIndex, Overwrite
  <2>2. kind[c] = "complete" => upload[c] \in Uploads
    BY <2>1 DEF CallsMatch, CallMatches
  <2>3. Redundant(c) \in Seq(Pointers)
    BY <2>1, <2>2, RedundantIs
  <2>4. /\ Object(upload[c], uses[c]) \in Pointers /\ Plain \in Pointers
    BY DEF MultipartTypeOK, Object, Pointers, Plain
  <2>5. cleaning' \in [Calls -> Seq(Pointers)]
    BY <1>8, <2>3 DEF PutObject, PutIndex, Overwrite, Cleanup, MultipartTypeOK
  <2>6. ASSUME PutObject(c) PROVE MultipartTypeOK'
    BY <2>6, <2>4, <2>5 DEF PutObject, Cleanup, Goto, MultipartTypeOK, args, overlaps
  <2>7. ASSUME PutIndex(c) PROVE MultipartTypeOK'
    BY <2>7, <2>5 DEF PutIndex, Cleanup, Goto, MultipartTypeOK, args, States, overlaps
  <2>8. ASSUME Overwrite(c) PROVE MultipartTypeOK'
    BY <2>8, <2>4, <2>5 DEF Overwrite, Cleanup, Goto, MultipartTypeOK, args, overlaps
  <2> QED
    BY <1>8, <2>6, <2>7, <2>8
<1>9. ASSUME NEW c \in Calls, HeadExisting(c)
      PROVE  MultipartTypeOK'
  <2>1. Found \in Uploads \union {None}
    BY DEF MultipartTypeOK, Pointers, Found
  <2> QED
    BY <1>9, <2>1 DEF HeadExisting, Goto, MultipartTypeOK, storage, args, overlaps
<1>10. ASSUME NEW c \in Calls, ListParts(c) \/ MarkAborted(c) \/ \E n \in PartNumbers : DeletePart(c, n)
       PROVE  MultipartTypeOK'
  <2>1. ASSUME ListParts(c) PROVE MultipartTypeOK'
    BY <2>1 DEF ListParts, Goto, MultipartTypeOK, storage, args, overlaps
  <2>2. ASSUME MarkAborted(c) PROVE MultipartTypeOK'
    BY <2>2 DEF MarkAborted, Goto, MultipartTypeOK, States, args, overlaps
  <2>3. ASSUME NEW n \in PartNumbers, DeletePart(c, n) PROVE MultipartTypeOK'
    BY <2>3 DEF DeletePart, Goto, MultipartTypeOK, args, overlaps
  <2> QED
    BY <1>10, <2>1, <2>2, <2>3
<1>11. ASSUME NEW c \in Calls, PartsDeleted(c)
       PROVE  MultipartTypeOK'
  <2>1. cleaning[c] # << >>
    BY <1>11 DEF PartsDeleted, CallsMatch, CallMatches, Cleaning
  <2>2. Tail(cleaning[c]) \in Seq(Pointers)
    BY <2>1 DEF MultipartTypeOK
  <2> QED
    BY <1>11, <2>2 DEF PartsDeleted, Goto, MultipartTypeOK, storage, args, overlaps
<1> QED
  BY <1>1, <1>2, <1>3, <1>4, <1>5, <1>6, <1>7, <1>8, <1>9, <1>10, <1>11 DEF MultipartNext, Continue

-----------------------------------------------------------------------------
(***************************************************************************)
(* Each part of the invariant is kept.                                     *)
(***************************************************************************)

\* The calls that a step leaves alone still match.
LEMMA AsideMatches ==
  ASSUME CallsMatch, NEW c \in Calls, Aside(c), NEW d \in Calls, d # c
  PROVE  IF pc'[d] = "idle" THEN existing'[d] = None ELSE CallMatches(d)'
<1>1. /\ pc'[d] = pc[d] /\ kind'[d] = kind[d] /\ upload'[d] = upload[d] /\ uses'[d] = uses[d]
      /\ etags'[d] = etags[d] /\ todo'[d] = todo[d] /\ existing'[d] = existing[d]
      /\ cleaning'[d] = cleaning[d]
  BY DEF Aside
<1>2. \A e : Deletes(d, e)' <=> Deletes(d, e)
  BY <1>1 DEF Deletes
<1>3. CallMatches(d)' <=> CallMatches(d)
  BY <1>1, <1>2 DEF CallMatches, Cleaning, Kept
<1> QED
  BY <1>1, <1>3 DEF CallsMatch

\* A call that goes on is one that is under way.
LEMMA GoesOn ==
  ASSUME MultipartTypeOK, NEW c \in Calls, Continue(c)
  PROVE  Goes(c) /\ Active(c)
<1>1. ASSUME \E n \in PartNumbers : HeadPart(c, n) \/ PullPart(c, n) \/ DeletePart(c, n)
      PROVE  Goes(c) /\ Active(c)
  BY <1>1, StepsAre DEF Active
<1>2. ASSUME PutObject(c) \/ PutIndex(c) \/ Overwrite(c)
      PROVE  Goes(c) /\ Active(c)
  BY <1>2, StepsAre DEF Active
<1>3. ASSUME PutPart(c) \/ HeadExisting(c) \/ ListParts(c) \/ PartsDeleted(c) \/ MarkAborted(c)
      PROVE  Goes(c) /\ Active(c)
  BY <1>3, StepsAre DEF Active
<1> QED
  BY <1>1, <1>2, <1>3, Zenon DEF Continue

\* A call's bookkeeping fits what it was called as, where it is, and what it
\* has found.
LEMMA MatchKept ==
  ASSUME MultipartTypeOK, CallsMatch, [MultipartNext]_multipartVars
  PROVE  CallsMatch'
<1>a. \A c \in Calls : Aside(c) /\ CallMatches(c)' => CallsMatch'
  BY AsideMatches DEF CallsMatch, CallMatches, Places
<1>1. CASE UNCHANGED multipartVars
  <2>1. \A c \in Calls : \A e : Deletes(c, e)' <=> Deletes(c, e)
    BY <1>1 DEF Deletes, multipartVars
  <2> QED
    BY <1>1, <2>1 DEF CallsMatch, CallMatches, Cleaning, Kept, multipartVars
<1>2. ASSUME NEW u \in Uploads, createMultipartUpload(u)
      PROVE  CallsMatch'
  <2>1. UNCHANGED <<pc, kind, upload, uses, etags, todo, existing, cleaning>>
    BY <1>2 DEF createMultipartUpload, args
  <2>2. \A c \in Calls : \A e : Deletes(c, e)' <=> Deletes(c, e)
    BY <2>1 DEF Deletes
  <2> QED
    BY <2>1, <2>2 DEF CallsMatch, CallMatches, Cleaning, Kept
<1>3. ASSUME NEW c \in Calls, put(c) \/ delete(c) \/ get(c)
      PROVE  CallsMatch'
  <2>1. Aside(c) /\ pc[c] = "idle" /\ existing[c] = None
    BY <1>3, BeginningsAre DEF Begins, CallsMatch
  <2>2. get(c) => Found \in Uploads
    BY DEF MultipartTypeOK, Pointers, get, Found
  <2>3. CallMatches(c)'
    BY <1>3, <2>1, <2>2, BeginningsAre DEF CallMatches, Places, Begins, Cleaning
  <2> QED
    BY <1>a, <2>1, <2>3
<1>4. ASSUME NEW c \in Calls, NEW u \in Uploads, abort(c, u)
      PROVE  CallsMatch'
  <2>1. Aside(c) /\ pc[c] = "idle" /\ existing[c] = None
    BY <1>4, BeginningsAre DEF Begins, CallsMatch
  <2>2. cleaning'[c] # << >> /\ \A i \in DOMAIN cleaning'[c] : cleaning'[c][i] = Object(u, {})
    BY <1>4, BeginningsAre
  <2>3. CallMatches(c)'
    BY <1>4, <2>1, <2>2, BeginningsAre DEF CallMatches, Places, Begins, Cleaning, Deletes
  <2> QED
    BY <1>a, <2>1, <2>3
<1>5. ASSUME NEW c \in Calls, NEW u \in Uploads, complete(c, u)
      PROVE  CallsMatch'
  <2>1. Aside(c) /\ pc[c] = "idle" /\ existing[c] = None
    BY <1>5, BeginningsAre DEF Begins, CallsMatch
  <2>2. CallMatches(c)'
    BY <1>5, <2>1, BeginningsAre DEF CallMatches, Places, Begins, Cleaning
  <2> QED
    BY <1>a, <2>1, <2>2
<1>6. ASSUME NEW c \in Calls, NEW u \in Uploads, NEW n \in PartNumbers, uploadPart(c, u, n)
      PROVE  CallsMatch'
  <2>1. Aside(c) /\ pc[c] = "idle" /\ existing[c] = None
    BY <1>6, BeginningsAre DEF Begins, CallsMatch
  <2>2. CallMatches(c)'
    BY <1>6, <2>1, BeginningsAre DEF CallMatches, Places, Begins, Cleaning
  <2> QED
    BY <1>a, <2>1, <2>2
<1>7. ASSUME NEW c \in Calls, Continue(c)
      PROVE  CallsMatch'
  <2>1. Goes(c) /\ pc[c] # "idle"
    BY <1>7, GoesOn DEF Active
  <2>2. CallMatches(c)
    BY <2>1 DEF CallsMatch
  <2>4. ASSUME PutPart(c) \/ HeadExisting(c) \/ MarkAborted(c)
        PROVE  CallMatches(c)'
    BY <2>1, <2>2, <2>4, StepsAre DEF CallMatches, Places, Goes, Cleaning
  <2>5. ASSUME NEW n \in PartNumbers, HeadPart(c, n) \/ PullPart(c, n)
        PROVE  CallMatches(c)'
    BY <2>1, <2>2, <2>5, StepsAre DEF CallMatches, Places, Goes, Cleaning
  <2>6. ASSUME CleansUp(c), kind[c] \in {"complete", "put", "delete"}, existing'[c] = existing[c]
        PROVE  CallMatches(c)'
    <3>1. kind[c] = "complete" => upload[c] \in Uploads
      BY <2>2 DEF CallMatches
    <3>2. \A i \in DOMAIN Redundant(c) : Deletes(c, Redundant(c)[i])
      BY <2>6, <3>1, RedundantIs
    <3>3. /\ pc'[c] \in {"returned", "list"} /\ (pc'[c] = "list" => cleaning'[c] # << >>)
          /\ (\A i \in DOMAIN cleaning[c] : Deletes(c, cleaning[c][i]))'
      BY <2>1, <2>6, <3>2 DEF CleansUp, Goes, Deletes
    <3>4. /\ kind'[c] = kind[c] /\ upload'[c] = upload[c] /\ uses'[c] = uses[c] /\ etags'[c] = etags[c]
      BY <2>1 DEF Goes
    <3> QED
      BY <2>2, <2>6, <3>3, <3>4 DEF CallMatches, Places, Cleaning
  <2>7. ASSUME PutObject(c) \/ PutIndex(c) \/ Overwrite(c)
        PROVE  CallMatches(c)'
    <3>1. /\ kind[c] \in {"complete", "put", "delete"} /\ existing'[c] = existing[c]
          /\ CleansUp(c) \/ (kind[c] = "complete" /\ pc'[c] \in {"putIndex", "putObject"})
      <4>1. CASE PutObject(c)
        BY <4>1, StepsAre
      <4>2. CASE PutIndex(c)
        BY <4>2, StepsAre
      <4>3. CASE Overwrite(c)
        BY <4>3, StepsAre
      <4> QED
        BY <2>7, <4>1, <4>2, <4>3
    <3>2. ASSUME kind[c] = "complete", pc'[c] \in {"putIndex", "putObject"}
          PROVE  CallMatches(c)'
      BY <2>1, <2>2, <3>1, <3>2 DEF CallMatches, Places, Goes, Cleaning
    <3> QED
      BY <2>6, <3>1, <3>2
  <2>8. ASSUME ListParts(c) \/ \E n \in PartNumbers : DeletePart(c, n)
        PROVE  CallMatches(c)'
    <3>1. /\ Goes(c) /\ existing'[c] = existing[c] /\ cleaning'[c] = cleaning[c] /\ Cleaning(c)
          /\ pc'[c] = "deleteParts" /\ (pc[c] = "deleteParts" => todo'[c] \subseteq todo[c])
          /\ pc[c] = "list" => todo'[c] \subseteq PartNumbers \ Kept(c)
      BY <2>8, StepsAre DEF Cleaning
    <3>2. todo'[c] \subseteq PartNumbers \ Kept(c)' /\ Kept(c)' = Kept(c)
      BY <2>2, <3>1 DEF CallMatches, Kept, Cleaning
    <3>3. (\A i \in DOMAIN cleaning[c] : Deletes(c, cleaning[c][i]))'
      BY <2>2, <3>1 DEF CallMatches, Goes, Deletes
    <3> QED
      BY <2>2, <3>1, <3>2, <3>3 DEF CallMatches, Places, Goes, Cleaning
  <2>9. ASSUME PartsDeleted(c)
        PROVE  CallMatches(c)'
    <3>1. /\ cleaning[c] # << >> /\ cleaning[c] \in Seq(Pointers)
          /\ \A i \in DOMAIN cleaning[c] : Deletes(c, cleaning[c][i])
      BY <2>2, <2>9, StepsAre DEF CallMatches, Cleaning, MultipartTypeOK
    <3>2. \A i \in DOMAIN Tail(cleaning[c]) :
             i + 1 \in DOMAIN cleaning[c] /\ Tail(cleaning[c])[i] = cleaning[c][i + 1]
      BY <3>1
    <3>3. (\A i \in DOMAIN cleaning[c] : Deletes(c, cleaning[c][i]))'
      <4>1. cleaning'[c] = Tail(cleaning[c]) /\ existing'[c] = existing[c]
        BY <2>9, StepsAre
      <4> QED
        BY <2>1, <3>1, <3>2, <4>1 DEF Goes, Deletes
    <3> QED
      BY <2>1, <2>2, <2>9, <3>3, StepsAre DEF CallMatches, Places, Goes, Cleaning
  <2>10. CallMatches(c)'
    BY <1>7, <2>4, <2>5, <2>7, <2>8, <2>9, Zenon DEF Continue
  <2> QED
    BY <1>a, <2>1, <2>10 DEF Goes
<1> QED
  BY <1>1, <1>2, <1>3, <1>4, <1>5, <1>6, <1>7 DEF MultipartNext

\* A call begins: which one, and what it has then.
Beginning(c) ==
  \/ put(c) \/ delete(c) \/ get(c)
  \/ \E u \in Uploads : abort(c, u) \/ complete(c, u) \/ \E n \in PartNumbers : uploadPart(c, u, n)

\* A step is one of the steps above.
LEMMA NextIs ==
  ASSUME [MultipartNext]_multipartVars
  PROVE  \/ UNCHANGED multipartVars
         \/ \E u \in Uploads : createMultipartUpload(u)
         \/ \E c \in Calls : Beginning(c)
         \/ \E c \in Calls : Continue(c)
BY DEF MultipartNext, Beginning

\* A call that begins leaves the storage and the other calls alone.
LEMMA BeginningsBegin ==
  ASSUME MultipartTypeOK, NEW c \in Calls, Beginning(c)
  PROVE  /\ Aside(c) /\ pc[c] = "idle" /\ UNCHANGED storage
         /\ overlapped' = (overlapped \/ \E d \in Calls : Active(d))
         /\ contested \subseteq contested'
         /\ \/ kind'[c] = "complete" /\ pc'[c] = "headParts" /\ complete(c, upload'[c]) /\ upload'[c] \in Uploads
            \/ kind'[c] = "abort" /\ pc'[c] = "list" /\ abort(c, upload'[c]) /\ upload'[c] \in Uploads
            \/ kind'[c] = "uploadPart" /\ pc'[c] = "putPart" /\ index[upload'[c]] = "pending"
            \/ kind'[c] = "get" /\ pc'[c] = "stream" /\ get(c)
            \/ kind'[c] \in {"put", "delete"} /\ pc'[c] = "put" /\ existing'[c] = Found
<1> USE DEF Begins
<1>1. CASE put(c) \/ delete(c) \/ get(c)
  BY <1>1, BeginningsAre
<1>2. CASE \E u \in Uploads : abort(c, u)
  BY <1>2, BeginningsAre
<1>3. CASE \E u \in Uploads : complete(c, u)
  BY <1>3, BeginningsAre
<1>4. CASE \E u \in Uploads, n \in PartNumbers : uploadPart(c, u, n)
  BY <1>4, BeginningsAre
<1> QED
  BY <1>1, <1>2, <1>3, <1>4, Zenon DEF Beginning

\* An upload stays contested.
LEMMA ContestedStays ==
  ASSUME MultipartTypeOK, CallsMatch, [MultipartNext]_multipartVars
  PROVE  /\ contested \subseteq contested'
         /\ \A u : Clear(u)' => Clear(u)
<1>1. contested \subseteq contested'
  <2>1. CASE UNCHANGED multipartVars \/ \E u \in Uploads : createMultipartUpload(u)
    BY <2>1 DEF multipartVars, createMultipartUpload, overlaps
  <2>2. ASSUME NEW c \in Calls, Beginning(c) PROVE contested \subseteq contested'
    BY <2>2, BeginningsBegin
  <2>3. ASSUME NEW c \in Calls, Continue(c) PROVE contested \subseteq contested'
    BY <2>3, GoesOn DEF Goes
  <2> QED
    BY <2>1, <2>2, <2>3, NextIs
<1> QED
  BY <1>1 DEF Clear

\* A second call that begins to finish an upload makes it contested.
LEMMA OneFinisherKept ==
  ASSUME MultipartTypeOK, CallsMatch, OneFinisher, [MultipartNext]_multipartVars
  PROVE  OneFinisher'
<1>0. \A u : Clear(u)' => Clear(u)
  BY ContestedStays
<1>1. CASE UNCHANGED multipartVars \/ \E u \in Uploads : createMultipartUpload(u)
  BY <1>1 DEF OneFinisher, Finishing, Active, Clear, multipartVars, createMultipartUpload, args, overlaps
<1>2. ASSUME NEW c \in Calls, Beginning(c)
      PROVE  OneFinisher'
  <2>1. \A d \in Calls \ {c} : pc'[d] = pc[d] /\ kind'[d] = kind[d] /\ upload'[d] = upload[d]
    BY <1>2, BeginningsBegin DEF Aside
  <2>2. kind'[c] \in {"complete", "abort"} => BeginsAlone(c, upload'[c])
    BY <1>2, BeginningsBegin, BeginningsAre
  <2>3. kind'[c] \in {"complete", "abort"} /\ upload'[c] \notin contested' =>
          \A d \in Calls \ {c} : Finishing(d)' => upload'[d] # upload'[c]
    BY <2>1, <2>2 DEF BeginsAlone, Clear, Finishes, Finishing, Active
  <2> QED
    BY <1>0, <2>1, <2>3 DEF OneFinisher, Finishing, Active, Clear
<1>3. ASSUME NEW c \in Calls, Continue(c)
      PROVE  OneFinisher'
  <2>1. Goes(c) /\ Active(c)
    BY <1>3, GoesOn
  <2> QED
    BY <2>1 DEF OneFinisher, Finishing, Active, Clear, Goes, Aside
<1> QED
  BY <1>1, <1>2, <1>3, NextIs

\* The step after which a call is a completer.
LEMMA CompletersAre ==
  ASSUME MultipartTypeOK, CallsMatch, NEW c \in Calls, Continue(c)
  PROVE  /\ Completer(c)' => Completer(c) \/ HeadExisting(c)
         /\ ObjectPut(c)' => ObjectPut(c) \/ PutObject(c)
         /\ IndexPut(c)' => IndexPut(c) \/ PutIndex(c)
         /\ kind[c] = "complete" /\ pc'[c] \in {"headParts", "put", "putIndex"} =>
              pc[c] \in {"headParts", "put", "putIndex"}
<1>1. /\ Goes(c) /\ pc[c] # "idle"
      /\ pc[c] \in Places(kind[c])
  BY GoesOn DEF Active, CallsMatch, CallMatches
<1>2. ASSUME \E n \in PartNumbers : HeadPart(c, n) \/ PullPart(c, n) \/ DeletePart(c, n)
      PROVE  /\ Completer(c)' => Completer(c)
             /\ ObjectPut(c)' => ObjectPut(c)
             /\ IndexPut(c)' => IndexPut(c)
             /\ kind[c] = "complete" /\ pc'[c] \in {"headParts", "put", "putIndex"} =>
                  pc[c] \in {"headParts", "put", "putIndex"}
  BY <1>1, <1>2, StepsAre DEF Completer, ObjectPut, IndexPut, Goes, Places
<1>3. ASSUME PutObject(c) \/ PutIndex(c) \/ Overwrite(c)
      PROVE  /\ Completer(c)' => Completer(c)
             /\ ObjectPut(c)' => ObjectPut(c) \/ PutObject(c)
             /\ IndexPut(c)' => IndexPut(c) \/ PutIndex(c)
             /\ kind[c] = "complete" /\ pc'[c] \in {"headParts", "put", "putIndex"} =>
                  pc[c] \in {"headParts", "put", "putIndex"}
  BY <1>1, <1>3, StepsAre DEF Completer, ObjectPut, IndexPut, Goes, Places, CleansUp
<1>4. ASSUME PutPart(c) \/ ListParts(c) \/ PartsDeleted(c) \/ MarkAborted(c)
      PROVE  /\ Completer(c)' => Completer(c)
             /\ ObjectPut(c)' => ObjectPut(c)
             /\ IndexPut(c)' => IndexPut(c)
             /\ kind[c] = "complete" /\ pc'[c] \in {"headParts", "put", "putIndex"} =>
                  pc[c] \in {"headParts", "put", "putIndex"}
  BY <1>1, <1>4, StepsAre DEF Completer, ObjectPut, IndexPut, Goes, Places
<1>5. ASSUME HeadExisting(c)
      PROVE  /\ ~ ObjectPut(c)'
             /\ ~ IndexPut(c)'
             /\ pc[c] \in {"headParts", "put", "putIndex"}
  BY <1>1, <1>5, StepsAre DEF ObjectPut, IndexPut
<1> QED
  BY <1>2, <1>3, <1>4, <1>5, Zenon DEF Continue

\* The index follows the one call that finishes its upload.
LEMMA IndexFollowsKept ==
  ASSUME MultipartTypeOK, CallsMatch, OneFinisher, IndexFollows, [MultipartNext]_multipartVars
  PROVE  IndexFollows'
<1>c. contested \subseteq contested'
  BY ContestedStays
<1>0. \A c \in Calls : kind[c] \in {"complete", "abort"} /\ pc[c] # "idle" => upload[c] \in Uploads
  BY DEF CallsMatch, CallMatches
<1>1. CASE UNCHANGED multipartVars
  BY <1>1 DEF Clear, IndexFollows, IndexPut, Completer, Active, multipartVars
<1>2. ASSUME NEW u \in Uploads, createMultipartUpload(u)
      PROVE  IndexFollows'
  <2>1. /\ UNCHANGED <<pc, kind, upload>> /\ index[u] = Absent
        /\ \A v \in Uploads : v # u => index'[v] = index[v]
    BY <1>2 DEF createMultipartUpload, args, MultipartTypeOK
  <2>2. Absent # "pending" /\ Absent # "completed"
    BY AbsentIsNoValue DEF States
  <2> QED
    BY <1>0, <1>c, <2>1, <2>2 DEF Clear, IndexFollows, IndexPut, Completer, Active
<1>3. ASSUME NEW c \in Calls, Beginning(c)
      PROVE  IndexFollows'
  <2>1. /\ index' = index
        /\ \A d \in Calls \ {c} : pc'[d] = pc[d] /\ kind'[d] = kind[d] /\ upload'[d] = upload[d]
    BY <1>3, BeginningsBegin DEF Aside, storage
  <2>2. /\ kind'[c] \in {"complete", "abort"} => index[upload'[c]] = "pending"
        /\ kind'[c] = "complete" => pc'[c] = "headParts"
    BY <1>3, BeginningsBegin, BeginningsAre
  <2> QED
    BY <1>c, <2>1, <2>2 DEF Clear, IndexFollows, IndexPut, Completer, Active
<1>4. ASSUME NEW c \in Calls, Continue(c)
      PROVE  IndexFollows'
  <2>1. /\ Active(c) /\ \A d \in Calls : kind'[d] = kind[d] /\ upload'[d] = upload[d]
        /\ \A d \in Calls \ {c} : pc'[d] = pc[d]
    BY <1>4, GoesOn DEF Goes, Aside
  <2>2. \A d \in Calls \ {c} :
          /\ Completer(d)' <=> Completer(d)
          /\ IndexPut(d)' <=> IndexPut(d)
          /\ Active(d)' <=> Active(d)
    BY <2>1 DEF Completer, IndexPut, Active
  <2>3. CASE PutIndex(c)
    <3>1. /\ kind[c] = "complete" /\ index' = [index EXCEPT ![upload[c]] = "completed"]
          /\ pc'[c] \notin {"headParts", "put", "putIndex"} /\ upload[c] \in Uploads
      BY <1>0, <1>c, <2>1, <2>3, StepsAre DEF CleansUp, Active
    <3>2. /\ index'[upload[c]] = "completed"
          /\ \A v \in Uploads : v # upload[c] => index'[v] = index[v]
      BY <3>1 DEF MultipartTypeOK
    <3>3. Clear(upload[c]) => \A d \in Calls \ {c} : upload[d] = upload[c] => ~ Finishing(d)
      BY <2>1, <3>1 DEF Clear, OneFinisher, Finishing
    <3> QED
      BY <1>0, <1>c, <2>1, <2>2, <3>1, <3>2, <3>3
      DEF Clear, IndexFollows, IndexPut, Completer, Finishing, Active
  <2>4. CASE MarkAborted(c)
    <3>1. /\ kind[c] = "abort" /\ pc'[c] = "returned"
          /\ index' = [index EXCEPT ![upload[c]] = "aborted"]
      BY <2>4, StepsAre DEF CallsMatch, CallMatches, Places
    <3>2. /\ upload[c] \in Uploads
          /\ \A v \in Uploads : v # upload[c] => index'[v] = index[v]
      BY <1>0, <1>c, <2>1, <3>1 DEF MultipartTypeOK, IndexFollows, Active
    <3>3. Clear(upload[c]) => \A d \in Calls \ {c} : upload[d] = upload[c] => ~ Finishing(d)
      BY <2>1, <3>1 DEF Clear, OneFinisher, Finishing
    <3> QED
      BY <1>0, <1>c, <2>1, <2>2, <3>1, <3>2, <3>3
      DEF Clear, IndexFollows, IndexPut, Completer, Finishing, Active
  <2>5. CASE ~ PutIndex(c) /\ ~ MarkAborted(c)
    <3>1. index' = index
      BY <1>4, <2>5, StepsAre DEF Continue, storage
    <3>2. IndexPut(c)' => IndexPut(c)
      BY <1>4, <2>5, CompletersAre
    <3>3. kind[c] = "complete" /\ pc'[c] \in {"headParts", "put", "putIndex"} =>
            pc[c] \in {"headParts", "put", "putIndex"}
      BY <1>4, CompletersAre
    <3> HIDE <1>4, <2>5
    <3> QED
      BY <1>c, <2>1, <2>2, <3>1, <3>2, <3>3 DEF Clear, IndexFollows, IndexPut, Completer, Active
  <2> QED
    BY <2>3, <2>4, <2>5
<1> QED
  BY <1>1, <1>2, <1>3, <1>4, NextIs

\* An upload is completed by at most one call.
LEMMA OneCompleterKept ==
  ASSUME MultipartTypeOK, CallsMatch, OneFinisher, IndexFollows, OneCompleter,
         [MultipartNext]_multipartVars
  PROVE  OneCompleter'
<1>c. contested \subseteq contested'
  BY ContestedStays
<1>1. CASE UNCHANGED multipartVars \/ \E u \in Uploads : createMultipartUpload(u)
  BY <1>c, <1>1 DEF Clear, OneCompleter, Completer, multipartVars, createMultipartUpload, args
<1>2. ASSUME NEW c \in Calls, Beginning(c)
      PROVE  OneCompleter'
  <2>1. \A d \in Calls \ {c} : pc'[d] = pc[d] /\ kind'[d] = kind[d] /\ upload'[d] = upload[d]
    BY <1>2, BeginningsBegin DEF Aside
  <2>2. ~ Completer(c)'
    BY <1>2, BeginningsBegin DEF Completer
  <2> QED
    BY <1>c, <2>1, <2>2 DEF Clear, OneCompleter, Completer
<1>3. ASSUME NEW c \in Calls, Continue(c)
      PROVE  OneCompleter'
  <2>1. /\ \A d \in Calls : kind'[d] = kind[d] /\ upload'[d] = upload[d]
        /\ \A d \in Calls \ {c} : pc'[d] = pc[d]
    BY <1>3, GoesOn DEF Goes, Aside
  <2>2. CASE HeadExisting(c) /\ kind[c] = "complete"
    <3>1. pc[c] = "headParts" /\ (Clear(upload[c]) => index[upload[c]] = "pending")
      BY <2>2, StepsAre DEF IndexFollows
    <3>2. ASSUME NEW d \in Calls, Completer(d), upload[d] = upload[c], Clear(upload[c])
          PROVE  d = c
      <4>1. pc[d] # "returned"
        BY <3>1, <3>2 DEF IndexFollows, IndexPut, Completer
      <4> QED
        BY <2>2, <3>1, <3>2, <4>1 DEF OneFinisher, Finishing, Active, Completer
    <3> QED
      BY <1>c, <2>1, <3>2 DEF Clear, OneCompleter, Completer
  <2>3. CASE ~ (HeadExisting(c) /\ kind[c] = "complete")
    <3>1. Completer(c)' => Completer(c)
      BY <1>3, <2>1, <2>3, CompletersAre DEF Completer
    <3> QED
      BY <1>c, <2>1, <3>1 DEF Clear, OneCompleter, Completer
  <2> QED
    BY <2>2, <2>3
<1> QED
  BY <1>1, <1>2, <1>3, NextIs

\* An upload that was completed stays so.
LEMMA CompletedStays ==
  ASSUME MultipartTypeOK, CallsMatch, [MultipartNext]_multipartVars, NEW c \in Calls, ObjectPut(c)
  PROVE  ObjectPut(c)' /\ upload'[c] = upload[c] /\ uses'[c] = uses[c]
<1>1. CASE UNCHANGED multipartVars \/ \E u \in Uploads : createMultipartUpload(u)
  BY <1>1 DEF ObjectPut, Completer, multipartVars, createMultipartUpload, args
<1>2. ASSUME NEW d \in Calls, Beginning(d)
      PROVE  ObjectPut(c)' /\ upload'[c] = upload[c] /\ uses'[c] = uses[c]
  <2>1. d # c
    BY <1>2, BeginningsBegin DEF ObjectPut, Completer
  <2> QED
    BY <1>2, <2>1, BeginningsBegin DEF ObjectPut, Completer, Aside
<1>3. ASSUME NEW d \in Calls, Continue(d)
      PROVE  ObjectPut(c)' /\ upload'[c] = upload[c] /\ uses'[c] = uses[c]
  <2>1. Goes(d)
    BY <1>3, GoesOn
  <2>2. CASE d # c
    BY <2>1, <2>2 DEF Goes, Aside, ObjectPut, Completer
  <2>3. CASE d = c
    <3>1. kind'[c] = "complete" /\ kind[c] = "complete" /\ upload'[c] = upload[c] /\ uses'[c] = uses[c]
      BY <2>1, <2>3 DEF Goes, ObjectPut, Completer
    <3>2. ASSUME \E n \in PartNumbers : HeadPart(c, n) \/ PullPart(c, n) \/ DeletePart(c, n)
          PROVE  pc'[c] \in {"putIndex", "list", "deleteParts", "returned"}
      BY <3>2, StepsAre DEF ObjectPut, Completer
    <3>3. ASSUME PutObject(c) \/ PutIndex(c) \/ Overwrite(c)
          PROVE  pc'[c] \in {"putIndex", "list", "deleteParts", "returned"}
      BY <3>3, StepsAre DEF ObjectPut, Completer, CleansUp
    <3>4. ASSUME PutPart(c) \/ HeadExisting(c) \/ ListParts(c) \/ PartsDeleted(c) \/ MarkAborted(c)
          PROVE  pc'[c] \in {"putIndex", "list", "deleteParts", "returned"}
      BY <3>1, <3>4, StepsAre DEF ObjectPut, Completer
    <3> QED
      BY <1>3, <2>3, <3>1, <3>2, <3>3, <3>4 DEF Continue, ObjectPut, Completer
  <2> QED
    BY <2>2, <2>3
<1> QED
  BY <1>1, <1>2, <1>3, NextIs

\* How a step changes the object, and what calls have found.
LEMMA ObjectChanges ==
  ASSUME MultipartTypeOK, CallsMatch, [MultipartNext]_multipartVars
  PROVE  /\ \/ object' = object
            \/ object' \in {Plain, Absent}
            \/ \E d \in Calls : PutObject(d) /\ object' = Object(upload[d], uses[d])
         /\ \A c \in Calls : existing'[c] \in {existing[c], Found}
         /\ \A c \in Calls :
              kind'[c] = "get" /\ pc'[c] # "idle" =>
                \/ kind[c] = "get" /\ pc[c] # "idle" /\ upload'[c] = upload[c] /\ uses'[c] = uses[c]
                \/ upload'[c] = Found /\ Found # None /\ uses'[c] = object.numbers
<1> DEFINE Reads(c) ==
      kind'[c] = "get" /\ pc'[c] # "idle" =>
        \/ kind[c] = "get" /\ pc[c] # "idle" /\ upload'[c] = upload[c] /\ uses'[c] = uses[c]
        \/ upload'[c] = Found /\ Found # None /\ uses'[c] = object.numbers
      Changes ==
        \/ object' = object
        \/ object' \in {Plain, Absent}
        \/ \E d \in Calls : PutObject(d) /\ object' = Object(upload[d], uses[d])
<1>1. CASE UNCHANGED multipartVars \/ \E u \in Uploads : createMultipartUpload(u)
  BY <1>1 DEF multipartVars, createMultipartUpload, args
<1>2. ASSUME NEW c \in Calls, Beginning(c)
      PROVE  Changes /\ \A d \in Calls : existing'[d] \in {existing[d], Found} /\ Reads(d)
  <2>1. Aside(c) /\ object' = object /\ existing'[c] \in {existing[c], Found}
    <3>1. Aside(c) /\ object' = object
      BY <1>2, BeginningsBegin DEF storage
    <3>2. existing'[c] \in {existing[c], Found}
      BY <1>2, BeginningsAre DEF Beginning
    <3> QED
      BY <3>1, <3>2
  <2>2. Reads(c)
    BY <1>2, BeginningsBegin, BeginningsAre DEF Begins
  <2> QED
    BY <2>1, <2>2 DEF Aside
<1>3. ASSUME NEW c \in Calls, Continue(c)
      PROVE  Changes /\ \A d \in Calls : existing'[d] \in {existing[d], Found} /\ Reads(d)
  <2>1. Goes(c) /\ Active(c)
    BY <1>3, GoesOn
  <2>2. existing'[c] \in {existing[c], Found}
    BY <1>3, StepsAre DEF Continue
  <2>3. Changes
    BY <1>3, StepsAre DEF Continue, storage
  <2>4. \A d \in Calls : existing'[d] \in {existing[d], Found} /\ Reads(d)
    BY <2>1, <2>2 DEF Goes, Aside, Active
  <2> QED
    BY <2>3, <2>4
<1> HIDE DEF Changes
<1> QED
  BY <1>1, <1>2, <1>3, NextIs DEF Changes

\* The object and what calls have found are of completed uploads.
LEMMA ObjectsCompletedKept ==
  ASSUME MultipartTypeOK, CallsMatch, ObjectsCompleted, [MultipartNext]_multipartVars
  PROVE  ObjectsCompleted'
<1>1. \A u, ns : Completed(u, ns) =>
        \E c \in Calls : ObjectPut(c)' /\ upload'[c] = u /\ uses'[c] = ns
  BY CompletedStays DEF Completed
<1>2. Found # None => /\ object # Absent /\ object.upload = Found
                      /\ Completed(object.upload, object.numbers)
  BY DEF Found, ObjectsCompleted
<1>3. \A d \in Calls : PutObject(d) =>
        ObjectPut(d)' /\ upload'[d] = upload[d] /\ uses'[d] = uses[d] /\ upload[d] \in Uploads
  BY StepsAre, RedundantIs DEF ObjectPut, Completer, Goes, CleansUp, CallsMatch, CallMatches
<1>4. (object # Absent =>
         IF object.upload = None THEN object.numbers = {} ELSE Completed(object.upload, object.numbers))'
  <2>1. CASE object' = object
    BY <1>1, <2>1 DEF ObjectsCompleted, Completed
  <2>2. CASE object' \in {Plain, Absent}
    BY <2>2 DEF Plain, Object
  <2>3. CASE \E d \in Calls : PutObject(d) /\ object' = Object(upload[d], uses[d])
    BY <1>3, <2>3, NoneIsNoUpload DEF Object, Completed
  <2> QED
    BY <2>1, <2>2, <2>3, ObjectChanges
<1>5. ASSUME NEW c \in Calls, existing'[c] # None
      PROVE  \E d, e \in Calls : ObjectPut(d)' /\ upload'[d] = existing'[c] /\ uses'[d] = uses'[e]
  <2>1. PICK d \in Calls : ObjectPut(d) /\ upload[d] = existing'[c]
    BY <1>2, <1>5, ObjectChanges DEF ObjectsCompleted, Completed
  <2> QED
    BY <2>1, CompletedStays
<1>6. ASSUME NEW c \in Calls, kind'[c] = "get", pc'[c] # "idle"
      PROVE  \E d \in Calls : ObjectPut(d)' /\ upload'[d] = upload'[c] /\ uses'[d] = uses'[c]
  <2>1. Completed(upload'[c], uses'[c])
    BY <1>2, <1>6, ObjectChanges DEF ObjectsCompleted, Completed
  <2>2. PICK d \in Calls : ObjectPut(d) /\ upload[d] = upload'[c] /\ uses[d] = uses'[c]
    BY <2>1 DEF Completed
  <2> QED
    BY <2>2, CompletedStays
<1> QED
  BY <1>4, <1>5, <1>6 DEF ObjectsCompleted, Completed

\* An upload whose object has been written is not written again.
LEMMA NotPutAgain ==
  ASSUME OneCompleter, NEW u, Clear(u), NEW ns, Completed(u, ns),
         NEW c \in Calls, kind[c] = "complete", pc[c] \in {"put", "putObject"}
  PROVE  upload[c] # u
BY DEF OneCompleter, Completed, ObjectPut, Completer

\* A call that is still looking for its parts, or writing, completes an upload
\* that no call has completed.
LEMMA NotYetCompleted ==
  ASSUME OneFinisher, IndexFollows, OneCompleter, NEW u, Clear(u), NEW ns, Completed(u, ns),
         NEW c \in Calls, kind[c] = "complete", pc[c] \in {"headParts", "put", "putObject"}
  PROVE  upload[c] # u
<1>1. PICK d \in Calls : ObjectPut(d) /\ upload[d] = u
  BY DEF Completed
<1>2. CASE pc[c] = "headParts"
  <2>1. SUFFICES ASSUME upload[c] = u PROVE FALSE
    OBVIOUS
  <2>2. index[u] = "pending"
    BY <1>2, <2>1 DEF IndexFollows
  <2>3. CASE pc[d] = "returned"
    BY <1>1, <2>2, <2>3 DEF IndexFollows, ObjectPut, IndexPut, Completer
  <2>4. CASE pc[d] # "returned"
    <3>1. Finishing(d) /\ Finishing(c)
      BY <1>1, <1>2, <2>4 DEF Finishing, Active, ObjectPut, Completer
    <3> QED
      BY <1>1, <1>2, <2>1, <3>1 DEF OneFinisher, ObjectPut, Completer
  <2> QED
    BY <2>3, <2>4
<1> QED
  BY <1>2, NotPutAgain

\* Deleting a part takes none that a call has found for the object that it is
\* about to write, and none that the object points to.
LEMMA DeletionHarmless ==
  ASSUME MultipartTypeOK, CallsMatch, OneFinisher, IndexFollows, OneCompleter, ObjectsCompleted,
         FoundReplaced, NEW d \in Calls, NEW m \in PartNumbers, DeletePart(d, m),
         Clear(Target(d))
  PROVE  /\ \A c \in Calls :
              /\ kind[c] = "complete" /\ pc[c] \in {"headParts", "put", "putObject"}
              /\ m \in uses[c]
              => upload[c] # Target(d)
         /\ object # Absent /\ m \in object.numbers => object.upload # Target(d)
<1> DEFINE e == Head(cleaning[d])
<1>1. /\ pc[d] = "deleteParts" /\ m \notin e.numbers /\ Deletes(d, e) /\ Active(d)
  <2>1. /\ pc[d] = "deleteParts" /\ m \in todo[d] /\ cleaning[d] # << >>
        /\ todo[d] \subseteq PartNumbers \ Kept(d)
        /\ \A i \in DOMAIN cleaning[d] : Deletes(d, cleaning[d][i])
    BY StepsAre DEF CallsMatch, CallMatches, Cleaning
  <2>2. e = cleaning[d][1] /\ 1 \in DOMAIN cleaning[d]
    BY <2>1 DEF MultipartTypeOK
  <2> HIDE DEF e
  <2> QED
    BY <2>1, <2>2 DEF Kept, e, Active
<1>2. e.upload = Target(d)
  BY DEF Target
<1> HIDE DEF e
<1>3. object # Absent /\ object.numbers # {} => Completed(object.upload, object.numbers)
  BY DEF ObjectsCompleted
<1>4. CASE kind[d] = "abort" /\ e = Object(upload[d], {})
  <2>1. upload[d] = Target(d) /\ index[Target(d)] = "pending" /\ Finishing(d)
    BY <1>1, <1>2, <1>4 DEF Object, IndexFollows, Finishing
  <2>2. \A c \in Calls : ObjectPut(c) => upload[c] # Target(d)
    BY <1>4, <2>1 DEF ObjectPut, Completer, IndexFollows, IndexPut, OneFinisher, Finishing, Active
  <2>3. \A c \in Calls : kind[c] = "complete" /\ pc[c] \in {"headParts", "put", "putObject"} =>
                           upload[c] # Target(d)
    BY <1>4, <2>1 DEF OneFinisher, Finishing, Active
  <2> QED
    BY <1>3, <2>2, <2>3 DEF Completed
<1>5. CASE kind[d] = "complete" /\ e = Object(upload[d], uses[d])
  <2>1. upload[d] = Target(d) /\ m \notin uses[d] /\ Completer(d) /\ Finishing(d)
    BY <1>1, <1>2, <1>5 DEF Object, Completer, Finishing
  <2>2. \A c \in Calls : kind[c] = "complete" /\ pc[c] \in {"headParts", "put", "putObject"} =>
                           upload[c] # Target(d)
    BY <1>1, <2>1 DEF OneFinisher, Finishing, Active
  <2>3. \A ns : Completed(Target(d), ns) => ns = uses[d]
    BY <2>1 DEF Completed, ObjectPut, OneCompleter
  <2> QED
    BY <1>3, <2>1, <2>2, <2>3
<1>6. CASE existing[d] # None /\ e = Object(existing[d], {})
  <2>1. Target(d) = existing[d] /\ Cleaning(d)
    BY <1>1, <1>2, <1>6 DEF Object, Cleaning
  <2>2. PICK ns : Completed(Target(d), ns)
    BY <1>6, <2>1 DEF ObjectsCompleted
  <2>3. \A c \in Calls : kind[c] = "complete" /\ pc[c] \in {"headParts", "put", "putObject"} =>
                           upload[c] # Target(d)
    BY <2>2, NotYetCompleted
  <2>4. object # Absent => object.upload # Target(d)
    BY <1>6, <2>1 DEF FoundReplaced, Replaced
  <2> QED
    BY <2>3, <2>4
<1> QED
  BY <1>1, <1>4, <1>5, <1>6 DEF Deletes

\* How a step changes the parts.
LEMMA PartsChange ==
  ASSUME MultipartTypeOK, [MultipartNext]_multipartVars
  PROVE  \/ \A u \in Uploads, n \in PartNumbers :
              part[u][n] # Absent => part'[u][n] # Absent
         \/ \E d \in Calls, m \in PartNumbers :
              /\ DeletePart(d, m)
              /\ \A u \in Uploads, n \in PartNumbers :
                   part'[u][n] = IF u = Target(d) /\ n = m THEN Absent ELSE part[u][n]
<1>1. CASE part' = part
  BY <1>1
<1>2. ASSUME NEW c \in Calls, PutPart(c)
      PROVE  \A u \in Uploads, n \in PartNumbers : part[u][n] # Absent => part'[u][n] # Absent
  BY <1>2, StepsAre, AbsentIsNoValue
<1>3. ASSUME NEW d \in Calls, NEW m \in PartNumbers, DeletePart(d, m)
      PROVE  \A u \in Uploads, n \in PartNumbers :
               part'[u][n] = IF u = Target(d) /\ n = m THEN Absent ELSE part[u][n]
  BY <1>3, StepsAre
<1>4. ASSUME \A c \in Calls : ~ PutPart(c) /\ \A n \in PartNumbers : ~ DeletePart(c, n)
      PROVE  part' = part
  <2>1. ASSUME NEW c \in Calls, Continue(c)
        PROVE  part' = part
    BY <1>4, <2>1, StepsAre DEF Continue, storage
  <2>2. ASSUME NEW c \in Calls, Beginning(c)
        PROVE  part' = part
    BY <2>2, BeginningsBegin DEF storage
  <2>3. ASSUME UNCHANGED multipartVars \/ \E u \in Uploads : createMultipartUpload(u)
        PROVE  part' = part
    BY <2>3 DEF multipartVars, createMultipartUpload
  <2> QED
    BY <2>1, <2>2, <2>3, NextIs
<1> QED
  BY <1>1, <1>2, <1>3, <1>4

\* Call c has seen that part n is there, and has not written its object.
HasFound(c, n) ==
  /\ n \in uses[c] /\ kind[c] = "complete"
  /\ \/ pc[c] = "headParts" /\ n \notin todo[c]
     \/ pc[c] \in {"put", "putObject"}

\* A part counts as found once it is there with the etag that was given.
LEMMA FoundParts ==
  ASSUME MultipartTypeOK, CallsMatch, PartsFound, [MultipartNext]_multipartVars,
         NEW c \in Calls, NEW n, HasFound(c, n)', Clear(upload'[c])
  PROVE  part[upload'[c]][n] # Absent
<1>0. \A d \in Calls : HasFound(d, n) /\ Clear(upload[d]) => part[upload[d]][n] # Absent
  BY DEF PartsFound, HasFound
<1>1. CASE UNCHANGED multipartVars \/ \E u \in Uploads : createMultipartUpload(u)
  BY <1>0, <1>1 DEF HasFound, multipartVars, createMultipartUpload, args
<1>2. ASSUME NEW d \in Calls, Beginning(d)
      PROVE  part[upload'[c]][n] # Absent
  <2>1. Aside(d) /\ (kind'[d] = "complete" => pc'[d] = "headParts" /\ todo'[d] = uses'[d])
    BY <1>2, BeginningsBegin, BeginningsAre
  <2> QED
    BY <1>0, <2>1 DEF HasFound, Aside
<1>3. ASSUME NEW d \in Calls, Continue(d)
      PROVE  part[upload'[c]][n] # Absent
  <2>1. Goes(d) /\ pc[d] \in Places(kind[d])
    BY <1>3, GoesOn DEF CallsMatch, CallMatches, Active
  <2>2. CASE d # c
    BY <1>0, <2>1, <2>2 DEF HasFound, Goes, Aside
  <2>3. CASE d = c
    <3>1. /\ kind[c] = "complete" /\ upload'[c] = upload[c] /\ uses'[c] = uses[c] /\ n \in uses[c]
          /\ \/ pc'[c] = "headParts" /\ n \notin todo'[c]
             \/ pc'[c] \in {"put", "putObject"}
      BY <2>1, <2>3 DEF Goes, HasFound
    <3>2. etags[c] \in [uses[c] -> Calls]
      BY <2>1, <2>3, <3>1 DEF CallsMatch, CallMatches, Places
    <3>3. ASSUME NEW m \in PartNumbers, HeadPart(c, m)
          PROVE  part[upload[c]][n] # Absent
      <4>1. /\ pc[c] = "headParts" /\ pc'[c] = "headParts" /\ todo'[c] = todo[c] \ {m}
            /\ part[upload[c]][m] = etags[c][m]
        BY <3>1, <3>3, StepsAre
      <4>2. CASE n = m
        BY <3>1, <3>2, <4>1, <4>2, AbsentIsNoValue
      <4>3. CASE n # m
        BY <1>0, <3>1, <4>1, <4>3 DEF HasFound
      <4> QED
        BY <4>2, <4>3
    <3>4. ASSUME HeadExisting(c)
          PROVE  HasFound(c, n)
      BY <3>1, <3>4, StepsAre DEF HasFound
    <3>5. ASSUME PutObject(c) \/ PutIndex(c) \/ Overwrite(c)
          PROVE  HasFound(c, n)
      BY <3>1, <3>5, StepsAre DEF HasFound, CleansUp
    <3>6. ASSUME \E m \in PartNumbers : PullPart(c, m) \/ DeletePart(c, m)
          PROVE  FALSE
      BY <2>1, <2>3, <3>1, <3>6, StepsAre DEF Places
    <3>7. ASSUME PutPart(c) \/ ListParts(c) \/ PartsDeleted(c) \/ MarkAborted(c)
          PROVE  FALSE
      BY <2>1, <2>3, <3>1, <3>7, StepsAre DEF Places
    <3> QED
      BY <1>0, <1>3, <2>3, <3>1, <3>3, <3>4, <3>5, <3>6, <3>7 DEF Continue
  <2> QED
    BY <2>2, <2>3
<1> QED
  BY <1>1, <1>2, <1>3, NextIs

\* Parts that were found are there until the object points to them.
LEMMA PartsFoundKept ==
  ASSUME MultipartTypeOK, CallsMatch, OneFinisher, IndexFollows, OneCompleter, ObjectsCompleted,
         FoundReplaced, PartsFound, [MultipartNext]_multipartVars
  PROVE  PartsFound'
<1> SUFFICES ASSUME NEW c \in Calls, NEW n \in uses'[c], HasFound(c, n)', upload'[c] \notin contested'
             PROVE  part'[upload'[c]][n] # Absent
  BY DEF PartsFound, HasFound, Clear
<1>c. Clear(upload'[c])
  BY ContestedStays DEF Clear
<1>1. part[upload'[c]][n] # Absent
  BY <1>c, FoundParts
<1>2. n \in PartNumbers /\ upload'[c] \in Uploads
  <2>1. CallsMatch' /\ MultipartTypeOK'
    BY MatchKept, MultipartTypesKept
  <2> QED
    BY <2>1 DEF CallsMatch, CallMatches, MultipartTypeOK, HasFound
<1>3. ASSUME NEW d \in Calls, NEW m \in PartNumbers, DeletePart(d, m),
             \A u \in Uploads, k \in PartNumbers :
               part'[u][k] = IF u = Target(d) /\ k = m THEN Absent ELSE part[u][k]
      PROVE  part'[upload'[c]][n] # Absent
  <2>1. Goes(d) /\ kind[d] = kind'[d] /\ pc'[d] = "deleteParts"
    BY <1>3, StepsAre DEF Goes
  <2>2. c # d
    BY <2>1 DEF HasFound
  <2>3. upload'[c] = upload[c] /\ HasFound(c, n)
    BY <2>1, <2>2 DEF Goes, Aside, HasFound
  <2>4. m = n => upload[c] # Target(d)
    BY <1>c, <1>3, <2>3, DeletionHarmless DEF HasFound
  <2> QED
    BY <1>1, <1>2, <1>3, <2>3, <2>4
<1> QED
  BY <1>1, <1>2, <1>3, PartsChange

\* The parts that the object points to are there.
LEMMA PointedKept ==
  ASSUME MultipartTypeOK, CallsMatch, OneFinisher, IndexFollows, OneCompleter, ObjectsCompleted,
         FoundReplaced, PartsFound, PointedPartsExist, [MultipartNext]_multipartVars
  PROVE  PointedPartsExist'
<1> SUFFICES ASSUME object' # Absent, object'.upload \notin contested', NEW n \in object'.numbers
             PROVE  part'[object'.upload][n] # Absent
  BY DEF PointedPartsExist
<1>c. Clear(object'.upload)
  BY ContestedStays DEF Clear
<1>1. object'.upload \in Uploads /\ n \in PartNumbers /\ object' \notin {Plain, Absent}
  <2>1. MultipartTypeOK' /\ ObjectsCompleted'
    BY MultipartTypesKept, ObjectsCompletedKept
  <2> QED
    BY <2>1 DEF MultipartTypeOK, Pointers, ObjectsCompleted, Plain, Object
<1>2. part[object'.upload][n] # Absent
  <2>1. CASE object' = object
    BY <1>c, <2>1 DEF PointedPartsExist, Clear
  <2>2. ASSUME NEW d \in Calls, PutObject(d), object' = Object(upload[d], uses[d])
        PROVE  part[object'.upload][n] # Absent
    <3>1. kind[d] = "complete" /\ pc[d] \in {"put", "putObject"}
      BY <2>2, StepsAre
    <3> QED
      BY <1>c, <2>2, <3>1 DEF PartsFound, Object
  <2> QED
    BY <1>1, <2>1, <2>2, ObjectChanges
<1>3. ASSUME NEW d \in Calls, NEW m \in PartNumbers, DeletePart(d, m),
             \A u \in Uploads, k \in PartNumbers :
               part'[u][k] = IF u = Target(d) /\ k = m THEN Absent ELSE part[u][k]
      PROVE  part'[object'.upload][n] # Absent
  <2>1. object' = object
    BY <1>3, StepsAre
  <2>2. n = m => object.upload # Target(d)
    BY <1>c, <1>3, <2>1, DeletionHarmless
  <2> QED
    BY <1>1, <1>2, <1>3, <2>1, <2>2
<1> QED
  BY <1>1, <1>2, <1>3, PartsChange

\* The object whose parts a call cleans up does not come back.
LEMMA FoundReplacedKept ==
  ASSUME MultipartTypeOK, CallsMatch, OneCompleter, ObjectsCompleted, FoundReplaced,
         [MultipartNext]_multipartVars
  PROVE  FoundReplaced'
<1> DEFINE Cleans(c) == pc[c] \in {"list", "deleteParts", "putIndex"}
<1> SUFFICES ASSUME NEW c \in Calls, existing'[c] # None, Cleans(c)', object' # Absent,
                    existing'[c] \notin contested'
             PROVE  object'.upload # existing'[c]
  BY DEF FoundReplaced, Replaced, Cleaning, Clear
<1>c. Clear(existing'[c])
  BY ContestedStays DEF Clear
<1>1. CASE object' \in {Plain, Absent}
  BY <1>1 DEF Plain, Object
<1>2. existing'[c] = existing[c]
  <2>1. CASE UNCHANGED multipartVars \/ \E u \in Uploads : createMultipartUpload(u)
    BY <2>1 DEF multipartVars, createMultipartUpload
  <2>2. ASSUME NEW d \in Calls, Beginning(d)
        PROVE  existing'[c] = existing[c]
    <3>1. Aside(d) /\ (pc'[d] = "list" => existing'[d] = existing[d])
      BY <2>2, BeginningsBegin, BeginningsAre
    <3>2. pc'[d] \notin {"deleteParts", "putIndex"}
      BY <2>2, BeginningsBegin
    <3> QED
      BY <3>1, <3>2 DEF Aside
  <2>3. ASSUME NEW d \in Calls, Continue(d)
        PROVE  existing'[c] = existing[c]
    <3>1. Goes(d) /\ (existing'[d] = existing[d] \/ pc'[d] = "put")
      BY <2>3, GoesOn, StepsAre DEF Continue
    <3> QED
      BY <3>1 DEF Goes, Aside
  <2> QED
    BY <2>1, <2>2, <2>3, NextIs
<1>3. ASSUME NEW d \in Calls, PutObject(d), object' = Object(upload[d], uses[d])
      PROVE  object'.upload # existing'[c]
  <2>1. PICK ns : Completed(existing[c], ns)
    BY <1>2 DEF ObjectsCompleted
  <2>2. upload[d] # existing[c]
    BY <1>c, <1>2, <1>3, <2>1, NotPutAgain, StepsAre
  <2> QED
    BY <1>2, <1>3, <2>2 DEF Object
<1>4. CASE object' = object /\ Cleans(c)
  BY <1>c, <1>2, <1>4 DEF FoundReplaced, Replaced, Cleaning
<1>5. CASE object' = object /\ ~ Cleans(c)
  <2>1. CASE UNCHANGED multipartVars \/ \E u \in Uploads : createMultipartUpload(u)
    BY <1>5, <2>1 DEF multipartVars, createMultipartUpload
  <2>2. ASSUME NEW d \in Calls, Beginning(d)
        PROVE  FALSE
    <3>1. d = c
      BY <1>5, <2>2, BeginningsBegin DEF Aside
    <3>2. abort(c, upload'[c]) /\ upload'[c] \in Uploads
      BY <2>2, <3>1, BeginningsBegin
    <3>3. existing[c] = None
      BY <2>2, <3>1, BeginningsBegin DEF CallsMatch
    <3> QED
      BY <1>2, <3>3
  <2>3. ASSUME NEW d \in Calls, Continue(d)
        PROVE  object'.upload # existing'[c]
    <3>1. d = c
      BY <1>5, <2>3, GoesOn DEF Goes, Aside
    <3>2. PutObject(c) \/ Overwrite(c) \/ pc[c] = "putIndex"
      BY <1>5, <2>3, <3>1, StepsAre DEF Continue
    <3>3. CASE Overwrite(c)
      BY <1>1, <3>3, StepsAre
    <3> QED
      BY <1>3, <1>5, <3>2, <3>3, StepsAre
  <2> QED
    BY <2>1, <2>2, <2>3, NextIs
<1> HIDE DEF Cleans
<1> QED
  BY <1>1, <1>3, <1>4, <1>5, ObjectChanges

\* Who misses a part had an object that is replaced, and stays so.
LEMMA ReadersKept ==
  ASSUME MultipartTypeOK, CallsMatch, OneCompleter, ObjectsCompleted, PointedPartsExist, ReadersServed,
         [MultipartNext]_multipartVars
  PROVE  ReadersServed'
<1> SUFFICES ASSUME NEW c \in Calls, pc'[c] = "threw", kind'[c] = "get", upload'[c] \notin contested'
             PROVE  object' # Object(upload'[c], uses'[c])
  BY DEF ReadersServed
<1>c. Clear(upload'[c])
  BY ContestedStays DEF Clear
<1>1. upload'[c] \in Uploads /\ Object(upload'[c], uses'[c]) # Absent
  <2>1. CallsMatch' /\ MultipartTypeOK'
    BY MatchKept, MultipartTypesKept
  <2>2. upload'[c] \in Uploads /\ uses'[c] \in SUBSET PartNumbers
    BY <2>1 DEF CallsMatch, CallMatches, MultipartTypeOK
  <2> QED
    BY <2>2, AbsentIsNoValue DEF Object, Pointers
<1>2. CASE object' \in {Plain, Absent}
  BY <1>1, <1>2, NoneIsNoUpload DEF Plain, Object
<1>3. /\ kind[c] = "get" /\ pc[c] # "idle" /\ upload'[c] = upload[c] /\ uses'[c] = uses[c]
      /\ pc[c] = "threw" \/ \E n \in PartNumbers : PullPart(c, n) /\ pc'[c] = "threw"
  <2>1. CASE UNCHANGED multipartVars \/ \E u \in Uploads : createMultipartUpload(u)
    BY <2>1 DEF multipartVars, createMultipartUpload, args
  <2>2. ASSUME NEW d \in Calls, Beginning(d)
        PROVE  kind[c] = "get" /\ pc[c] = "threw" /\ upload'[c] = upload[c] /\ uses'[c] = uses[c]
    BY <2>2, BeginningsBegin DEF Aside
  <2>3. ASSUME NEW d \in Calls, Continue(d), d # c
        PROVE  kind[c] = "get" /\ pc[c] = "threw" /\ upload'[c] = upload[c] /\ uses'[c] = uses[c]
    BY <2>3, GoesOn DEF Goes, Aside
  <2>4. ASSUME Continue(c)
        PROVE  /\ kind[c] = "get" /\ pc[c] # "idle" /\ upload'[c] = upload[c] /\ uses'[c] = uses[c]
               /\ \E n \in PartNumbers : PullPart(c, n) /\ pc'[c] = "threw"
    <3>1. Goes(c) /\ Active(c)
      BY <2>4, GoesOn
    <3>2. kind[c] = "get" /\ pc[c] # "idle" /\ upload'[c] = upload[c] /\ uses'[c] = uses[c]
      BY <3>1 DEF Goes, Active
    <3>3. pc[c] # "headParts"
      BY <3>2 DEF CallsMatch, CallMatches, Places
    <3>4. ~ (PutObject(c) \/ PutIndex(c) \/ Overwrite(c))
      BY <3>2 DEF PutObject, PutIndex, Overwrite
    <3>5. \E n \in PartNumbers : PullPart(c, n)
      BY <2>4, <3>3, <3>4, StepsAre DEF Continue
    <3> QED
      BY <3>2, <3>5
  <2> QED
    BY <2>1, <2>2, <2>3, <2>4, NextIs, Zenon
<1>4. CASE object' = object
  <2>1. CASE pc[c] = "threw"
    BY <1>c, <1>3, <1>4, <2>1 DEF ReadersServed, Clear
  <2>2. ASSUME NEW n \in PartNumbers, PullPart(c, n), pc'[c] = "threw"
        PROVE  object' # Object(upload'[c], uses'[c])
    <3>1. part[upload[c]][n] = Absent /\ n \in uses[c]
      BY <1>3, <2>2, StepsAre DEF CallsMatch, CallMatches
    <3> QED
      BY <1>c, <1>1, <1>3, <1>4, <3>1 DEF PointedPartsExist, Object, Clear
  <2> QED
    BY <1>3, <2>1, <2>2
<1>5. ASSUME NEW d \in Calls, PutObject(d), object' = Object(upload[d], uses[d])
      PROVE  object' # Object(upload'[c], uses'[c])
  <2>1. Completed(upload[c], uses[c])
    BY <1>3 DEF ObjectsCompleted
  <2>2. upload[d] # upload[c]
    BY <1>c, <1>3, <1>5, <2>1, NotPutAgain, StepsAre
  <2> QED
    BY <1>3, <1>5, <2>2 DEF Object
<1> QED
  BY <1>2, <1>4, <1>5, ObjectChanges

\* Part n of upload u, if it is there, is of a pending upload, is pointed to, or
\* call c has yet to deal with it.
AccountedFor(c, u, n) ==
  part[u][n] # Absent => index[u] = "pending" \/ Pointed(u, n) \/ Deals(c, u, n)

\* A call that goes on alone knows what it leaves.
LEMMA AloneLeavesLittle ==
  ASSUME MultipartTypeOK, CallsMatch, ObjectsCompleted, NEW c \in Calls, Continue(c), Knows(c),
         \A u \in Uploads, n \in PartNumbers : AccountedFor(c, u, n)
  PROVE  /\ Active(c)' => Knows(c)'
         /\ \A u \in Uploads, n \in PartNumbers :
              AccountedFor(c, u, n)' /\ (~ Active(c)' => ~ Deals(c, u, n)')
<1>0. /\ Goes(c) /\ Active(c) /\ CallMatches(c)
      /\ kind'[c] = kind[c] /\ upload'[c] = upload[c] /\ uses'[c] = uses[c]
  BY GoesOn DEF CallsMatch, Active, Goes
<1>n. ASSUME ~ Active(c)', NEW u \in Uploads, NEW n \in PartNumbers
      PROVE  ~ Deals(c, u, n)'
  BY <1>n DEF Active, Deals
<1>1. CASE PutPart(c)
  <2>1. /\ pc[c] = "putPart" /\ pc'[c] = "returned" /\ object' = object /\ index' = index
        /\ \A u \in Uploads, n \in PartNumbers :
             part'[u][n] = IF u = upload[c] /\ n \in uses[c] THEN c ELSE part[u][n]
    BY <1>1, StepsAre
  <2>2. \A u \in Uploads, n \in PartNumbers :
           part'[u][n] # Absent => index'[u] = "pending" \/ Pointed(u, n)'
    BY <2>1 DEF AccountedFor, Knows, Deals, Pointed
  <2> QED
    BY <1>n, <2>1, <2>2 DEF AccountedFor, Active
<1>2. CASE \E m \in PartNumbers : HeadPart(c, m) \/ PullPart(c, m)
  <2>1. /\ pc[c] \in {"headParts", "stream"} /\ UNCHANGED storage
        /\ pc'[c] \in {"headParts", "stream", "returned", "threw"}
    BY <1>2, StepsAre
  <2>2. Knows(c)'
    BY <2>1 DEF Knows, Cleaning
  <2>3. \A u \in Uploads, n \in PartNumbers :
           part'[u][n] # Absent => index'[u] = "pending" \/ Pointed(u, n)'
    BY <2>1 DEF AccountedFor, Deals, Pointed, storage
  <2> QED
    BY <1>n, <2>2, <2>3 DEF AccountedFor
<1>3. CASE HeadExisting(c)
  <2>1. pc[c] = "headParts" /\ UNCHANGED storage /\ pc'[c] = "put" /\ existing'[c] = Found
    BY <1>3, StepsAre
  <2>2. Knows(c)'
    BY <2>1 DEF Knows, Cleaning, Found, storage
  <2>3. \A u \in Uploads, n \in PartNumbers :
           part'[u][n] # Absent => index'[u] = "pending" \/ Pointed(u, n)'
    BY <2>1 DEF AccountedFor, Deals, Pointed, storage
  <2> QED
    BY <1>n, <2>2, <2>3 DEF AccountedFor
\* What it cleans up once it has written everything.
<1>4. ASSUME CleansUp(c), kind[c] \in {"complete", "put", "delete"}
      PROVE  \A u \in Uploads, n \in PartNumbers :
               \/ u = existing[c] /\ existing[c] # None
               \/ kind[c] = "complete" /\ u = upload[c] /\ n \notin uses[c]
               => Deals(c, u, n)'
  <2>1. kind[c] = "complete" => upload[c] \in Uploads
    BY <1>0 DEF CallMatches
  <2>2. /\ kind[c] = "complete" =>
             \E i \in DOMAIN Redundant(c) : Redundant(c)[i] = Object(upload[c], uses[c])
        /\ existing[c] # None =>
             \E i \in DOMAIN Redundant(c) : Redundant(c)[i] = Object(existing[c], {})
        /\ Redundant(c) = << >> <=> kind[c] # "complete" /\ existing[c] = None
    BY <1>4, <2>1, RedundantIs
  <2>3. cleaning'[c] = Redundant(c) /\ (Redundant(c) # << >> => pc'[c] = "list")
    BY <1>4 DEF CleansUp
  <2> QED
    BY <2>2, <2>3 DEF Deals, Object
<1>5. CASE PutObject(c)
  <2>1. /\ kind[c] = "complete" /\ object' = Object(upload[c], uses[c]) /\ index' = index
        /\ part' = part /\ existing'[c] = existing[c] /\ existing[c] = Found
        /\ \/ pc[c] = "put" /\ pc'[c] = "putIndex"
           \/ pc[c] = "putObject" /\ CleansUp(c)
    BY <1>5, StepsAre DEF Knows
  <2>2. Knows(c)'
    BY <1>0, <2>1 DEF Knows, Cleaning, CleansUp
  <2>3. object' # Absent /\ object'.upload = upload[c] /\ object'.numbers = uses[c]
    <3>1. Object(upload[c], uses[c]) # Absent
      BY AbsentIsNoValue DEF Object, Pointers, MultipartTypeOK
    <3> QED
      BY <2>1, <3>1 DEF Object
  <2>4. ASSUME NEW u \in Uploads, NEW n \in PartNumbers, part[u][n] # Absent
        PROVE  \/ index[u] = "pending"
               \/ u = existing[c] /\ existing[c] # None
               \/ pc[c] = "putObject" /\ u = upload[c]
    BY <2>1, <2>4, NoneIsNoUpload DEF AccountedFor, Deals, Pointed, Found
  <2>5. ASSUME NEW u \in Uploads, NEW n \in PartNumbers, part'[u][n] # Absent
        PROVE  index'[u] = "pending" \/ Pointed(u, n)' \/ Deals(c, u, n)'
    <3>1. CASE pc[c] = "put"
      BY <1>0, <2>1, <2>4, <2>5, <3>1 DEF Deals
    <3>2. CASE pc[c] = "putObject"
      BY <1>4, <2>1, <2>3, <2>4, <2>5, <3>2 DEF Pointed
    <3> QED
      BY <2>1, <3>1, <3>2
  <2> QED
    BY <1>n, <2>2, <2>5 DEF AccountedFor
<1>6. CASE PutIndex(c)
  <2>1. /\ kind[c] = "complete" /\ object' = object
        /\ index' = [index EXCEPT ![upload[c]] = "completed"]
        /\ part' = part /\ existing'[c] = existing[c]
        /\ \/ pc[c] = "put" /\ pc'[c] = "putObject" /\ existing[c] = Found
           \/ pc[c] = "putIndex" /\ CleansUp(c) /\ object = Object(upload[c], uses[c])
    BY <1>6, StepsAre DEF Knows
  <2>2. Knows(c)'
    BY <1>0, <2>1 DEF Knows, Cleaning, CleansUp, Found
  <2>3. pc[c] = "putIndex" => object # Absent /\ object.upload = upload[c] /\ object.numbers = uses[c]
    <3>1. Object(upload[c], uses[c]) # Absent
      BY AbsentIsNoValue DEF Object, Pointers, MultipartTypeOK
    <3> QED
      BY <2>1, <3>1 DEF Object
  <2>4. ASSUME NEW u \in Uploads, NEW n \in PartNumbers, part[u][n] # Absent
        PROVE  \/ index'[u] = "pending"
               \/ Pointed(u, n)'
               \/ u = upload[c]
               \/ pc[c] = "putIndex" /\ u = existing[c] /\ existing[c] # None
    BY <2>1, <2>4, NoneIsNoUpload DEF AccountedFor, Deals, Pointed, MultipartTypeOK
  <2>5. ASSUME NEW u \in Uploads, NEW n \in PartNumbers, part'[u][n] # Absent
        PROVE  index'[u] = "pending" \/ Pointed(u, n)' \/ Deals(c, u, n)'
    <3>1. CASE pc[c] = "put"
      BY <1>0, <2>1, <2>4, <2>5, <3>1 DEF Deals
    <3>2. CASE pc[c] = "putIndex"
      BY <1>4, <2>1, <2>3, <2>4, <2>5, <3>2 DEF Pointed
    <3> QED
      BY <2>1, <3>1, <3>2
  <2> QED
    BY <1>n, <2>2, <2>5 DEF AccountedFor
<1>7. CASE Overwrite(c)
  <2>1. /\ kind[c] \in {"put", "delete"} /\ index' = index /\ part' = part /\ existing'[c] = existing[c]
        /\ pc[c] = "put" /\ existing[c] = Found /\ CleansUp(c)
    BY <1>7, StepsAre DEF Knows
  <2>2. Knows(c)'
    BY <1>0, <2>1 DEF Knows, Cleaning, CleansUp
  <2>3. ASSUME NEW u \in Uploads, NEW n \in PartNumbers, part[u][n] # Absent
        PROVE  index[u] = "pending" \/ (u = existing[c] /\ existing[c] # None)
    BY <2>1, <2>3, NoneIsNoUpload DEF AccountedFor, Deals, Pointed, Found
  <2>4. ASSUME NEW u \in Uploads, NEW n \in PartNumbers, part'[u][n] # Absent
        PROVE  index'[u] = "pending" \/ Deals(c, u, n)'
    BY <1>4, <2>1, <2>3, <2>4
  <2> QED
    BY <1>n, <2>2, <2>4 DEF AccountedFor
<1>8. CASE ListParts(c)
  <2>1. /\ pc[c] = "list" /\ pc'[c] = "deleteParts" /\ UNCHANGED storage /\ cleaning'[c] = cleaning[c]
        /\ todo'[c] = {n \in PartNumbers \ Kept(c) : part[Target(c)][n] # Absent}
    BY <1>8, StepsAre
  <2>2. Knows(c)'
    BY <1>0, <2>1 DEF Knows, Cleaning, Kept, Target, storage
  <2>3. cleaning[c][1] = Head(cleaning[c])
    OBVIOUS
  <2>4. ASSUME NEW u \in Uploads, NEW n \in PartNumbers, part[u][n] # Absent, Deals(c, u, n)
        PROVE  Deals(c, u, n)'
    BY <2>1, <2>3, <2>4 DEF Deals, Target, Kept
  <2> QED
    BY <1>n, <2>1, <2>2, <2>4 DEF AccountedFor, Pointed, storage
<1>9. ASSUME NEW m \in PartNumbers, DeletePart(c, m)
      PROVE  /\ Knows(c)'
             /\ \A u \in Uploads, n \in PartNumbers : AccountedFor(c, u, n)'
  <2>1. /\ pc[c] = "deleteParts" /\ pc'[c] = pc[c] /\ cleaning'[c] = cleaning[c]
        /\ todo'[c] = todo[c] \ {m} /\ object' = object /\ index' = index
        /\ \A u \in Uploads, n \in PartNumbers :
             part'[u][n] = IF u = Target(c) /\ n = m THEN Absent ELSE part[u][n]
    BY <1>9, StepsAre
  <2>2. Target(c) \in Uploads
    <3>1. /\ cleaning[c] # << >> /\ \A i \in DOMAIN cleaning[c] : Deletes(c, cleaning[c][i])
          /\ cleaning[c] \in Seq(Pointers)
      BY <1>0, <2>1 DEF CallMatches, Cleaning, MultipartTypeOK
    <3>2. Deletes(c, Head(cleaning[c]))
      BY <3>1
    <3> QED
      BY <1>0, <3>2 DEF Deletes, Target, Object, CallMatches, MultipartTypeOK
  <2>3. Knows(c)'
    BY <1>0, <2>1, <2>2 DEF Knows, Cleaning, Kept, Target
  <2>4. ASSUME NEW u \in Uploads, NEW n \in PartNumbers, part'[u][n] # Absent, Deals(c, u, n)
        PROVE  Deals(c, u, n)'
    BY <2>1, <2>4 DEF Deals, Target
  <2> QED
    BY <2>1, <2>3, <2>4 DEF AccountedFor, Pointed
<1>10. CASE PartsDeleted(c)
  <2>1. /\ pc[c] = "deleteParts" /\ todo[c] = {} /\ UNCHANGED storage
        /\ cleaning'[c] = Tail(cleaning[c])
        /\ \/ pc'[c] = "list" /\ Tail(cleaning[c]) # << >>
           \/ pc'[c] = "markAborted" /\ kind[c] = "abort" /\ Tail(cleaning[c]) = << >>
           \/ pc'[c] = "returned" /\ kind[c] # "abort" /\ Tail(cleaning[c]) = << >>
    BY <1>10, StepsAre
  <2>2. /\ cleaning[c] # << >> /\ cleaning[c] \in Seq(Pointers)
    BY <1>0, <2>1 DEF CallMatches, Cleaning, MultipartTypeOK
  <2>3. kind[c] = "abort" =>
          /\ Tail(cleaning[c]) = << >> /\ Target(c) = upload[c] /\ Kept(c) = {}
    <3>1. kind[c] = "abort" => cleaning[c] = <<Object(upload[c], {})>>
      BY <2>1 DEF Knows, Cleaning
    <3>2. \A x : Tail(<<x>>) = << >> /\ Head(<<x>>) = x
      OBVIOUS
    <3>3. kind[c] = "abort" => Tail(cleaning[c]) = << >> /\ Head(cleaning[c]) = Object(upload[c], {})
      BY <3>1, <3>2, Zenon
    <3> QED
      BY <3>3 DEF Target, Kept, Object
  <2>4. Knows(c)'
    BY <1>0, <2>1, <2>3 DEF Knows, Cleaning, storage
  <2>5. ASSUME NEW u \in Uploads, NEW n \in PartNumbers, Deals(c, u, n)
        PROVE  Deals(c, u, n)'
    <3>1. PICK i \in DOMAIN cleaning[c] :
            i # 1 /\ cleaning[c][i].upload = u /\ n \notin cleaning[c][i].numbers
      BY <2>1, <2>5 DEF Deals
    <3>2. i - 1 \in DOMAIN Tail(cleaning[c]) /\ Tail(cleaning[c])[i - 1] = cleaning[c][i]
      BY <2>2, <3>1
    <3>3. Tail(cleaning[c]) # << >>
      BY <2>2, <3>2
    <3> QED
      BY <2>1, <3>1, <3>2, <3>3 DEF Deals
  <2> QED
    BY <1>n, <2>1, <2>4, <2>5 DEF AccountedFor, Pointed, storage
<1>11. CASE MarkAborted(c)
  <2>1. /\ pc[c] = "markAborted" /\ pc'[c] = "returned" /\ object' = object /\ part' = part
        /\ index' = [index EXCEPT ![upload[c]] = "aborted"]
    BY <1>11, StepsAre
  <2>2. \A u \in Uploads, n \in PartNumbers :
           part'[u][n] # Absent => index'[u] = "pending" \/ Pointed(u, n)'
    BY <2>1 DEF AccountedFor, Knows, Deals, Pointed, MultipartTypeOK
  <2> QED
    BY <1>n, <2>1, <2>2 DEF AccountedFor, Active
<1> QED
  BY <1>1, <1>2, <1>3, <1>5, <1>6, <1>7, <1>8, <1>9, <1>n, <1>10, <1>11, Zenon DEF Continue

\* While no two calls overlap, little is left.
LEMMA LittleLeftKept ==
  ASSUME MultipartTypeOK, CallsMatch, ObjectsCompleted, LittleLeft, [MultipartNext]_multipartVars
  PROVE  LittleLeft'
<1>1. CASE UNCHANGED multipartVars
  BY <1>1 DEF LittleLeft, Knows, Active, Deals, Pointed, Found, Cleaning, Target, Kept, multipartVars
<1>2. ASSUME NEW v \in Uploads, createMultipartUpload(v)
      PROVE  LittleLeft'
  <2>1. /\ UNCHANGED <<object, part, pc, kind, upload, uses, todo, existing, cleaning, overlapped>>
        /\ index[v] = Absent /\ index'[v] = "pending"
        /\ \A u \in Uploads : u # v => index'[u] = index[u]
    BY <1>2 DEF createMultipartUpload, args, overlaps, MultipartTypeOK
  <2>2. \A u \in Uploads : index[u] = "pending" => index'[u] = "pending"
    BY <2>1
  <2>3. \A c \in Calls : /\ Active(c)' <=> Active(c)
                         /\ pc[c] = "putPart" => upload[c] \in Uploads
    BY <2>1 DEF Active, CallsMatch, CallMatches, Places
  <2>4. \A c \in Calls : Knows(c) => Knows(c)'
    BY <2>1, <2>2, <2>3 DEF Knows, Found, Cleaning, Target, Kept
  <2>5. \A c \in Calls, u \in Uploads, n \in PartNumbers :
          Deals(c, u, n) => Deals(c, u, n)'
    BY <2>1 DEF Deals, Target
  <2> QED
    BY <2>1, <2>2, <2>3, <2>4, <2>5 DEF LittleLeft, Pointed
<1>3. ASSUME NEW c \in Calls, Beginning(c)
      PROVE  LittleLeft'
  <2> SUFFICES ASSUME ~ overlapped'
               PROVE  /\ \A d \in Calls : Active(d)' => Knows(d)' /\ d = c
                      /\ \A u \in Uploads, n \in PartNumbers :
                           part'[u][n] # Absent => index'[u] = "pending" \/ Pointed(u, n)'
    BY DEF LittleLeft
  <2>1. /\ Aside(c) /\ UNCHANGED storage /\ ~ overlapped /\ \A d \in Calls : ~ Active(d)
    BY <1>3, BeginningsBegin
  <2>2. \A d \in Calls : Active(d)' => d = c
    BY <2>1 DEF Aside, Active
  <2>3. Knows(c)'
    <3>1. CASE kind'[c] = "abort"
      BY <1>3, <2>1, <3>1, BeginningsBegin, BeginningsAre DEF Knows, Cleaning
    <3>2. CASE kind'[c] # "abort"
      BY <1>3, <2>1, <3>2, BeginningsBegin DEF Knows, Cleaning, Found, storage
    <3> QED
      BY <3>1, <3>2
  <2>4. \A u \in Uploads, n \in PartNumbers :
          part'[u][n] # Absent => index'[u] = "pending" \/ Pointed(u, n)'
    BY <2>1 DEF LittleLeft, Pointed, storage
  <2> QED
    BY <2>2, <2>3, <2>4
<1>4. ASSUME NEW c \in Calls, Continue(c)
      PROVE  LittleLeft'
  <2> SUFFICES ASSUME ~ overlapped'
               PROVE  /\ \A d \in Calls : Active(d)' => Knows(d)' /\ d = c
                      /\ \A u \in Uploads, n \in PartNumbers :
                           part'[u][n] # Absent =>
                             \/ index'[u] = "pending" \/ Pointed(u, n)'
                             \/ Active(c)' /\ Deals(c, u, n)'
    BY DEF LittleLeft
  <2>1. Goes(c) /\ Active(c) /\ ~ overlapped
    BY <1>4, GoesOn DEF Goes
  <2>2. Knows(c) /\ \A d \in Calls : Active(d) => d = c
    BY <2>1 DEF LittleLeft
  <2>3. \A u \in Uploads, n \in PartNumbers : AccountedFor(c, u, n)
    BY <2>1, <2>2 DEF LittleLeft, AccountedFor
  <2>4. /\ Active(c)' => Knows(c)'
        /\ \A u \in Uploads, n \in PartNumbers :
             AccountedFor(c, u, n)' /\ (~ Active(c)' => ~ Deals(c, u, n)')
    BY <1>4, <2>2, <2>3, AloneLeavesLittle
  <2>5. \A d \in Calls : Active(d)' => d = c
    BY <2>1, <2>2 DEF Goes, Aside, Active
  <2> QED
    BY <2>4, <2>5 DEF AccountedFor
<1> QED
  BY <1>1, <1>2, <1>3, <1>4, NextIs

-----------------------------------------------------------------------------
\* The invariant holds in every state, for every number of calls, uploads and
\* parts, and whatever calls overlap: where two finished one upload at once it
\* says nothing of that upload, and of the others what it always says.
THEOREM MultipartInvariantHolds == MultipartSpec => []MultipartInvariant
<1>1. MultipartInit => MultipartInvariant
  <2> SUFFICES ASSUME MultipartInit PROVE MultipartInvariant
    OBVIOUS
  <2>1. MultipartTypeOK
    BY MultipartTypesHold
  <2>2. /\ object = Absent /\ \A c \in Calls : pc[c] = "idle" /\ existing[c] = None /\ kind[c] = None
        /\ \A u \in Uploads, n \in PartNumbers : part[u][n] = Absent
    BY DEF MultipartInit
  <2>3. CallsMatch /\ ObjectsCompleted
    BY <2>2 DEF CallsMatch, ObjectsCompleted
  <2>4. OneFinisher /\ IndexFollows /\ OneCompleter
    BY <2>2 DEF OneFinisher, Finishing, Active, IndexFollows, IndexPut, OneCompleter, Completer
  <2>5. PartsFound /\ FoundReplaced /\ PointedPartsExist /\ ReadersServed
    BY <2>2 DEF PartsFound, FoundReplaced, PointedPartsExist, ReadersServed
  <2>6. LittleLeft
    BY <2>2 DEF LittleLeft, Active
  <2> QED
    BY <2>1, <2>3, <2>4, <2>5, <2>6 DEF MultipartInvariant
<1>2. MultipartInvariant /\ [MultipartNext]_multipartVars => MultipartInvariant'
  <2> SUFFICES ASSUME MultipartInvariant, [MultipartNext]_multipartVars PROVE MultipartInvariant'
    OBVIOUS
  <2> USE DEF MultipartInvariant
  <2>1. MultipartTypeOK' /\ CallsMatch'
    BY MultipartTypesKept, MatchKept
  <2>2. OneFinisher' /\ IndexFollows' /\ OneCompleter'
    BY OneFinisherKept, IndexFollowsKept, OneCompleterKept
  <2>3. ObjectsCompleted' /\ PartsFound' /\ FoundReplaced'
    BY ObjectsCompletedKept, PartsFoundKept, FoundReplacedKept
  <2>4. PointedPartsExist' /\ ReadersServed' /\ LittleLeft'
    BY PointedKept, ReadersKept, LittleLeftKept
  <2> QED
    BY <2>1, <2>2, <2>3, <2>4
<1> QED
  BY <1>1, <1>2, PTL DEF MultipartSpec

\* R2: the parts that the object points to exist, unless two calls were
\* finishing its upload at once.
THEOREM PointedPartsAlwaysExist == MultipartSpec => []PointedPartsExist
<1>1. MultipartInvariant => PointedPartsExist
  BY DEF MultipartInvariant
<1> QED
  BY <1>1, MultipartInvariantHolds, PTL

\* R2: a stream misses a part only if its object has been replaced, or two
\* calls were finishing its upload at once.
THEOREM ReadersAlwaysServed == MultipartSpec => []ReadersServed
<1>1. MultipartInvariant => ReadersServed
  BY DEF MultipartInvariant
<1> QED
  BY <1>1, MultipartInvariantHolds, PTL

\* R2: calls that do not overlap leave no part that nothing points to.
THEOREM NoGarbageLeft == MultipartSpec => []NoGarbage
<1>1. MultipartInvariant => NoGarbage
  BY DEF MultipartInvariant, LittleLeft, NoGarbage, Pointed
<1> QED
  BY <1>1, MultipartInvariantHolds, PTL

\* R2: every state of the model is of its types.
THEOREM MultipartTypes == MultipartSpec => []MultipartTypeOK
<1>1. MultipartInit => MultipartTypeOK /\ CallsMatch
  BY MultipartTypesHold DEF MultipartInit, CallsMatch
<1>2. MultipartTypeOK /\ CallsMatch /\ [MultipartNext]_multipartVars => (MultipartTypeOK /\ CallsMatch)'
  BY MultipartTypesKept, MatchKept
<1> QED
  BY <1>1, <1>2, PTL DEF MultipartSpec

-----------------------------------------------------------------------------
(***************************************************************************)
(* Files: the inductive invariant.                                         *)
(***************************************************************************)
\* Where an operation of each name can be.
Stages(name) ==
  CASE name = "none" -> {"idle"}
    [] name = "put" -> {"mkdir", "open", "write", "dropMeta", "openMeta", "writeMeta"}
    [] name = "get" -> {"read", "meta", "unlink", "unlinkMeta"}
    [] name = "has" -> {"meta", "unlink", "unlinkMeta"}
    [] name = "delete" -> {"meta", "unlink", "unlinkMeta"}
    [] name = "list" -> {"walk", "listMeta", "expire"}

\* An operation fits where it is.
OperationFits(o) ==
  /\ o.at \in Stages(o.name)
  /\ o.name \in {"put", "get", "has", "delete"} \/ o.at = "listMeta" => o.key \in Keys
  /\ o.name = "put" => o.value \in Values
  /\ o.at = "dropMeta" => o.expiration = None
  /\ o.name = "list" => o.time <= now
  /\ o.lost => o.at \in {"write", "writeMeta"}
OperationsFit == \A c \in Callers : OperationFits(op[c])

\* Callers at the same key, one of them to write it, are both marked, and the
\* key is not taken for undisturbed.
OverlapsMarked ==
  \A c, d \in Callers :
    c # d /\ Running(c) /\ Running(d) =>
      \A k \in Shared(op[c], op[d]) : op[c].met /\ ~ alone[k]
MetWritersDisturb ==
  \A c \in Callers : Running(c) /\ Writes(op[c]) /\ op[c].met => ~ alone[op[c].key]

\* A writer that has begun to change the files of its key.
Changing(o) == \/ o.at \in {"write", "dropMeta", "openMeta", "writeMeta"}
               \/ o.name = "delete" /\ o.at = "unlinkMeta"
\* An operation that is about to delete the metadata of an expired key.
DropsMeta(o, k) == \/ o.at = "unlinkMeta" /\ o.key = k
                   \/ o.at = "expire" /\ <<"meta", k>> \in o.todo
Holds(k) ==
  \/ value[k] = want[k].value /\ meta[k] = want[k].expiration
  \/ /\ Expired(want[k].expiration, now) /\ value[k] = None
     /\ \/ meta[k] = None
        \/ meta[k] = want[k].expiration /\ \E c \in Callers : DropsMeta(op[c], k)
UndisturbedHolds ==
  \A k \in Keys :
    alone[k] /\ (\A c \in Callers : op[c].key = k => ~ Changing(op[c])) => Holds(k)

\* Readers delete what has expired.
ReaderExpires(o) ==
  /\ o.name \in {"get", "has"} /\ o.at \in {"unlink", "unlinkMeta"} /\ alone[o.key] =>
       Expired(want[o.key].expiration, now)
  /\ o.at \in {"walk", "listMeta"} =>
       \A s \in o.keys :
         alone[s.name] /\ Expired(s.expiration, o.time) => Expired(want[s.name].expiration, now)
  /\ o.at = "expire" =>
       \A entry \in o.todo : alone[entry[2]] => Expired(want[entry[2]].expiration, now)
ReadersExpire == \A c \in Callers : ReaderExpires(op[c])

\* The value goes before the metadata.
DroppersFind ==
  \A c \in Callers, k \in Keys : DropsMeta(op[c], k) /\ alone[k] => value[k] = None

\* What a writer that nothing has met finds as it left it.
WritersFind ==
  \A c \in Callers :
    ~ op[c].met =>
      /\ op[c].at \in {"write", "writeMeta"} => ~ op[c].lost
      /\ op[c].at \in {"dropMeta", "openMeta", "writeMeta"} => value[op[c].key] = op[c].value
      /\ op[c].name = "delete" /\ op[c].at = "unlinkMeta" => value[op[c].key] = None

\* A file is no directory, and is in directories.
FilesInDirectories ==
  /\ \A k \in Keys : value[k] # None => ~ dir[k] /\ \A p \in Above[k] : dir[p]
  /\ \A c \in Callers :
       /\ op[c].at \in {"open", "write"} => \A p \in Above[op[c].key] : dir[p]
       /\ op[c].at = "write" /\ ~ op[c].lost => value[op[c].key] # None

\* A key that a list must return it has returned, or is yet to come to.
Ahead(o, k) ==
  \/ o.at = "listMeta" /\ o.key = k
  \/ \E q \in Above[k] \cup {k} : <<"path", q>> \in o.todo
ListProceeds(o, required) ==
  \A k \in required :
    /\ value[k] # None /\ ~ Expired(Meta(k), o.time)
    /\ \/ k \in {s.name : s \in o.keys}
       \/ o.at \in {"walk", "listMeta"} /\ Ahead(o, k)
    /\ \A s \in o.keys : s.name = k => ~ Expired(s.expiration, o.time)
ListsProceed == \A c \in Callers : op[c].name = "list" => ListProceeds(op[c], must[c])

FilesInvariant ==
  /\ FilesTypeOK /\ OperationsFit /\ OverlapsMarked /\ MetWritersDisturb /\ UndisturbedHolds
  /\ ReadersExpire /\ DroppersFind /\ WritersFind /\ FilesInDirectories /\ ListsProceed

-----------------------------------------------------------------------------
(***************************************************************************)
(* Steps of operations on files.                                           *)
(***************************************************************************)
\* The same operation as far as its own steps know.
Alike(o, p) ==
  /\ o.at = p.at /\ o.name = p.name /\ o.key = p.key /\ o.value = p.value
  /\ o.expiration = p.expiration /\ o.time = p.time /\ o.todo = p.todo /\ o.keys = p.keys

\* What a key's operations share depends on their names and keys.
LEMMA SharedIs ==
  ASSUME NEW o, NEW p, NEW r, NEW s, o.name = r.name, o.key = r.key, p.name = s.name, p.key = s.key
  PROVE  Shared(o, p) = Shared(r, s) /\ Touched(o) = Touched(r) /\ (Writes(o) <=> Writes(r))
BY DEF Shared, Touched, Writes

\* What two operations share does not depend on their order.
LEMMA SharedSymmetric ==
  ASSUME NEW o, NEW p
  PROVE  Shared(o, p) = Shared(p, o)
BY DEF Shared

\* A caller that does nothing, and operations that have changed in one field.
LEMMA IdleIs == Idle \in OperationTypes
<1>1. {} \in SUBSET ({"path", "meta"} \X Keys) /\ {} \in SUBSET [name : Keys, expiration : Expirations]
  OBVIOUS
<1>2. 0 \in 0 .. MaxTime /\ None \in Expirations
  BY FileBounds DEF Expirations
<1> QED
  BY <1>1, <1>2 DEF Idle, OperationTypes

\* Operations that have been met, and that have lost their file.
LEMMA OperationsAre ==
  ASSUME NEW o \in OperationTypes
  PROVE  /\ Alike([o EXCEPT !.met = TRUE], o) /\ [o EXCEPT !.met = TRUE].lost = o.lost
         /\ [o EXCEPT !.met = TRUE].met
         /\ Alike([o EXCEPT !.lost = TRUE], o) /\ [o EXCEPT !.lost = TRUE].met = o.met
         /\ [o EXCEPT !.lost = TRUE].lost
         /\ [o EXCEPT !.met = TRUE] \in OperationTypes /\ [o EXCEPT !.lost = TRUE] \in OperationTypes
         /\ [o EXCEPT !.lost = FALSE] \in OperationTypes
<1>1. /\ Alike([o EXCEPT !.met = TRUE], o) /\ [o EXCEPT !.met = TRUE].lost = o.lost
      /\ [o EXCEPT !.met = TRUE].met
  BY DEF OperationTypes, Alike
<1>2. /\ Alike([o EXCEPT !.lost = TRUE], o) /\ [o EXCEPT !.lost = TRUE].met = o.met
      /\ [o EXCEPT !.lost = TRUE].lost
  BY DEF OperationTypes, Alike
<1>3. [o EXCEPT !.met = TRUE] \in OperationTypes
  BY DEF OperationTypes
<1>4. [o EXCEPT !.lost = TRUE] \in OperationTypes
  BY DEF OperationTypes
<1>5. [o EXCEPT !.lost = FALSE] \in OperationTypes
  BY DEF OperationTypes
<1> QED
  BY <1>1, <1>2, <1>3, <1>4, <1>5

\* Ending, or going on, as o.
LEMMA BecomesIs ==
  ASSUME FilesTypeOK, NEW c \in Callers, NEW o, Becomes(c, o)
  PROVE  op'[c] = o /\ \A d \in Callers \ {c} : op'[d] = op[d]
BY DEF Becomes, FilesTypeOK

\* Unlinking a file: those who have it open lose what they write.
LEMMA UnlinksIs ==
  ASSUME FilesTypeOK, NEW c \in Callers, NEW o, NEW k, NEW l, Unlinks(c, o, k, l)
  PROVE  /\ op'[c] = o
         /\ \A d \in Callers \ {c} :
              /\ Alike(op'[d], op[d]) /\ op'[d].met = op[d].met
              /\ op'[d].lost <=> op[d].lost \/ (op[d].at = l /\ op[d].key = k)
              /\ op'[d] \in OperationTypes
<1>1. op'[c] = o
  BY DEF Unlinks
<1>2. ASSUME NEW d \in Callers \ {c}
      PROVE  /\ Alike(op'[d], op[d]) /\ op'[d].met = op[d].met
             /\ op'[d].lost <=> op[d].lost \/ (op[d].at = l /\ op[d].key = k)
             /\ op'[d] \in OperationTypes
  <2>1. op[d] \in OperationTypes
    BY DEF FilesTypeOK
  <2>2. op'[d] = IF op[d].at = l /\ op[d].key = k THEN [op[d] EXCEPT !.lost = TRUE] ELSE op[d]
    BY DEF Unlinks
  <2>3. CASE op[d].at = l /\ op[d].key = k
    BY <2>1, <2>2, <2>3, OperationsAre
  <2>4. CASE ~ (op[d].at = l /\ op[d].key = k)
    <3>1. op'[d] = op[d] /\ op[d].lost \in BOOLEAN
      BY <2>1, <2>2, <2>4 DEF OperationTypes
    <3> QED
      BY <2>1, <2>4, <3>1 DEF Alike
  <2> QED
    BY <2>3, <2>4
<1> QED
  BY <1>1, <1>2

\* Operation o has begun.
Began(c, o) ==
  /\ ~ Running(c) /\ Alike(op'[c], o) /\ op'[c].lost = o.lost /\ op'[c] \in OperationTypes
  /\ op'[c].met <=> \E d \in Callers \ {c} : Running(d) /\ Shared(o, op[d]) # {}
  /\ \A d \in Callers \ {c} :
       /\ Alike(op'[d], op[d]) /\ op'[d].lost = op[d].lost /\ op'[d] \in OperationTypes
       /\ op'[d].met <=> op[d].met \/ (Running(d) /\ Shared(o, op[d]) # {})
  /\ \A k \in Keys :
       alone'[k] <=> alone[k] /\ \A d \in Callers \ {c} : Running(d) => k \notin Shared(o, op[d])
  /\ alone' \in [Keys -> BOOLEAN]
  /\ UNCHANGED <<files, now, want>> /\ started' = started + 1 /\ started < MaxOps

\* An operation begins: it and those it overlaps with are marked (Begin).
LEMMA BeginIs ==
  ASSUME FilesTypeOK, NEW c \in Callers, NEW o \in OperationTypes, ~ o.met, Begin(c, o)
  PROVE  Began(c, o)
<1> DEFINE others == {d \in Callers \ {c} : Running(d) /\ Shared(o, op[d]) # {}}
<1>1. /\ ~ Running(c) /\ started < MaxOps /\ started' = started + 1
      /\ op' = [d \in Callers |->
                  IF d = c THEN [o EXCEPT !.met = others # {}]
                  ELSE IF d \in others THEN [op[d] EXCEPT !.met = TRUE] ELSE op[d]]
      /\ alone' = [k \in Keys |-> alone[k] /\ \A d \in others : k \notin Shared(o, op[d])]
      /\ UNCHANGED <<files, now, want>>
  BY Zenon DEF Begin
<1>2. op'[c] = [o EXCEPT !.met = others # {}]
  BY <1>1
<1>3. Alike(op'[c], o) /\ op'[c].lost = o.lost /\ op'[c] \in OperationTypes /\ (op'[c].met <=> others # {})
  BY <1>2 DEF OperationTypes, Alike
<1>4. ASSUME NEW d \in Callers \ {c}
      PROVE  /\ Alike(op'[d], op[d]) /\ op'[d].lost = op[d].lost /\ op'[d] \in OperationTypes
             /\ op'[d].met <=> op[d].met \/ d \in others
  <2>1. op[d] \in OperationTypes
    BY DEF FilesTypeOK
  <2>2. op'[d] = IF d \in others THEN [op[d] EXCEPT !.met = TRUE] ELSE op[d]
    BY <1>1
  <2> HIDE DEF others
  <2>3. CASE d \in others
    BY <2>1, <2>2, <2>3, OperationsAre
  <2>4. CASE d \notin others
    BY <2>1, <2>2, <2>4 DEF Alike
  <2> QED
    BY <2>3, <2>4
<1>5. \A k \in Keys :
        alone'[k] <=> alone[k] /\ \A d \in others : k \notin Shared(o, op[d])
  BY <1>1 DEF FilesTypeOK
<1>6. alone' \in [Keys -> BOOLEAN]
  BY <1>1 DEF FilesTypeOK
<1> QED
  BY <1>1, <1>3, <1>4, <1>5, <1>6 DEF Began

\* Operation o has gone on as p, or ended.
Proceeds(o, p) ==
  /\ p.name = o.name /\ p.met = o.met /\ p.value = o.value /\ p.expiration = o.expiration
  /\ p.time = o.time /\ p \in OperationTypes
Moves(o, p, l) == Proceeds(o, p) /\ p.at = l /\ p.key = o.key /\ p.lost = o.lost
\* What c does lets the other operations be.
Stays(c) == \A d \in Callers \ {c} : op'[d] = op[d]
\* It unlinks a file that those at l are about to write.
Loses(c, k, l) ==
  \A d \in Callers \ {c} :
    /\ Alike(op'[d], op[d]) /\ op'[d].met = op[d].met
    /\ op'[d].lost <=> op[d].lost \/ (op[d].at = l /\ op[d].key = k)
    /\ op'[d] \in OperationTypes

\* Going on to l with all else as it was.
LEMMA MovesIs ==
  ASSUME NEW o \in OperationTypes, NEW l \in {"open", "write", "writeMeta", "meta", "unlink", "unlinkMeta"}
  PROVE  Moves(o, [o EXCEPT !.at = l], l)
<1>1. [o EXCEPT !.at = l] \in OperationTypes
  BY DEF OperationTypes
<1> QED
  BY <1>1 DEF Moves, Proceeds, OperationTypes

\* GoTo is such a step, and the others stay.
LEMMA GoToIs ==
  ASSUME FilesTypeOK, NEW c \in Callers, NEW l \in {"open", "write", "writeMeta", "meta", "unlink", "unlinkMeta"},
         GoTo(c, l)
  PROVE  Stays(c) /\ Moves(op[c], op'[c], l)
<1>1. op'[c] = [op[c] EXCEPT !.at = l] /\ Stays(c)
  BY BecomesIs DEF GoTo, Stays
<1>2. op[c] \in OperationTypes
  BY DEF FilesTypeOK
<1> QED
  BY <1>1, <1>2, MovesIs

\* Steps of put().
LEMMA PutStepsAre ==
  ASSUME FilesTypeOK, OperationsFit, NEW c \in Callers
  PROVE  /\ MakeDir(c) =>
              /\ op[c].at = "mkdir" /\ Stays(c) /\ UNCHANGED <<value, meta, now, started, history>>
              /\ \/ op'[c] = Idle /\ dir' = dir
                 \/ /\ Moves(op[c], op'[c], "open") /\ ~ UnderFile(op[c].key)
                    /\ dir' = [q \in Keys |-> dir[q] \/ q \in Above[op[c].key]]
         /\ Open(c) =>
              /\ op[c].at = "open" /\ Stays(c) /\ UNCHANGED <<meta, dir, now, started, history>>
              /\ \/ op'[c] = Idle /\ value' = value
                 \/ /\ Moves(op[c], op'[c], "write") /\ ~ dir[op[c].key]
                    /\ value' = [value EXCEPT ![op[c].key] = Empty]
         /\ WriteValue(c) =>
              /\ op[c].at = "write" /\ Stays(c) /\ UNCHANGED <<meta, dir, now, started, history>>
              /\ value' = IF op[c].lost THEN value ELSE [value EXCEPT ![op[c].key] = op[c].value]
              /\ Proceeds(op[c], op'[c]) /\ op'[c].key = op[c].key /\ ~ op'[c].lost
              /\ op'[c].at = IF op[c].expiration = None THEN "dropMeta" ELSE "openMeta"
         /\ DropMeta(c) =>
              /\ op[c].at = "dropMeta" /\ op'[c] = Idle /\ Loses(c, op[c].key, "writeMeta")
              /\ meta' = [meta EXCEPT ![op[c].key] = None] /\ UNCHANGED <<value, dir, now, started>>
              /\ Stored(c, [value |-> op[c].value, expiration |-> None])
         /\ OpenMeta(c) =>
              /\ op[c].at = "openMeta" /\ Stays(c) /\ UNCHANGED <<value, dir, now, started, history>>
              /\ Moves(op[c], op'[c], "writeMeta")
              /\ meta' = [meta EXCEPT ![op[c].key] = Empty]
         /\ WriteMeta(c) =>
              /\ op[c].at = "writeMeta" /\ Stays(c) /\ op'[c] = Idle /\ UNCHANGED <<value, dir, now, started>>
              /\ meta' = IF op[c].lost THEN meta ELSE [meta EXCEPT ![op[c].key] = op[c].expiration]
              /\ Stored(c, [value |-> op[c].value, expiration |-> op[c].expiration])
<1>0. op[c] \in OperationTypes
  BY DEF FilesTypeOK
<1>1. \A l \in {"open", "write", "writeMeta", "meta", "unlink", "unlinkMeta"} :
        GoTo(c, l) => Stays(c) /\ Moves(op[c], op'[c], l)
  BY GoToIs
<1>2. Becomes(c, Idle) => Stays(c) /\ op'[c] = Idle
  BY BecomesIs DEF Stays
<1>3. \A k, l : Unlinks(c, Idle, k, l) => Loses(c, k, l) /\ op'[c] = Idle
  BY UnlinksIs DEF Loses
<1>4. ASSUME WriteValue(c)
      PROVE  /\ Stays(c) /\ Proceeds(op[c], op'[c]) /\ op'[c].key = op[c].key /\ ~ op'[c].lost
             /\ op'[c].at = IF op[c].expiration = None THEN "dropMeta" ELSE "openMeta"
  <2> DEFINE l == IF op[c].expiration = None THEN "dropMeta" ELSE "openMeta"
             o == [op[c] EXCEPT !.at = l, !.lost = FALSE]
  <2>1. op'[c] = o /\ Stays(c)
    BY <1>4, BecomesIs DEF WriteValue, Stays
  <2>5. l \in {"dropMeta", "openMeta"}
    OBVIOUS
  <2>6. l = IF op[c].expiration = None THEN "dropMeta" ELSE "openMeta"
    OBVIOUS
  <2> HIDE DEF l
  <2>2. o.at = l /\ ~ o.lost /\ o.key = op[c].key
    BY <1>0 DEF OperationTypes
  <2>3. /\ o.name = op[c].name /\ o.met = op[c].met /\ o.value = op[c].value
        /\ o.expiration = op[c].expiration /\ o.time = op[c].time
    BY <1>0 DEF OperationTypes
  <2>4. o \in OperationTypes
    <3>1. [op[c] EXCEPT !.at = l] \in OperationTypes
      BY <1>0, <2>5 DEF OperationTypes
    <3>2. \A p \in OperationTypes : [p EXCEPT !.lost = FALSE] \in OperationTypes
      BY OperationsAre
    <3>3. o = [[op[c] EXCEPT !.at = l] EXCEPT !.lost = FALSE]
      BY <1>0 DEF OperationTypes
    <3> QED
      BY <3>1, <3>2, <3>3
  <2> HIDE DEF o
  <2> QED
    BY <2>1, <2>2, <2>3, <2>4, <2>6 DEF Proceeds
<1> QED
  BY <1>1, <1>2, <1>3, <1>4 DEF MakeDir, Open, WriteValue, DropMeta, OpenMeta, WriteMeta

\* Steps of get(), has() and delete().
LEMMA ReadStepsAre ==
  ASSUME FilesTypeOK, OperationsFit, NEW c \in Callers
  PROVE  /\ ReadValue(c) =>
              /\ op[c].at = "read" /\ Stays(c) /\ UNCHANGED <<files, now, started, history>>
              /\ op'[c] = Idle \/ Moves(op[c], op'[c], "meta")
         /\ ReadMeta(c) =>
              /\ op[c].at = "meta" /\ Stays(c) /\ UNCHANGED <<files, now, started, history>>
              /\ \/ op'[c] = Idle
                 \/ /\ Moves(op[c], op'[c], "unlink")
                    /\ op[c].name = "delete" \/ Expired(Meta(op[c].key), now)
         /\ Unlink(c) =>
              /\ op[c].at = "unlink" /\ UNCHANGED <<meta, dir, now, started, history>>
              /\ \/ op'[c] = Idle /\ Stays(c) /\ value' = value
                 \/ /\ Moves(op[c], op'[c], "unlinkMeta") /\ Loses(c, op[c].key, "write")
                    /\ value' = [value EXCEPT ![op[c].key] = None]
         /\ UnlinkMeta(c) =>
              /\ op[c].at = "unlinkMeta" /\ op'[c] = Idle /\ Loses(c, op[c].key, "writeMeta")
              /\ meta' = [meta EXCEPT ![op[c].key] = None] /\ UNCHANGED <<value, dir, now, started>>
              /\ IF op[c].name = "delete" THEN Stored(c, NoFile) ELSE UNCHANGED history
<1>0. op[c] \in OperationTypes
  BY DEF FilesTypeOK
<1>1. \A l \in {"open", "write", "writeMeta", "meta", "unlink", "unlinkMeta"} :
        GoTo(c, l) => Stays(c) /\ Moves(op[c], op'[c], l)
  BY GoToIs
<1>2. Becomes(c, Idle) => Stays(c) /\ op'[c] = Idle
  BY BecomesIs DEF Stays
<1>3. \A o, k, l : Unlinks(c, o, k, l) => Loses(c, k, l) /\ op'[c] = o
  BY UnlinksIs DEF Loses
<1>4. Moves(op[c], [op[c] EXCEPT !.at = "unlinkMeta"], "unlinkMeta")
  BY <1>0, MovesIs
<1>5. Unlink(c) =>
        /\ op[c].at = "unlink" /\ UNCHANGED <<meta, dir, now, started, history>>
        /\ \/ op'[c] = Idle /\ Stays(c) /\ value' = value
           \/ /\ Moves(op[c], op'[c], "unlinkMeta") /\ Loses(c, op[c].key, "write")
              /\ value' = [value EXCEPT ![op[c].key] = None]
  BY <1>2, <1>3, <1>4 DEF Unlink
<1>6. UnlinkMeta(c) =>
        /\ op[c].at = "unlinkMeta" /\ op'[c] = Idle /\ Loses(c, op[c].key, "writeMeta")
        /\ meta' = [meta EXCEPT ![op[c].key] = None] /\ UNCHANGED <<value, dir, now, started>>
        /\ IF op[c].name = "delete" THEN Stored(c, NoFile) ELSE UNCHANGED history
  BY <1>3 DEF UnlinkMeta
<1> QED
  BY <1>1, <1>2, <1>5, <1>6 DEF ReadValue, ReadMeta

\* A list goes on at l and k, with the entries left and the keys kept.
ListGoes(o, p, l, k, left, kept) ==
  Proceeds(o, p) /\ p.lost = o.lost /\ p.at = l /\ p.key = k /\ p.todo = left /\ p.keys = kept

\* The four ways in which the steps of a list change its record.
LEMMA ListGoesIs ==
  ASSUME NEW o \in OperationTypes, NEW l \in {"walk", "listMeta", "expire"}, NEW k \in Keys \cup {None},
         NEW left \in SUBSET ({"path", "meta"} \X Keys),
         NEW kept \in SUBSET [name : Keys, expiration : Expirations]
  PROVE  /\ ListGoes(o, [o EXCEPT !.todo = left], o.at, o.key, left, o.keys)
         /\ ListGoes(o, [o EXCEPT !.todo = left, !.at = l, !.key = k], l, k, left, o.keys)
         /\ ListGoes(o, [o EXCEPT !.at = l, !.keys = kept], l, o.key, o.todo, kept)
         /\ ListGoes(o, [o EXCEPT !.at = l, !.keys = kept, !.todo = left], l, o.key, left, kept)
<1>1. ListGoes(o, [o EXCEPT !.todo = left], o.at, o.key, left, o.keys)
  <2>1. [o EXCEPT !.todo = left] \in OperationTypes
    BY DEF OperationTypes
  <2> QED
    BY <2>1 DEF ListGoes, Proceeds, OperationTypes
<1>2. ListGoes(o, [o EXCEPT !.todo = left, !.at = l, !.key = k], l, k, left, o.keys)
  <2>1. [o EXCEPT !.todo = left, !.at = l, !.key = k] \in OperationTypes
    BY DEF OperationTypes
  <2> QED
    BY <2>1 DEF ListGoes, Proceeds, OperationTypes
<1>3. ListGoes(o, [o EXCEPT !.at = l, !.keys = kept], l, o.key, o.todo, kept)
  <2>1. [o EXCEPT !.at = l, !.keys = kept] \in OperationTypes
    BY DEF OperationTypes
  <2> QED
    BY <2>1 DEF ListGoes, Proceeds, OperationTypes
<1>4. ListGoes(o, [o EXCEPT !.at = l, !.keys = kept, !.todo = left], l, o.key, left, kept)
  <2>1. [o EXCEPT !.at = l, !.keys = kept, !.todo = left] \in OperationTypes
    BY DEF OperationTypes
  <2> QED
    BY <2>1 DEF ListGoes, Proceeds, OperationTypes
<1> QED
  BY <1>1, <1>2, <1>3, <1>4

\* Entries are paths and metadata files of keys.
LEMMA EntriesAre ==
  ASSUME NEW above
  PROVE  Entries(above) \in SUBSET ({"path", "meta"} \X Keys)
BY DEF Entries

\* Steps of list(): the walk.
LEMMA VisitIs ==
  ASSUME FilesTypeOK, NEW c \in Callers, Visit(c)
  PROVE  /\ op[c].at = "walk" /\ Stays(c) /\ UNCHANGED <<files, now, started, history>>
         /\ \/ op'[c] = Idle
            \/ \E entry \in op[c].todo :
                 \/ /\ entry[1] = "meta"
                    /\ ListGoes(op[c], op'[c], "walk", op[c].key, op[c].todo \ {entry}, op[c].keys)
                 \/ /\ entry[1] = "path" /\ dir[entry[2]]
                    /\ ListGoes(op[c], op'[c], "walk", op[c].key,
                                (op[c].todo \ {entry}) \cup Below(entry[2]), op[c].keys)
                 \/ /\ entry[1] = "path" /\ ~ dir[entry[2]]
                    /\ ListGoes(op[c], op'[c], "listMeta", entry[2], op[c].todo \ {entry}, op[c].keys)
<1>0. /\ op[c] \in OperationTypes /\ op[c].todo \in SUBSET ({"path", "meta"} \X Keys)
      /\ op[c].key \in Keys \cup {None} /\ op[c].keys \in SUBSET [name : Keys, expiration : Expirations]
  BY DEF FilesTypeOK, OperationTypes
<1>1. op[c].at = "walk" /\ UNCHANGED <<files, now, started, history>>
  BY DEF Visit
<1>2. PICK entry \in op[c].todo :
        \/ Becomes(c, Idle)
        \/ entry[1] = "meta" /\ Becomes(c, [op[c] EXCEPT !.todo = op[c].todo \ {entry}])
        \/ /\ entry[1] # "meta" /\ dir[entry[2]]
           /\ Becomes(c, [op[c] EXCEPT !.todo = (op[c].todo \ {entry}) \cup Below(entry[2])])
        \/ /\ entry[1] # "meta" /\ ~ dir[entry[2]]
           /\ Becomes(c, [op[c] EXCEPT !.todo = op[c].todo \ {entry}, !.at = "listMeta", !.key = entry[2]])
  BY Zenon DEF Visit
<1>3. entry[1] \in {"path", "meta"} /\ entry[2] \in Keys
  BY <1>0
<1>4. /\ op[c].todo \ {entry} \in SUBSET ({"path", "meta"} \X Keys)
      /\ (op[c].todo \ {entry}) \cup Below(entry[2]) \in SUBSET ({"path", "meta"} \X Keys)
  BY <1>0, EntriesAre DEF Below
<1>5. \A o : Becomes(c, o) => op'[c] = o /\ Stays(c)
  BY BecomesIs DEF Stays
<1>6. CASE Becomes(c, Idle)
  BY <1>1, <1>5, <1>6
<1>7. CASE entry[1] = "meta" /\ Becomes(c, [op[c] EXCEPT !.todo = op[c].todo \ {entry}])
  <2>1. ListGoes(op[c], [op[c] EXCEPT !.todo = op[c].todo \ {entry}], "walk", op[c].key,
                 op[c].todo \ {entry}, op[c].keys)
    BY <1>0, <1>1, <1>4, ListGoesIs
  <2> QED
    BY <1>1, <1>5, <1>7, <2>1
<1>8. CASE /\ entry[1] # "meta" /\ dir[entry[2]]
           /\ Becomes(c, [op[c] EXCEPT !.todo = (op[c].todo \ {entry}) \cup Below(entry[2])])
  <2>1. ListGoes(op[c], [op[c] EXCEPT !.todo = (op[c].todo \ {entry}) \cup Below(entry[2])], "walk", op[c].key,
                 (op[c].todo \ {entry}) \cup Below(entry[2]), op[c].keys)
    BY <1>0, <1>1, <1>4, ListGoesIs
  <2> QED
    BY <1>1, <1>3, <1>5, <1>8, <2>1
<1>9. CASE /\ entry[1] # "meta" /\ ~ dir[entry[2]]
           /\ Becomes(c, [op[c] EXCEPT !.todo = op[c].todo \ {entry}, !.at = "listMeta", !.key = entry[2]])
  <2>1. ListGoes(op[c], [op[c] EXCEPT !.todo = op[c].todo \ {entry}, !.at = "listMeta", !.key = entry[2]],
                 "listMeta", entry[2], op[c].todo \ {entry}, op[c].keys)
    BY <1>0, <1>3, <1>4, ListGoesIs
  <2> QED
    BY <1>1, <1>3, <1>5, <1>9, <2>1
<1> QED
  BY <1>2, <1>6, <1>7, <1>8, <1>9

\* What a metadata file is read as is an expiration, or none.
LEMMA MetaIs ==
  ASSUME FilesTypeOK, NEW k \in Keys
  PROVE  Meta(k) \in Expirations
BY DEF Meta, FilesTypeOK, Expirations

\* The metadata of the entry that the walk is at is read (index.ts:213-225).
LEMMA ListMetaIs ==
  ASSUME FilesTypeOK, OperationsFit, NEW c \in Callers, ListMeta(c)
  PROVE  /\ op[c].at = "listMeta" /\ Stays(c) /\ UNCHANGED <<files, now, started, history>>
         /\ op[c].key \in Keys
         /\ ListGoes(op[c], op'[c], "walk", op[c].key, op[c].todo,
                     op[c].keys \cup {[name |-> op[c].key, expiration |-> Meta(op[c].key)]})
<1> DEFINE found == [name |-> op[c].key, expiration |-> Meta(op[c].key)]
<1>1. /\ op[c].at = "listMeta" /\ UNCHANGED <<files, now, started, history>>
      /\ Becomes(c, [op[c] EXCEPT !.at = "walk", !.keys = op[c].keys \cup {found}])
  BY DEF ListMeta
<1>2. op[c].key \in Keys /\ op[c] \in OperationTypes
  BY <1>1 DEF OperationsFit, OperationFits, FilesTypeOK
<1>3. op[c].keys \cup {found} \in SUBSET [name : Keys, expiration : Expirations]
  BY <1>2, MetaIs DEF OperationTypes
<1>4. op[c].todo \in SUBSET ({"path", "meta"} \X Keys)
  BY <1>2 DEF OperationTypes
<1> HIDE DEF found
<1>5. ListGoes(op[c], [op[c] EXCEPT !.at = "walk", !.keys = op[c].keys \cup {found}], "walk", op[c].key,
               op[c].todo, op[c].keys \cup {found})
  BY <1>2, <1>3, <1>4, ListGoesIs
<1>6. ListGoes(op[c], op'[c], "walk", op[c].key, op[c].todo, op[c].keys \cup {found}) /\ Stays(c)
  BY <1>1, <1>5, BecomesIs DEF Stays
<1> QED
  BY <1>1, <1>2, <1>6 DEF found

\* Steps of list(): the expired keys.
LEMMA FilterIs ==
  ASSUME FilesTypeOK, NEW c \in Callers, Filter(c)
  PROVE  /\ op[c].at = "walk" /\ op[c].todo = {} /\ Stays(c) /\ UNCHANGED <<files, now, started, history>>
         /\ \E old : /\ old = {s \in op[c].keys : Expired(s.expiration, op[c].time)}
                     /\ ListGoes(op[c], op'[c], "expire", op[c].key, {<<"path", s.name>> : s \in old},
                                 op[c].keys \ old)
<1> DEFINE old == {s \in op[c].keys : Expired(s.expiration, op[c].time)}
           left == {<<"path", s.name>> : s \in old}
<1>1. /\ op[c].at = "walk" /\ op[c].todo = {} /\ UNCHANGED <<files, now, started, history>>
      /\ Becomes(c, [op[c] EXCEPT !.at = "expire", !.keys = op[c].keys \ old, !.todo = left])
  BY DEF Filter
<1>2. op[c] \in OperationTypes /\ op[c].keys \in SUBSET [name : Keys, expiration : Expirations]
  BY DEF OperationTypes, FilesTypeOK
<1>3. left \in SUBSET ({"path", "meta"} \X Keys) /\ op[c].keys \ old \in SUBSET [name : Keys, expiration : Expirations]
  BY <1>2
<1>4. old = {s \in op[c].keys : Expired(s.expiration, op[c].time)}
  OBVIOUS
<1>5. left = {<<"path", s.name>> : s \in old}
  OBVIOUS
<1> HIDE DEF left, old
<1>6. ListGoes(op[c], [op[c] EXCEPT !.at = "expire", !.keys = op[c].keys \ old, !.todo = left],
               "expire", op[c].key, left, op[c].keys \ old)
  BY <1>2, <1>3, ListGoesIs
<1>7. op'[c] = [op[c] EXCEPT !.at = "expire", !.keys = op[c].keys \ old, !.todo = left] /\ Stays(c)
  BY <1>1, BecomesIs DEF Stays
<1> QED
  BY <1>1, <1>4, <1>5, <1>6, <1>7

\* One of the deletions of expired keys goes on, or fails (local.ts:103-110).
LEMMA ExpireIs ==
  ASSUME FilesTypeOK, NEW c \in Callers, Expire(c)
  PROVE  /\ op[c].at = "expire" /\ UNCHANGED <<dir, now, started, history>>
         /\ \E entry \in op[c].todo :
              /\ entry[1] \in {"path", "meta"} /\ entry[2] \in Keys
              /\ \/ /\ entry[1] = "path" /\ ~ dir[entry[2]] /\ Loses(c, entry[2], "write")
                    /\ value' = [value EXCEPT ![entry[2]] = None] /\ meta' = meta
                    /\ ListGoes(op[c], op'[c], "expire", op[c].key,
                                (op[c].todo \ {entry}) \cup {<<"meta", entry[2]>>}, op[c].keys)
                 \/ /\ entry[1] = "path" /\ Stays(c) /\ UNCHANGED <<value, meta>>
                    /\ ListGoes(op[c], op'[c], "expire", op[c].key, op[c].todo \ {entry}, op[c].keys)
                 \/ /\ entry[1] = "meta" /\ Loses(c, entry[2], "writeMeta")
                    /\ value' = value /\ meta' = [meta EXCEPT ![entry[2]] = None]
                    /\ ListGoes(op[c], op'[c], "expire", op[c].key, op[c].todo \ {entry}, op[c].keys)
<1>0. /\ op[c] \in OperationTypes /\ op[c].todo \in SUBSET ({"path", "meta"} \X Keys)
      /\ op[c].key \in Keys \cup {None} /\ op[c].keys \in SUBSET [name : Keys, expiration : Expirations]
  BY DEF FilesTypeOK, OperationTypes
<1>1. op[c].at = "expire" /\ UNCHANGED <<dir, now, started, history>>
  BY DEF Expire
<1>2. PICK entry \in op[c].todo :
        \/ /\ entry[1] = "path" /\ ~ dir[entry[2]]
           /\ value' = [value EXCEPT ![entry[2]] = None] /\ meta' = meta
           /\ Unlinks(c, [op[c] EXCEPT !.todo = (op[c].todo \ {entry}) \cup {<<"meta", entry[2]>>}],
                      entry[2], "write")
        \/ /\ entry[1] = "path" /\ UNCHANGED <<value, meta>>
           /\ Becomes(c, [op[c] EXCEPT !.todo = op[c].todo \ {entry}])
        \/ /\ entry[1] = "meta" /\ meta' = [meta EXCEPT ![entry[2]] = None] /\ value' = value
           /\ Unlinks(c, [op[c] EXCEPT !.todo = op[c].todo \ {entry}], entry[2], "writeMeta")
  BY Zenon DEF Expire
<1>3. entry[1] \in {"path", "meta"} /\ entry[2] \in Keys
  BY <1>0
<1>4. /\ op[c].todo \ {entry} \in SUBSET ({"path", "meta"} \X Keys)
      /\ (op[c].todo \ {entry}) \cup {<<"meta", entry[2]>>} \in SUBSET ({"path", "meta"} \X Keys)
  BY <1>0, <1>3
<1>5. \A o : Becomes(c, o) => op'[c] = o /\ Stays(c)
  BY BecomesIs DEF Stays
<1>6. \A o, k, l : Unlinks(c, o, k, l) => Loses(c, k, l) /\ op'[c] = o
  BY UnlinksIs DEF Loses
<1>7. \A left \in SUBSET ({"path", "meta"} \X Keys) :
        ListGoes(op[c], [op[c] EXCEPT !.todo = left], "expire", op[c].key, left, op[c].keys)
  BY <1>0, <1>1, ListGoesIs
<1>8. CASE /\ entry[1] = "path" /\ ~ dir[entry[2]]
           /\ value' = [value EXCEPT ![entry[2]] = None] /\ meta' = meta
           /\ Unlinks(c, [op[c] EXCEPT !.todo = (op[c].todo \ {entry}) \cup {<<"meta", entry[2]>>}],
                      entry[2], "write")
  <2>1. /\ Loses(c, entry[2], "write")
        /\ op'[c] = [op[c] EXCEPT !.todo = (op[c].todo \ {entry}) \cup {<<"meta", entry[2]>>}]
    BY <1>6, <1>8
  <2>2. ListGoes(op[c], op'[c], "expire", op[c].key,
                 (op[c].todo \ {entry}) \cup {<<"meta", entry[2]>>}, op[c].keys)
    BY <1>4, <1>7, <2>1
  <2> QED
    BY <1>1, <1>3, <1>8, <2>1, <2>2
<1>9. CASE /\ entry[1] = "path" /\ UNCHANGED <<value, meta>>
           /\ Becomes(c, [op[c] EXCEPT !.todo = op[c].todo \ {entry}])
  <2>1. ListGoes(op[c], op'[c], "expire", op[c].key, op[c].todo \ {entry}, op[c].keys) /\ Stays(c)
    BY <1>4, <1>5, <1>7, <1>9
  <2> QED
    BY <1>1, <1>3, <1>9, <2>1
<1>10. CASE /\ entry[1] = "meta" /\ meta' = [meta EXCEPT ![entry[2]] = None] /\ value' = value
            /\ Unlinks(c, [op[c] EXCEPT !.todo = op[c].todo \ {entry}], entry[2], "writeMeta")
  <2>1. /\ ListGoes(op[c], op'[c], "expire", op[c].key, op[c].todo \ {entry}, op[c].keys)
        /\ Loses(c, entry[2], "writeMeta")
    BY <1>4, <1>6, <1>7, <1>10
  <2> QED
    BY <1>1, <1>3, <1>10, <2>1
<1> QED
  BY <1>2, <1>8, <1>9, <1>10

\* All deletions have ended.
LEMMA ListedIs ==
  ASSUME FilesTypeOK, NEW c \in Callers, Listed(c)
  PROVE  /\ op[c].at = "expire" /\ op[c].todo = {} /\ Stays(c) /\ op'[c] = Idle
         /\ UNCHANGED <<files, now, started, history>>
BY BecomesIs DEF Listed, Stays

\* What an operation is as it begins.
Fresh(o) ==
  /\ o \in OperationTypes /\ ~ o.met /\ ~ o.lost
  /\ \/ o.name = "put" /\ o.at = "mkdir" /\ o.key \in Keys /\ o.value \in Values
     \/ o.name = "get" /\ o.at = "read" /\ o.key \in Keys
     \/ o.name = "has" /\ o.at = "meta" /\ o.key \in Keys
     \/ o.name = "delete" /\ o.at \in {"meta", "unlink"} /\ o.key \in Keys
     \/ o.name = "list" /\ o.at = "walk" /\ o.todo = Entries({}) /\ o.keys = {} /\ o.time = now

\* The operations of get(), has() and delete() as they begin.
LEMMA OperationIs ==
  ASSUME NEW k \in Keys, NEW l \in {"read", "meta", "unlink"}, NEW name \in {"get", "has", "delete"},
         NEW o, o = Operation(name, l, k)
  PROVE  o \in OperationTypes /\ ~ o.met /\ ~ o.lost /\ o.name = name /\ o.at = l /\ o.key = k
<1>1. o \in OperationTypes
  BY IdleIs DEF Operation, OperationTypes
<1>2. ~ o.met /\ ~ o.lost /\ o.name = name /\ o.at = l /\ o.key = k
  BY DEF Operation, Idle
<1> QED
  BY <1>1, <1>2

\* Every call begins with an operation of one of these forms.
LEMMA StartsAre ==
  ASSUME FilesTypeOK, NEW c \in Callers, Put(c) \/ Get(c) \/ Has(c) \/ Delete(c) \/ List(c)
  PROVE  \E o : Fresh(o) /\ Begin(c, o)
<1>1. CASE Put(c)
  <2>1. PICK k \in Keys : \E v \in Values, e \in Expirations :
          Begin(c, [Operation("put", "mkdir", k) EXCEPT !.value = v, !.expiration = e])
    BY <1>1 DEF Put
  <2>2. PICK v \in Values, e \in Expirations :
          Begin(c, [Operation("put", "mkdir", k) EXCEPT !.value = v, !.expiration = e])
    BY <2>1
  <2> DEFINE o == [Operation("put", "mkdir", k) EXCEPT !.value = v, !.expiration = e]
  <2>3. o \in OperationTypes
    <3>1. [Idle EXCEPT !.name = "put", !.at = "mkdir", !.key = k] \in OperationTypes
      BY IdleIs DEF OperationTypes
    <3> QED
      BY <3>1 DEF Operation, OperationTypes
  <2>4. ~ o.met /\ ~ o.lost /\ o.name = "put" /\ o.at = "mkdir" /\ o.key = k /\ o.value = v
    BY DEF Operation, Idle
  <2> HIDE DEF o
  <2>5. Fresh(o)
    BY <2>3, <2>4 DEF Fresh
  <2> QED
    BY <2>2, <2>5 DEF o
<1>2. CASE Get(c)
  <2>1. PICK k \in Keys : Begin(c, Operation("get", "read", k))
    BY <1>2 DEF Get
  <2>2. Fresh(Operation("get", "read", k))
    BY OperationIs DEF Fresh
  <2> QED
    BY <2>1, <2>2
<1>3. CASE Has(c)
  <2>1. PICK k \in Keys : Begin(c, Operation("has", "meta", k))
    BY <1>3 DEF Has
  <2>2. Fresh(Operation("has", "meta", k))
    BY OperationIs DEF Fresh
  <2> QED
    BY <2>1, <2>2
<1>4. CASE Delete(c)
  <2>1. PICK k \in Keys : Begin(c, Operation("delete", IF Exists(k) THEN "meta" ELSE "unlink", k))
    BY <1>4 DEF Delete
  <2>2. \A l \in {"meta", "unlink"} : Fresh(Operation("delete", l, k))
    BY OperationIs DEF Fresh
  <2> QED
    BY <2>1, <2>2
<1>5. CASE List(c)
  <2> DEFINE left == Entries({})
             o == [Idle EXCEPT !.at = "walk", !.name = "list", !.time = now, !.todo = left]
  <2>1. Begin(c, o)
    BY <1>5 DEF List
  <2>2. left \in SUBSET ({"path", "meta"} \X Keys) /\ now \in 0 .. MaxTime
    BY EntriesAre DEF FilesTypeOK
  <2>3. left = Entries({})
    OBVIOUS
  <2> HIDE DEF left
  <2>4. o \in OperationTypes
    BY <2>2, IdleIs DEF OperationTypes
  <2>5. ~ o.met /\ ~ o.lost /\ o.name = "list" /\ o.at = "walk" /\ o.todo = left /\ o.keys = {} /\ o.time = now
    BY DEF Idle
  <2> HIDE DEF o
  <2>6. Fresh(o)
    BY <2>3, <2>4, <2>5 DEF Fresh
  <2> QED
    BY <2>1, <2>6
<1> QED
  BY <1>1, <1>2, <1>3, <1>4, <1>5

\* A step of an operation that has begun.
Continues(c) ==
  \/ MakeDir(c) \/ Open(c) \/ WriteValue(c) \/ DropMeta(c) \/ OpenMeta(c) \/ WriteMeta(c)
  \/ ReadValue(c) \/ ReadMeta(c) \/ Unlink(c) \/ UnlinkMeta(c)
  \/ Visit(c) \/ ListMeta(c) \/ Filter(c) \/ Expire(c) \/ Listed(c)

\* A step is a second, a crash, the begin of an operation, or a step of one.
LEMMA NextFilesIs ==
  ASSUME FilesTypeOK, [FilesNext]_filesVars
  PROVE  \/ UNCHANGED filesVars
         \/ Second /\ Watch
         \/ Crash /\ Watch
         \/ \E c \in Callers : (\E o : Fresh(o) /\ Begin(c, o)) /\ Watch
         \/ \E c \in Callers : Continues(c) /\ Watch
<1>1. CASE \E c \in Callers : Step(c) /\ Watch
  <2>1. PICK c \in Callers : Step(c) /\ Watch
    BY <1>1
  <2>2. CASE Put(c) \/ Get(c) \/ Has(c) \/ Delete(c) \/ List(c)
    BY <2>1, <2>2, StartsAre
  <2>3. CASE ~ (Put(c) \/ Get(c) \/ Has(c) \/ Delete(c) \/ List(c))
    <3>1. Continues(c)
      BY <2>1, <2>3 DEF Step, Continues
    <3> QED
      BY <2>1, <3>1
  <2> QED
    BY <2>2, <2>3
<1> QED
  BY <1>1 DEF FilesNext

\* What every such step is like: the others go on as they were, and only the
\* files of the operation's keys change.
Ends(c) ==
  /\ ~ op[c].met /\ Writes(op[c]) /\ op'[c] = Idle
  /\ \E w \in [value : Values \cup {None}, expiration : Expirations] : want' = [want EXCEPT ![op[c].key] = w]
  /\ alone' = [alone EXCEPT ![op[c].key] = TRUE]
Runs(c) ==
  /\ Running(c) /\ UNCHANGED <<now, started>>
  /\ \A d \in Callers \ {c} :
       /\ Alike(op'[d], op[d]) /\ op'[d].met = op[d].met /\ op'[d] \in OperationTypes
       /\ op'[d].lost => op[d].lost \/ op[d].at \in {"write", "writeMeta"}
       /\ op[d].lost => op'[d].lost
       /\ op[d].key \notin Touched(op[c]) => op'[d].lost = op[d].lost
  /\ \/ op'[c] = Idle
     \/ /\ Proceeds(op[c], op'[c]) /\ op'[c].at # "idle"
        /\ op[c].name # "list" => op'[c].key = op[c].key
  /\ \A k \in Keys \ Touched(op[c]) : value'[k] = value[k] /\ meta'[k] = meta[k]
  /\ UNCHANGED history \/ Ends(c)

\* What an operation is by where it is.
LEMMA StagesAre ==
  ASSUME FilesTypeOK, OperationsFit, NEW c \in Callers
  PROVE  /\ op[c] \in OperationTypes
         /\ op[c].at \in {"mkdir", "open", "write", "dropMeta", "openMeta", "writeMeta"} <=> op[c].name = "put"
         /\ op[c].at = "read" => op[c].name = "get"
         /\ op[c].at \in {"meta", "unlink", "unlinkMeta"} => op[c].name \in {"get", "has", "delete"}
         /\ op[c].at \in {"walk", "listMeta", "expire"} <=> op[c].name = "list"
         /\ op[c].at = "idle" <=> op[c].name = "none"
         /\ op[c].name \in {"put", "get", "has", "delete"} =>
              /\ op[c].key \in Keys /\ Touched(op[c]) = {op[c].key}
         /\ op[c].name = "list" => Touched(op[c]) = Keys
         /\ Writes(op[c]) <=> op[c].name \in {"put", "delete"}
<1>1. op[c] \in OperationTypes /\ OperationFits(op[c])
  BY DEF FilesTypeOK, OperationsFit
<1>2. op[c].name \in {"none", "put", "get", "has", "delete", "list"} /\ op[c].at \in Stages(op[c].name)
  BY <1>1 DEF OperationTypes, OperationFits
<1>3. op[c].name \in {"put", "get", "has", "delete"} => op[c].key \in Keys
  BY <1>1 DEF OperationFits
<1> QED
  BY <1>1, <1>2, <1>3 DEF Stages, Touched, Writes

\* Steps that touch no other operation are of this kind,
LEMMA StaysAre ==
  ASSUME FilesTypeOK, OperationsFit, NEW c \in Callers, Stays(c), Running(c), UNCHANGED <<now, started>>,
         \A k \in Keys \ Touched(op[c]) : value'[k] = value[k] /\ meta'[k] = meta[k],
         op'[c] = Idle \/ (/\ Proceeds(op[c], op'[c]) /\ op'[c].at # "idle"
                           /\ op[c].name # "list" => op'[c].key = op[c].key),
         UNCHANGED history \/ Ends(c)
  PROVE  Runs(c)
<1>1. \A d \in Callers \ {c} :
        /\ Alike(op'[d], op[d]) /\ op'[d].met = op[d].met /\ op'[d] \in OperationTypes
        /\ op'[d].lost => op[d].lost \/ op[d].at \in {"write", "writeMeta"}
        /\ op[d].lost => op'[d].lost
        /\ op[d].key \notin Touched(op[c]) => op'[d].lost = op[d].lost
  BY DEF Stays, Alike, FilesTypeOK
<1> QED
  BY <1>1 DEF Runs

\* and those that unlink a file of a key that the operation is at.
LEMMA LosesAre ==
  ASSUME FilesTypeOK, OperationsFit, NEW c \in Callers, NEW k \in Keys, NEW l \in {"write", "writeMeta"},
         Loses(c, k, l), k \in Touched(op[c]), Running(c), UNCHANGED <<now, started>>,
         \A j \in Keys \ Touched(op[c]) : value'[j] = value[j] /\ meta'[j] = meta[j],
         op'[c] = Idle \/ (/\ Proceeds(op[c], op'[c]) /\ op'[c].at # "idle"
                           /\ op[c].name # "list" => op'[c].key = op[c].key),
         UNCHANGED history \/ Ends(c)
  PROVE  Runs(c)
<1>1. ASSUME NEW d \in Callers \ {c}
      PROVE  /\ Alike(op'[d], op[d]) /\ op'[d].met = op[d].met /\ op'[d] \in OperationTypes
             /\ op'[d].lost => op[d].lost \/ op[d].at \in {"write", "writeMeta"}
             /\ op[d].lost => op'[d].lost
             /\ op[d].key \notin Touched(op[c]) => op'[d].lost = op[d].lost
  <2>1. /\ Alike(op'[d], op[d]) /\ op'[d].met = op[d].met /\ op'[d] \in OperationTypes
        /\ op'[d].lost <=> op[d].lost \/ (op[d].at = l /\ op[d].key = k)
    BY DEF Loses
  <2>2. op'[d].lost \in BOOLEAN /\ op[d].lost \in BOOLEAN
    BY <2>1 DEF FilesTypeOK, OperationTypes
  <2> QED
    BY <2>1, <2>2
<1> QED
  BY <1>1 DEF Runs

\* Stored() is how an operation ends that has written its key undisturbed.
LEMMA StoredIs ==
  ASSUME NEW c \in Callers, NEW w \in [value : Values \cup {None}, expiration : Expirations],
         Writes(op[c]), op'[c] = Idle, Stored(c, w)
  PROVE  UNCHANGED history \/ Ends(c)
BY DEF Stored, Ends

\* Every step of an operation that has begun is of this kind.
LEMMA RunsAre ==
  ASSUME FilesTypeOK, OperationsFit, NEW c \in Callers, Continues(c)
  PROVE  Runs(c)
<1>1. /\ op[c] \in OperationTypes
      /\ op[c].at \in {"mkdir", "open", "write", "dropMeta", "openMeta", "writeMeta"} <=> op[c].name = "put"
      /\ op[c].at = "read" => op[c].name = "get"
      /\ op[c].at \in {"meta", "unlink", "unlinkMeta"} => op[c].name \in {"get", "has", "delete"}
      /\ op[c].at \in {"walk", "listMeta", "expire"} <=> op[c].name = "list"
      /\ op[c].name \in {"put", "get", "has", "delete"} =>
              /\ op[c].key \in Keys /\ Touched(op[c]) = {op[c].key}
      /\ op[c].name = "list" => Touched(op[c]) = Keys
      /\ Writes(op[c]) <=> op[c].name \in {"put", "delete"}
  BY StagesAre
<1>2. /\ value \in [Keys -> Values \cup {Empty, None}] /\ meta \in [Keys -> Expirations \cup {Empty}]
      /\ op[c].value \in Values \cup {None} /\ op[c].expiration \in Expirations /\ None \in Expirations
  BY <1>1 DEF FilesTypeOK, OperationTypes, Expirations
<1>3. \A p, l : Moves(op[c], p, l) => /\ Proceeds(op[c], p) /\ p.at = l /\ p.key = op[c].key
  BY DEF Moves
<1>4. \A p, l, k, left, kept : ListGoes(op[c], p, l, k, left, kept) => Proceeds(op[c], p) /\ p.at = l
  BY DEF ListGoes
<1>5. CASE MakeDir(c)
  <2>1. /\ op[c].at = "mkdir" /\ Stays(c) /\ UNCHANGED <<value, meta, now, started, history>>
        /\ op'[c] = Idle \/ Moves(op[c], op'[c], "open")
    BY <1>5, PutStepsAre
  <2>2. op[c].key \in Keys /\ Running(c)
    BY <1>1, <2>1 DEF Running
  <2> QED
    BY <1>3, <2>1, <2>2, StaysAre
<1>6. CASE Open(c)
  <2>1. op[c].key \in Keys /\ Touched(op[c]) = {op[c].key} /\ Running(c)
    BY <1>1, <1>6 DEF Open, Running
  <2>2. /\ Stays(c) /\ UNCHANGED <<meta, dir, now, started, history>>
        /\ op'[c] = Idle \/ Moves(op[c], op'[c], "write")
        /\ value' = value \/ value' = [value EXCEPT ![op[c].key] = Empty]
    BY <1>6, PutStepsAre
  <2>3. \A k \in Keys \ Touched(op[c]) : value'[k] = value[k] /\ meta'[k] = meta[k]
    BY <1>2, <2>1, <2>2
  <2> QED
    BY <1>3, <2>1, <2>2, <2>3, StaysAre
<1>7. CASE WriteValue(c)
  <2>1. op[c].key \in Keys /\ Touched(op[c]) = {op[c].key} /\ Running(c)
    BY <1>1, <1>7 DEF WriteValue, Running
  <2> QED
    BY <1>2, <1>7, <2>1, PutStepsAre, StaysAre
<1>8. CASE DropMeta(c)
  <2>1. op[c].key \in Keys /\ Touched(op[c]) = {op[c].key} /\ Running(c) /\ Writes(op[c])
    BY <1>1, <1>8 DEF DropMeta, Running
  <2>2. UNCHANGED history \/ Ends(c)
    BY <1>2, <1>8, <2>1, PutStepsAre, StoredIs
  <2> QED
    BY <1>2, <1>8, <2>1, <2>2, PutStepsAre, LosesAre
<1>9. CASE OpenMeta(c)
  <2>1. op[c].key \in Keys /\ Touched(op[c]) = {op[c].key} /\ Running(c)
    BY <1>1, <1>9 DEF OpenMeta, Running
  <2>2. /\ Stays(c) /\ UNCHANGED <<value, dir, now, started, history>>
        /\ Moves(op[c], op'[c], "writeMeta") /\ meta' = [meta EXCEPT ![op[c].key] = Empty]
    BY <1>9, PutStepsAre
  <2>3. \A k \in Keys \ Touched(op[c]) : value'[k] = value[k] /\ meta'[k] = meta[k]
    BY <1>2, <2>1, <2>2
  <2> QED
    BY <1>3, <2>1, <2>2, <2>3, StaysAre
<1>10. CASE WriteMeta(c)
  <2>1. op[c].key \in Keys /\ Touched(op[c]) = {op[c].key} /\ Running(c) /\ Writes(op[c])
    BY <1>1, <1>10 DEF WriteMeta, Running
  <2>2. UNCHANGED history \/ Ends(c)
    BY <1>2, <1>10, <2>1, PutStepsAre, StoredIs
  <2> QED
    BY <1>2, <1>10, <2>1, <2>2, PutStepsAre, StaysAre
<1>11. CASE ReadValue(c) \/ ReadMeta(c)
  BY <1>1, <1>3, <1>11, ReadStepsAre, StaysAre DEF Running, files
<1>12. CASE Unlink(c)
  <2>1. op[c].key \in Keys /\ Touched(op[c]) = {op[c].key} /\ Running(c)
    BY <1>1, <1>12 DEF Unlink, Running
  <2> QED
    BY <1>2, <1>3, <1>12, <2>1, ReadStepsAre, StaysAre, LosesAre
<1>13. CASE UnlinkMeta(c)
  <2>1. op[c].key \in Keys /\ Touched(op[c]) = {op[c].key} /\ Running(c)
    BY <1>1, <1>13 DEF UnlinkMeta, Running
  <2>2. NoFile \in [value : Values \cup {None}, expiration : Expirations]
    BY <1>2 DEF NoFile
  <2>3. UNCHANGED history \/ Ends(c)
    BY <1>1, <1>13, <2>2, ReadStepsAre, StoredIs
  <2> QED
    BY <1>2, <1>13, <2>1, <2>3, ReadStepsAre, LosesAre
<1>14. CASE Visit(c)
  <2>0. /\ op[c].at = "walk" /\ Stays(c) /\ UNCHANGED <<files, now, started, history>>
        /\ op'[c] = Idle \/ (\E l \in {"walk", "listMeta"} : \E k, left, kept : ListGoes(op[c], op'[c], l, k, left, kept))
    BY <1>14, VisitIs
  <2>1. op'[c] = Idle \/ (Proceeds(op[c], op'[c]) /\ op'[c].at \in {"walk", "listMeta"})
    BY <1>4, <2>0
  <2> QED
    BY <1>1, <2>0, <2>1, StaysAre DEF Running, files
<1>15. CASE ListMeta(c)
  <2>1. /\ op[c].at = "listMeta" /\ Stays(c) /\ UNCHANGED <<files, now, started, history>>
        /\ Proceeds(op[c], op'[c]) /\ op'[c].at = "walk"
    BY <1>4, <1>15, ListMetaIs
  <2> QED
    BY <1>1, <2>1, StaysAre DEF Running, files
<1>16. CASE Filter(c)
  <2>1. /\ op[c].at = "walk" /\ Stays(c) /\ UNCHANGED <<files, now, started, history>>
        /\ Proceeds(op[c], op'[c]) /\ op'[c].at = "expire"
    BY <1>4, <1>16, FilterIs
  <2> QED
    BY <1>1, <2>1, StaysAre DEF Running, files
<1>17. CASE Expire(c)
  <2>1. op[c].at = "expire" /\ Touched(op[c]) = Keys /\ Running(c) /\ UNCHANGED <<dir, now, started, history>>
    BY <1>1, <1>17, ExpireIs DEF Running
  <2>2. /\ Proceeds(op[c], op'[c]) /\ op'[c].at = "expire"
        /\ \/ Stays(c)
           \/ \E k \in Keys, l \in {"write", "writeMeta"} : Loses(c, k, l)
    BY <1>4, <1>17, ExpireIs
  <2>3. op[c].name = "list"
    BY <1>1, <2>1
  <2> QED
    BY <2>1, <2>2, <2>3, StaysAre, LosesAre
<1>18. CASE Listed(c)
  BY <1>1, <1>18, ListedIs, StaysAre DEF Running, files
<1> QED
  BY <1>5, <1>6, <1>7, <1>8, <1>9, <1>10, <1>11, <1>12, <1>13, <1>14, <1>15, <1>16, <1>17, <1>18 DEF Continues

-----------------------------------------------------------------------------
(***************************************************************************)
(* Files: types, and what the operations are.                              *)
(***************************************************************************)
LEMMA FilesHaveTypes ==
  ASSUME FilesTypeOK, OperationsFit, NEW c \in Callers, Continues(c)
  PROVE  /\ value' \in [Keys -> Values \cup {Empty, None}]
         /\ meta' \in [Keys -> Expirations \cup {Empty}]
         /\ dir' \in [Keys -> BOOLEAN]
<1>1. /\ value \in [Keys -> Values \cup {Empty, None}] /\ meta \in [Keys -> Expirations \cup {Empty}]
      /\ dir \in [Keys -> BOOLEAN] /\ None \in Expirations
      /\ op[c].value \in Values \cup {None} /\ op[c].expiration \in Expirations
  BY DEF FilesTypeOK, OperationTypes, Expirations
<1>2. CASE MakeDir(c) \/ Open(c) \/ OpenMeta(c)
  <2>1. /\ value' = value \/ value' = [value EXCEPT ![op[c].key] = Empty]
        /\ meta' = meta \/ meta' = [meta EXCEPT ![op[c].key] = Empty]
        /\ dir' = dir \/ dir' = [q \in Keys |-> dir[q] \/ q \in Above[op[c].key]]
    BY <1>2, PutStepsAre
  <2> QED
    BY <1>1, <2>1
<1>3. CASE WriteValue(c) \/ WriteMeta(c)
  <2>1. /\ value' = value \/ value' = [value EXCEPT ![op[c].key] = op[c].value]
        /\ meta' = meta \/ meta' = [meta EXCEPT ![op[c].key] = op[c].expiration]
        /\ dir' = dir
    BY <1>3, PutStepsAre
  <2> QED
    BY <1>1, <2>1
<1>4. CASE DropMeta(c) \/ Unlink(c) \/ UnlinkMeta(c)
  <2>1. /\ value' = value \/ value' = [value EXCEPT ![op[c].key] = None]
        /\ meta' = meta \/ meta' = [meta EXCEPT ![op[c].key] = None]
        /\ dir' = dir
    BY <1>4, PutStepsAre, ReadStepsAre
  <2> QED
    BY <1>1, <2>1
<1>5. CASE ReadValue(c) \/ ReadMeta(c) \/ Visit(c) \/ ListMeta(c) \/ Filter(c) \/ Listed(c)
  <2>1. UNCHANGED files
    BY <1>5, ReadStepsAre, VisitIs, ListMetaIs, FilterIs, ListedIs
  <2> QED
    BY <1>1, <2>1 DEF files
<1>6. CASE Expire(c)
  <2>1. \E k \in Keys :
          /\ value' = value \/ value' = [value EXCEPT ![k] = None]
          /\ meta' = meta \/ meta' = [meta EXCEPT ![k] = None]
          /\ dir' = dir
    BY <1>6, ExpireIs
  <2> QED
    BY <1>1, <2>1
<1> QED
  BY <1>2, <1>3, <1>4, <1>5, <1>6 DEF Continues

\* The type invariant of the file storage is preserved.
LEMMA FilesTypesStay ==
  ASSUME FilesTypeOK, OperationsFit, [FilesNext]_filesVars
  PROVE  FilesTypeOK'
<1>1. CASE UNCHANGED filesVars
  BY <1>1 DEF FilesTypeOK, filesVars, files, history
<1>2. Watch => must' \in [Callers -> SUBSET Keys]
  BY DEF Watch, FilesTypeOK
<1>3. \A f : f \in [Callers -> OperationTypes] <=> (f = [c \in Callers |-> f[c]] /\ \A c \in Callers : f[c] \in OperationTypes)
  OBVIOUS
<1>4. CASE Second /\ Watch
  BY <1>2, <1>4, FileBounds DEF FilesTypeOK, Second, files, history
<1>5. CASE Crash /\ Watch
  <2>1. op' \in [Callers -> OperationTypes]
    BY <1>5, IdleIs DEF Crash
  <2>2. alone' \in [Keys -> BOOLEAN]
    BY <1>5 DEF Crash, FilesTypeOK
  <2> QED
    BY <1>2, <1>5, <2>1, <2>2 DEF Crash, FilesTypeOK, files
<1>6. ASSUME NEW c \in Callers, NEW o, Fresh(o), Begin(c, o), Watch
      PROVE  FilesTypeOK'
  <2>1. /\ op'[c] \in OperationTypes /\ \A d \in Callers \ {c} : op'[d] \in OperationTypes
        /\ alone' \in [Keys -> BOOLEAN] /\ UNCHANGED <<files, now, want>>
        /\ started' = started + 1 /\ started < MaxOps
    BY <1>6, BeginIs DEF Fresh, Began
  <2>2. op' = [d \in Callers |-> op'[d]]
    BY <1>6 DEF Begin
  <2>3. op' \in [Callers -> OperationTypes]
    BY <1>3, <2>1, <2>2
  <2>4. started' \in 0 .. MaxOps
    BY <2>1, FileBounds DEF FilesTypeOK
  <2> QED
    BY <1>2, <1>6, <2>1, <2>3, <2>4 DEF FilesTypeOK, files
<1>7. ASSUME NEW c \in Callers, Continues(c), Watch
      PROVE  FilesTypeOK'
  <2>1. Runs(c)
    BY <1>7, RunsAre
  <2>2. \A d \in Callers : op'[d] \in OperationTypes
    BY <2>1, IdleIs DEF Runs, Proceeds
  <2>3. op' = [d \in Callers |-> op'[d]]
    <3>1. \A o : Becomes(c, o) => op' = [d \in Callers |-> op'[d]]
      BY DEF Becomes, FilesTypeOK
    <3>2. \A o, k, l : Unlinks(c, o, k, l) => op' = [d \in Callers |-> op'[d]]
      BY DEF Unlinks
    <3>3. \A l : GoTo(c, l) => op' = [d \in Callers |-> op'[d]]
      BY <3>1 DEF GoTo
    <3>4. CASE MakeDir(c) \/ Open(c) \/ WriteValue(c) \/ OpenMeta(c) \/ WriteMeta(c) \/ ReadValue(c) \/ ReadMeta(c)
      BY <3>1, <3>3, <3>4 DEF MakeDir, Open, WriteValue, OpenMeta, WriteMeta, ReadValue, ReadMeta
    <3>5. CASE DropMeta(c) \/ Unlink(c) \/ UnlinkMeta(c)
      BY <3>1, <3>2, <3>5 DEF DropMeta, Unlink, UnlinkMeta
    <3>6. CASE Visit(c) \/ ListMeta(c) \/ Filter(c) \/ Listed(c)
      BY <3>1, <3>6 DEF Visit, ListMeta, Filter, Listed
    <3>7. CASE Expire(c)
      BY <3>1, <3>2, <3>7 DEF Expire
    <3> QED
      BY <1>7, <3>4, <3>5, <3>6, <3>7 DEF Continues
  <2>4. op' \in [Callers -> OperationTypes]
    BY <1>3, <2>2, <2>3
  <2>5. /\ want' \in [Keys -> [value : Values \cup {None}, expiration : Expirations]]
        /\ alone' \in [Keys -> BOOLEAN]
    <3>1. CASE UNCHANGED history
      BY <3>1 DEF history, FilesTypeOK
    <3>2. CASE Ends(c)
      <4>1. PICK w \in [value : Values \cup {None}, expiration : Expirations] : want' = [want EXCEPT ![op[c].key] = w]
        BY <3>2 DEF Ends
      <4>2. want' \in [Keys -> [value : Values \cup {None}, expiration : Expirations]]
        BY <4>1 DEF FilesTypeOK
      <4>3. alone' = [alone EXCEPT ![op[c].key] = TRUE]
        BY <3>2 DEF Ends
      <4> QED
        BY <4>2, <4>3 DEF FilesTypeOK
    <3> QED
      BY <2>1, <3>1, <3>2 DEF Runs
  <2> QED
    BY <1>2, <1>7, <2>1, <2>4, <2>5, FilesHaveTypes DEF FilesTypeOK, Runs
<1> QED
  BY <1>1, <1>4, <1>5, <1>6, <1>7, NextFilesIs

\* Operations keep to the stages of their names.
LEMMA OperationsFitStay ==
  ASSUME FilesTypeOK, OperationsFit, [FilesNext]_filesVars
  PROVE  OperationsFit'
<1>0. /\ now \in Nat /\ None \notin Keys
      /\ \A d \in Callers : OperationFits(op[d]) /\ op[d] \in OperationTypes /\ op[d].lost \in BOOLEAN
  BY FilesHoldValues DEF FilesTypeOK, OperationsFit, OperationTypes
<1>1. CASE UNCHANGED filesVars
  BY <1>1 DEF OperationsFit, OperationFits, filesVars
\* An operation that does not go on fits as it did.
<1>2. ASSUME NEW d \in Callers, Alike(op'[d], op[d]), now' \in Nat, now <= now',
             op'[d].lost => op[d].lost \/ op[d].at \in {"write", "writeMeta"}
      PROVE  OperationFits(op[d])'
  <2>1. op[d].time \in Nat
    BY <1>0 DEF OperationTypes
  <2>2. op[d].time <= now => op[d].time <= now'
    BY <1>0, <1>2, <2>1
  <2>3. OperationFits(op[d])
    BY <1>0
  <2> QED
    BY <1>2, <2>2, <2>3 DEF Alike, OperationFits
<1>3. now' = now => now' \in Nat /\ now <= now'
  BY <1>0
<1>4. \A d \in Callers : op'[d] = Idle => OperationFits(op[d])'
  <2>1. /\ Idle.at = "idle" /\ Idle.name = "none" /\ ~ Idle.lost
    BY DEF Idle
  <2> QED
    BY <2>1 DEF OperationFits, Stages
<1>5. CASE Second /\ Watch
  <2>1. now' = now + 1 /\ op' = op
    BY <1>5 DEF Second
  <2>2. now' \in Nat /\ now <= now'
    BY <1>0, <2>1
  <2> QED
    BY <1>2, <2>1, <2>2 DEF OperationsFit, Alike
<1>6. CASE Crash /\ Watch
  BY <1>4, <1>6 DEF Crash, OperationsFit
<1>7. ASSUME NEW c \in Callers, NEW o, Fresh(o), Begin(c, o), Watch
      PROVE  OperationsFit'
  <2>1. /\ Alike(op'[c], o) /\ op'[c].lost = o.lost /\ now' = now
        /\ \A d \in Callers \ {c} : Alike(op'[d], op[d]) /\ op'[d].lost = op[d].lost
    BY <1>7, BeginIs DEF Fresh, Began
  <2>2. OperationFits(op[c])'
    BY <1>0, <1>7, <2>1 DEF Fresh, Alike, OperationFits, Stages
  <2> QED
    BY <1>2, <1>3, <2>1, <2>2 DEF OperationsFit
<1>8. ASSUME NEW c \in Callers, Continues(c), Watch
      PROVE  OperationsFit'
  <2>1. Runs(c)
    BY <1>8, RunsAre
  <2>2. \A d \in Callers \ {c} : OperationFits(op[d])'
    BY <1>2, <1>3, <2>1 DEF Runs
  <2>3. OperationFits(op[c])'
    <3>1. CASE op'[c] = Idle
      BY <1>4, <3>1
    <3>2. CASE op'[c] # Idle
      <4>1. /\ Proceeds(op[c], op'[c]) /\ now' = now
            /\ op[c].name # "list" => op'[c].key = op[c].key
        BY <2>1, <3>2 DEF Runs
      <4>2. ASSUME op'[c].at \in Stages(op[c].name), op'[c].at = "listMeta" => op'[c].key \in Keys,
                   op'[c].at = "dropMeta" => op[c].expiration = None,
                   op'[c].lost => op'[c].at \in {"write", "writeMeta"}
            PROVE  OperationFits(op[c])'
        BY <1>0, <4>1, <4>2 DEF OperationFits, Proceeds
      <4>3. /\ op[c].at \in {"mkdir", "open", "write", "dropMeta", "openMeta", "writeMeta"} <=> op[c].name = "put"
            /\ op[c].at = "read" => op[c].name = "get"
            /\ op[c].at \in {"meta", "unlink", "unlinkMeta"} => op[c].name \in {"get", "has", "delete"}
            /\ op[c].at \in {"walk", "listMeta", "expire"} <=> op[c].name = "list"
        BY StagesAre
      <4>4. op[c].lost => op[c].at \in {"write", "writeMeta"}
        BY <1>0 DEF OperationFits
      <4>5. CASE MakeDir(c) \/ Open(c) \/ WriteValue(c) \/ DropMeta(c) \/ OpenMeta(c) \/ WriteMeta(c)
        <5>1. /\ op[c].name = "put" /\ op'[c].at \in {"open", "write", "dropMeta", "openMeta", "writeMeta"}
              /\ op'[c].at = "dropMeta" => op[c].expiration = None
              /\ op'[c].lost => op'[c].at \in {"write", "writeMeta"}
          BY <3>2, <4>3, <4>4, <4>5, PutStepsAre DEF Moves
        <5> QED
          BY <4>2, <5>1 DEF Stages
      <4>6. CASE ReadValue(c) \/ ReadMeta(c) \/ Unlink(c) \/ UnlinkMeta(c)
        <5>1. /\ op[c].name \in {"get", "has", "delete"} /\ op'[c].at \in {"meta", "unlink", "unlinkMeta"}
              /\ op'[c].at = "meta" => op[c].name = "get"
              /\ ~ op'[c].lost
          BY <1>0, <3>2, <4>3, <4>4, <4>6, ReadStepsAre DEF Moves
        <5> QED
          BY <4>2, <5>1 DEF Stages
      <4>7. CASE Visit(c) \/ ListMeta(c) \/ Filter(c) \/ Expire(c) \/ Listed(c)
        <5>1. op[c].todo \in SUBSET ({"path", "meta"} \X Keys)
          BY <1>0 DEF OperationTypes
        <5>2. /\ op[c].name = "list" /\ op'[c].at \in {"walk", "listMeta", "expire"}
              /\ op'[c].lost = op[c].lost
              /\ op'[c].at = "listMeta" => op'[c].key \in Keys
          BY <3>2, <4>3, <4>7, <5>1, VisitIs, ListMetaIs, FilterIs, ExpireIs, ListedIs DEF ListGoes
        <5> QED
          BY <4>2, <4>3, <4>4, <5>2 DEF Stages
      <4> QED
        BY <1>8, <4>5, <4>6, <4>7 DEF Continues
    <3> QED
      BY <3>1, <3>2
  <2> QED
    BY <2>2, <2>3 DEF OperationsFit
<1> QED
  BY <1>1, <1>5, <1>6, <1>7, <1>8, NextFilesIs

-----------------------------------------------------------------------------
(***************************************************************************)
(* Files: operations that overlap.                                         *)
(***************************************************************************)
LEMMA OverlapIs ==
  ASSUME OverlapsMarked, NEW c \in Callers, NEW d \in Callers, c # d, Running(c), Running(d), NEW k,
         k \in Touched(op[c]), k \in Touched(op[d]), Writes(op[c]) \/ Writes(op[d])
  PROVE  op[c].met /\ op[d].met /\ ~ alone[k]
<1>1. k \in Shared(op[c], op[d]) /\ k \in Shared(op[d], op[c])
  BY DEF Shared
<1> QED
  BY <1>1 DEF OverlapsMarked

\* The end of an operation leaves the history of what others are at alone.
LEMMA HistoryStays ==
  ASSUME FilesTypeOK, OperationsFit, OverlapsMarked, NEW c \in Callers, Runs(c), NEW k \in Keys,
         op[c].key # k \/ \E d \in Callers \ {c} : Running(d) /\ k \in Touched(op[d])
  PROVE  alone'[k] = alone[k] /\ want'[k] = want[k]
<1>1. CASE UNCHANGED history
  BY <1>1 DEF history
<1>2. CASE Ends(c)
  <2>1. op[c].key # k
    <3>1. ASSUME NEW d \in Callers \ {c}, Running(d), k \in Touched(op[d]), op[c].key = k
          PROVE  FALSE
      <4>1. Writes(op[c]) /\ ~ op[c].met
        BY <1>2 DEF Ends
      <4>2. k \in Touched(op[c])
        BY <3>1, <4>1 DEF Touched, Writes
      <4>3. Running(c)
        BY DEF Runs
      <4> QED
        BY <3>1, <4>1, <4>2, <4>3, OverlapIs
    <3> QED
      BY <3>1
  <2>2. PICK w \in [value : Values \cup {None}, expiration : Expirations] : want' = [want EXCEPT ![op[c].key] = w]
    BY <1>2 DEF Ends
  <2>3. alone' = [alone EXCEPT ![op[c].key] = TRUE]
    BY <1>2 DEF Ends
  <2> QED
    BY <2>1, <2>2, <2>3 DEF FilesTypeOK
<1> QED
  BY <1>1, <1>2 DEF Runs

\* What runs after a step ran before it, on the same keys.
LEMMA RanBefore ==
  ASSUME FilesTypeOK, OperationsFit, NEW c \in Callers, Runs(c), NEW d \in Callers, Running(d)'
  PROVE  /\ Running(d) /\ op'[d].name = op[d].name /\ op'[d].met = op[d].met
         /\ d # c \/ op'[d] # Idle
         /\ Touched(op'[d]) = Touched(op[d]) /\ (Writes(op'[d]) <=> Writes(op[d]))
         /\ op[d].name # "list" => op'[d].key = op[d].key
<1>1. CASE d = c
  <2>1. op'[d] # Idle
    BY DEF Running, Idle
  <2>2. Running(c) /\ Proceeds(op[c], op'[c]) /\ (op[c].name # "list" => op'[c].key = op[c].key)
    BY <1>1, <2>1 DEF Runs
  <2> QED
    BY <1>1, <2>1, <2>2 DEF Proceeds, Touched, Writes
<1>2. CASE d # c
  <2>1. Alike(op'[d], op[d]) /\ op'[d].met = op[d].met
    BY <1>2 DEF Runs
  <2> QED
    BY <1>2, <2>1 DEF Alike, Running, Touched, Writes
<1> QED
  BY <1>1, <1>2

\* Operations that overlap are marked, and so are the keys they share.
LEMMA OverlapsStay ==
  ASSUME FilesTypeOK, OperationsFit, OverlapsMarked, MetWritersDisturb, [FilesNext]_filesVars
  PROVE  OverlapsMarked' /\ MetWritersDisturb'
<1>1. CASE UNCHANGED filesVars
  BY <1>1 DEF OverlapsMarked, MetWritersDisturb, Shared, Touched, Writes, Running, filesVars, history
<1>2. CASE Second /\ Watch
  BY <1>2 DEF OverlapsMarked, MetWritersDisturb, Shared, Touched, Writes, Running, Second, history
<1>3. CASE Crash /\ Watch
  BY <1>3 DEF OverlapsMarked, MetWritersDisturb, Running, Crash, Idle
<1>4. ASSUME NEW c \in Callers, NEW o, Fresh(o), Begin(c, o), Watch
      PROVE  OverlapsMarked' /\ MetWritersDisturb'
  <2>1. /\ ~ Running(c) /\ Alike(op'[c], o) /\ UNCHANGED <<files, now, want>>
        /\ op'[c].met <=> \E d \in Callers \ {c} : Running(d) /\ Shared(o, op[d]) # {}
        /\ \A d \in Callers \ {c} :
             /\ Alike(op'[d], op[d])
             /\ op'[d].met <=> op[d].met \/ (Running(d) /\ Shared(o, op[d]) # {})
        /\ \A k \in Keys :
             alone'[k] <=> alone[k] /\ \A d \in Callers \ {c} : Running(d) => k \notin Shared(o, op[d])
    <3>1. Began(c, o)
      BY <1>4, BeginIs DEF Fresh
    <3> QED
      BY <3>1 DEF Began
  <2>2. ASSUME NEW d \in Callers \ {c}, Running(d)'
        PROVE  /\ Running(d) /\ op'[d].key = op[d].key /\ (Writes(op'[d]) <=> Writes(op[d]))
               /\ Shared(op'[c], op'[d]) = Shared(o, op[d]) /\ Shared(op'[d], op'[c]) = Shared(o, op[d])
    <3>1. /\ op'[d].name = op[d].name /\ op'[d].key = op[d].key /\ Running(d)
          /\ op'[c].name = o.name /\ op'[c].key = o.key
      BY <2>1, <2>2 DEF Alike, Running
    <3>2. Shared(op'[c], op'[d]) = Shared(o, op[d]) /\ (Writes(op'[d]) <=> Writes(op[d]))
      BY <3>1 DEF Shared, Touched, Writes
    <3>3. Shared(op'[d], op'[c]) = Shared(op'[c], op'[d])
      BY SharedSymmetric
    <3> QED
      BY <3>1, <3>2, <3>3
  <2>3. \A d, e : Shared(d, e) \subseteq Touched(d) /\ Shared(d, e) \subseteq Touched(e)
    BY DEF Shared
  <2>4. \A d \in Callers : Running(d) => Touched(op[d]) \subseteq Keys
    <3> SUFFICES ASSUME NEW d \in Callers, Running(d)
                 PROVE  Touched(op[d]) \subseteq Keys
      OBVIOUS
    <3>1. op[d].name \in {"put", "get", "has", "delete", "list"}
      BY StagesAre DEF Running, OperationTypes
    <3> QED
      BY <3>1, StagesAre DEF Touched
  <2>5. OverlapsMarked'
    <3> SUFFICES ASSUME NEW d \in Callers, NEW e \in Callers, d # e, Running(d)', Running(e)',
                        NEW k \in Shared(op'[d], op'[e])
                 PROVE  op'[d].met /\ ~ alone'[k]
      BY DEF OverlapsMarked
    <3>1. CASE d = c
      <4>1. k \in Shared(o, op[e]) /\ Running(e) /\ k \in Keys
        BY <2>2, <2>3, <2>4, <3>1
      <4> QED
        BY <2>1, <3>1, <4>1
    <3>2. CASE e = c
      <4>1. k \in Shared(o, op[d]) /\ Running(d) /\ k \in Keys
        BY <2>2, <2>3, <2>4, <3>2
      <4> QED
        BY <2>1, <3>2, <4>1
    <3>3. CASE d # c /\ e # c
      <4>1. Running(d) /\ Running(e)
        BY <2>2, <3>3
      <4>2. /\ op'[d].name = op[d].name /\ op'[d].key = op[d].key
            /\ op'[e].name = op[e].name /\ op'[e].key = op[e].key
        BY <2>1, <3>3 DEF Alike
      <4>3. Shared(op'[d], op'[e]) = Shared(op[d], op[e])
        BY <4>2 DEF Shared, Touched, Writes
      <4>4. op[d].met /\ ~ alone[k] /\ k \in Keys
        BY <2>3, <2>4, <4>1, <4>3 DEF OverlapsMarked
      <4> QED
        BY <2>1, <3>3, <4>4
    <3> QED
      BY <3>1, <3>2, <3>3
  <2>6. MetWritersDisturb'
    <3> SUFFICES ASSUME NEW d \in Callers, Running(d)', Writes(op'[d]), op'[d].met
                 PROVE  ~ alone'[op'[d].key]
      BY DEF MetWritersDisturb
    <3>1. CASE d = c
      <4>1. PICK e \in Callers \ {c} : Running(e) /\ Shared(o, op[e]) # {}
        BY <2>1, <3>1
      <4>2. o.name \in {"put", "delete"} /\ op'[c].key = o.key /\ Touched(o) = {o.key} /\ o.key \in Keys
        BY <1>4, <2>1, <3>1 DEF Writes, Touched, Alike, Fresh
      <4>3. o.key \in Shared(o, op[e])
        BY <2>3, <4>1, <4>2
      <4> QED
        BY <2>1, <3>1, <4>1, <4>2, <4>3
    <3>2. CASE d # c
      <4>1. /\ Running(d) /\ op'[d].key = op[d].key /\ Writes(op[d])
        BY <2>2, <3>2
      <4>2. op[d].name \in {"put", "delete"} /\ op[d].key \in Keys /\ Touched(op[d]) = {op[d].key}
        BY <4>1, StagesAre
      <4>3. CASE op[d].met
        BY <2>1, <4>1, <4>2, <4>3 DEF MetWritersDisturb
      <4>4. CASE Shared(o, op[d]) # {}
        <5>1. op[d].key \in Shared(o, op[d])
          BY <2>3, <4>2, <4>4
        <5> QED
          BY <2>1, <3>2, <4>1, <4>2, <5>1
      <4> QED
        BY <2>1, <3>2, <4>3, <4>4
    <3> QED
      BY <3>1, <3>2
  <2> QED
    BY <2>5, <2>6
<1>5. ASSUME NEW c \in Callers, Continues(c), Watch
      PROVE  OverlapsMarked' /\ MetWritersDisturb'
  <2>1. Runs(c) /\ Running(c)
    BY <1>5, RunsAre DEF Runs
  <2>2. OverlapsMarked'
    <3> SUFFICES ASSUME NEW d \in Callers, NEW e \in Callers, d # e, Running(d)', Running(e)',
                        NEW k \in Shared(op'[d], op'[e])
                 PROVE  op'[d].met /\ ~ alone'[k]
      BY DEF OverlapsMarked
    <3>1. /\ Running(d) /\ Running(e) /\ op'[d].met = op[d].met
          /\ Touched(op'[d]) = Touched(op[d]) /\ Touched(op'[e]) = Touched(op[e])
          /\ Writes(op'[d]) <=> Writes(op[d])
          /\ Writes(op'[e]) <=> Writes(op[e])
      BY <2>1, RanBefore
    <3>2. k \in Touched(op[d]) /\ k \in Touched(op[e]) /\ (Writes(op[d]) \/ Writes(op[e]))
      BY <3>1 DEF Shared
    <3>3. op[d].met /\ ~ alone[k]
      BY <3>1, <3>2, OverlapIs
    <3>4. k \in Keys
      <4>1. op[d].name \in {"put", "get", "has", "delete", "list"}
        BY <3>1, StagesAre DEF Running, OperationTypes
      <4> QED
        BY <3>2, <4>1, StagesAre
    <3>5. \E f \in Callers \ {c} : Running(f) /\ k \in Touched(op[f])
      BY <3>1, <3>2
    <3> QED
      BY <2>1, <3>1, <3>3, <3>4, <3>5, HistoryStays
  <2>3. MetWritersDisturb'
    <3> SUFFICES ASSUME NEW d \in Callers, Running(d)', Writes(op'[d]), op'[d].met
                 PROVE  ~ alone'[op'[d].key]
      BY DEF MetWritersDisturb
    <3>1. /\ Running(d) /\ op[d].met /\ Writes(op[d])
          /\ d # c \/ op'[d] # Idle
          /\ op[d].name # "list" => op'[d].key = op[d].key
      BY <2>1, RanBefore
    <3>2. op[d].name \in {"put", "delete"} /\ op[d].key \in Keys /\ Touched(op[d]) = {op[d].key}
      BY <3>1, StagesAre
    <3>3. ~ alone[op[d].key]
      BY <3>1 DEF MetWritersDisturb
    <3>4. CASE d # c
      BY <2>1, <3>1, <3>2, <3>3, <3>4, HistoryStays
    <3>5. CASE d = c
      <4>1. UNCHANGED history
        BY <2>1, <3>1, <3>5 DEF Runs, Ends
      <4> QED
        BY <3>1, <3>2, <3>3, <4>1 DEF history
    <3> QED
      BY <3>4, <3>5
  <2> QED
    BY <2>2, <2>3
<1> QED
  BY <1>1, <1>2, <1>3, <1>4, <1>5, NextFilesIs

-----------------------------------------------------------------------------
(***************************************************************************)
(* Files: files and directories, and what writers find.                    *)
(***************************************************************************)
\* Steps that leave the values and the directories as they are.
LEMMA SameDirectories ==
  ASSUME FilesInDirectories, UNCHANGED <<value, dir>>,
         \A d \in Callers :
           \/ op'[d].at \notin {"open", "write"}
           \/ Alike(op'[d], op[d]) /\ (op[d].lost => op'[d].lost)
  PROVE  FilesInDirectories'
BY DEF FilesInDirectories, Alike

\* Files stay files and lie in directories.
LEMMA DirectoriesStay ==
  ASSUME FilesTypeOK, OperationsFit, FilesInDirectories, [FilesNext]_filesVars
  PROVE  FilesInDirectories'
<1>0. /\ value \in [Keys -> Values \cup {Empty, None}] /\ dir \in [Keys -> BOOLEAN]
      /\ Above \in [Keys -> SUBSET Keys] /\ Empty # None /\ None \notin Values
      /\ \A k \in Keys : k \notin Above[k]
  BY FilesHoldValues, AboveIsTree DEF FilesTypeOK
<1>1. CASE UNCHANGED filesVars
  BY <1>1, SameDirectories DEF filesVars, files, Alike
<1>2. CASE Second /\ Watch
  BY <1>2, SameDirectories DEF Second, files, Alike
<1>3. CASE Crash /\ Watch
  BY <1>3, SameDirectories DEF Crash, files, Idle
<1>4. ASSUME NEW c \in Callers, NEW o, Fresh(o), Begin(c, o), Watch
      PROVE  FilesInDirectories'
  <2>1. Began(c, o)
    BY <1>4, BeginIs DEF Fresh
  <2>2. op'[c].at \notin {"open", "write"}
    BY <1>4, <2>1 DEF Began, Fresh, Alike
  <2> QED
    BY <2>1, <2>2, SameDirectories DEF Began, files
<1>5. ASSUME NEW c \in Callers, Continues(c), Watch
      PROVE  FilesInDirectories'
  <2>1. /\ Runs(c) /\ op[c] \in OperationTypes
        /\ op[c].at \in {"mkdir", "open", "write", "dropMeta", "openMeta", "writeMeta"} <=> op[c].name = "put"
        /\ op[c].name \in {"put", "get", "has", "delete"} => op[c].key \in Keys
    BY <1>5, RunsAre, StagesAre
  <2>2. \A d \in Callers \ {c} : Alike(op'[d], op[d]) /\ (op[d].lost => op'[d].lost)
    BY <2>1 DEF Runs
  <2>3. ASSUME UNCHANGED <<value, dir>>, op'[c].at \notin {"open", "write"}
        PROVE  FilesInDirectories'
    BY <2>2, <2>3, SameDirectories
  <2>4. op'[c] = Idle => op'[c].at \notin {"open", "write"}
    BY DEF Idle
  <2>5. CASE MakeDir(c)
    <3>1. CASE op'[c] = Idle /\ UNCHANGED <<value, dir>>
      BY <2>3, <2>4, <3>1
    <3>2. CASE /\ Moves(op[c], op'[c], "open") /\ ~ UnderFile(op[c].key) /\ value' = value
               /\ dir' = [q \in Keys |-> dir[q] \/ q \in Above[op[c].key]]
      <4>1. op[c].key \in Keys /\ op'[c].key = op[c].key /\ op'[c].at = "open"
        BY <2>1, <2>5, <3>2 DEF MakeDir, Moves
      <4>2. \A p \in Above[op[c].key] : value[p] = None
        BY <3>2 DEF UnderFile
      <4>3. \A q \in Keys : dir'[q] <=> dir[q] \/ q \in Above[op[c].key]
        BY <3>2
      <4>4. \A k \in Keys : value'[k] # None => ~ dir'[k] /\ \A p \in Above[k] : dir'[p]
        BY <1>0, <3>2, <4>2, <4>3 DEF FilesInDirectories
      <4>5. ASSUME NEW d \in Callers
            PROVE  /\ op'[d].at \in {"open", "write"} => \A p \in Above[op'[d].key] : dir'[p]
                   /\ op'[d].at = "write" /\ ~ op'[d].lost => value'[op'[d].key] # None
        <5>1. CASE d = c
          BY <1>0, <4>1, <4>3, <5>1
        <5>2. CASE d # c
          <6>1. Alike(op'[d], op[d]) /\ (op[d].lost => op'[d].lost)
            BY <2>2, <5>2
          <6>2. op[d].at \in {"open", "write"} => op[d].key \in Keys
            BY StagesAre
          <6> QED
            BY <1>0, <3>2, <4>3, <6>1, <6>2 DEF FilesInDirectories, Alike
        <5> QED
          BY <5>1, <5>2
      <4> QED
        BY <4>4, <4>5 DEF FilesInDirectories
    <3> QED
      BY <2>5, <3>1, <3>2, PutStepsAre
  <2>6. CASE Open(c)
    <3>1. CASE op'[c] = Idle /\ UNCHANGED <<value, dir>>
      BY <2>3, <2>4, <3>1
    <3>2. CASE /\ Moves(op[c], op'[c], "write") /\ ~ dir[op[c].key] /\ dir' = dir
               /\ value' = [value EXCEPT ![op[c].key] = Empty]
      <4>1. op[c].key \in Keys /\ op[c].at = "open" /\ op'[c].key = op[c].key
        BY <2>1, <2>6, <3>2 DEF Open, Moves
      <4>2. \A p \in Above[op[c].key] : dir[p]
        BY <4>1 DEF FilesInDirectories
      <4>3. \A d \in Callers \ {c} : Alike(op'[d], op[d]) /\ (op[d].lost => op'[d].lost)
        BY <2>2
      <4> QED
        BY <1>0, <3>2, <4>1, <4>2, <4>3 DEF FilesInDirectories, Alike
    <3> QED
      BY <2>6, <3>1, <3>2, PutStepsAre
  <2>7. CASE WriteValue(c)
    <3>1. /\ op[c].at = "write" /\ dir' = dir /\ op'[c].at \notin {"open", "write"}
          /\ value' = IF op[c].lost THEN value ELSE [value EXCEPT ![op[c].key] = op[c].value]
      BY <2>7, PutStepsAre
    <3>2. CASE op[c].lost
      BY <2>3, <3>1, <3>2
    <3>3. CASE ~ op[c].lost
      <4>1. op[c].key \in Keys /\ op[c].value \in Values
        BY <2>1, <3>1 DEF OperationsFit, OperationFits
      <4>2. value[op[c].key] # None
        BY <3>1, <3>3 DEF FilesInDirectories
      <4>3. \A k \in Keys : (value'[k] # None <=> value[k] # None)
        BY <1>0, <3>1, <3>3, <4>1, <4>2
      <4>4. ASSUME NEW d \in Callers, op'[d].at \in {"open", "write"}
            PROVE  Alike(op'[d], op[d]) /\ (op[d].lost => op'[d].lost) /\ op[d].key \in Keys
        BY <2>2, <3>1, <4>4, StagesAre DEF Alike
      <4> QED
        BY <3>1, <4>3, <4>4 DEF FilesInDirectories, Alike
    <3> QED
      BY <3>2, <3>3
  <2>8. ASSUME NEW k \in Keys, value' = [value EXCEPT ![k] = None], dir' = dir, Loses(c, k, "write"),
               op'[c].at \notin {"open", "write"}
        PROVE  FilesInDirectories'
    <3>1. \A j \in Keys : value'[j] # None => value[j] # None
      BY <1>0, <2>8
    <3>2. ASSUME NEW d \in Callers, op'[d].at = "write", ~ op'[d].lost
          PROVE  value'[op'[d].key] # None
      <4>1. /\ op[d].at = "write" /\ op[d].key # k /\ op'[d].key = op[d].key /\ ~ op[d].lost
        BY <2>8, <3>2 DEF Loses, Alike
      <4>2. op[d].key \in Keys
        BY <4>1, StagesAre
      <4> QED
        BY <1>0, <2>8, <4>1, <4>2 DEF FilesInDirectories
    <3>3. ASSUME NEW d \in Callers, op'[d].at \in {"open", "write"}
          PROVE  Alike(op'[d], op[d])
      BY <2>2, <2>8, <3>3
    <3> QED
      BY <2>8, <3>1, <3>2, <3>3 DEF FilesInDirectories, Alike
  <2>9. CASE Unlink(c)
    <3>1. op[c].key \in Keys
      BY <2>9, StagesAre DEF Unlink
    <3> QED
      BY <2>3, <2>4, <2>8, <2>9, <3>1, ReadStepsAre DEF Moves
  <2>10. CASE Expire(c)
    <3>1. op'[c].at = "expire" /\ dir' = dir
      BY <2>10, ExpireIs DEF ListGoes
    <3> QED
      BY <2>3, <2>8, <2>10, <3>1, ExpireIs
  <2>11. CASE DropMeta(c) \/ OpenMeta(c) \/ WriteMeta(c) \/ ReadValue(c) \/ ReadMeta(c) \/ UnlinkMeta(c)
    <3>1. UNCHANGED <<value, dir>> /\ op'[c].at \notin {"open", "write"}
      BY <2>4, <2>11, PutStepsAre, ReadStepsAre DEF Moves, files
    <3> QED
      BY <2>3, <3>1
  <2>12. CASE Visit(c) \/ ListMeta(c) \/ Filter(c) \/ Listed(c)
    <3>1. UNCHANGED <<value, dir>> /\ op'[c].at \notin {"open", "write"}
      BY <2>4, <2>12, VisitIs, ListMetaIs, FilterIs, ListedIs DEF ListGoes, files
    <3> QED
      BY <2>3, <3>1
  <2> QED
    BY <1>5, <2>5, <2>6, <2>7, <2>9, <2>10, <2>11, <2>12 DEF Continues
<1> QED
  BY <1>1, <1>2, <1>3, <1>4, <1>5, NextFilesIs

\* A writer that nothing has met keeps its files to itself.
LEMMA UnmetIs ==
  ASSUME FilesTypeOK, OperationsFit, OverlapsMarked, NEW c \in Callers, Runs(c),
         NEW d \in Callers \ {c}, Writes(op[d]), Running(d), ~ op[d].met
  PROVE  op[d].key \in Keys /\ op[d].key \notin Touched(op[c])
<1>1. op[d].key \in Keys /\ Touched(op[d]) = {op[d].key}
  BY StagesAre
<1>2. op[d].key \in Touched(op[c]) => FALSE
  BY <1>1, OverlapIs DEF Runs
<1> QED
  BY <1>1, <1>2

\* An undisturbed writer finds its files as it left them, step after step.
LEMMA WritersFindStay ==
  ASSUME FilesTypeOK, OperationsFit, OverlapsMarked, WritersFind, [FilesNext]_filesVars
  PROVE  WritersFind'
<1>1. CASE UNCHANGED filesVars
  BY <1>1 DEF filesVars, files, WritersFind
<1>2. CASE Second /\ Watch
  BY <1>2 DEF Second, files, WritersFind
<1>3. CASE Crash /\ Watch
  BY <1>3 DEF Crash, Idle, WritersFind
<1>4. ASSUME NEW c \in Callers, NEW o, Fresh(o), Begin(c, o), Watch
      PROVE  WritersFind'
  <2>1. Began(c, o)
    BY <1>4, BeginIs DEF Fresh
  <2>2. op'[c].at \in {"mkdir", "read", "meta", "unlink", "walk"}
    BY <1>4, <2>1 DEF Began, Fresh, Alike
  <2>3. \A d \in Callers \ {c} :
          Alike(op'[d], op[d]) /\ op'[d].lost = op[d].lost /\ (op[d].met => op'[d].met)
    BY <2>1 DEF Began
  <2>4. value' = value
    BY <2>1 DEF Began, files
  <2> QED
    BY <2>2, <2>3, <2>4 DEF WritersFind, Alike
<1>5. ASSUME NEW c \in Callers, Continues(c), Watch
      PROVE  WritersFind'
  <2>1. Runs(c) /\ op[c] \in OperationTypes /\ value \in [Keys -> Values \cup {Empty, None}]
    BY <1>5, RunsAre, StagesAre DEF FilesTypeOK
  <2>2. ASSUME NEW d \in Callers \ {c}, ~ op'[d].met
        PROVE  /\ op'[d].at \in {"write", "writeMeta"} => ~ op'[d].lost
               /\ op'[d].at \in {"dropMeta", "openMeta", "writeMeta"} => value'[op'[d].key] = op'[d].value
               /\ op'[d].name = "delete" /\ op'[d].at = "unlinkMeta" => value'[op'[d].key] = None
    <3>1. /\ Alike(op'[d], op[d]) /\ ~ op[d].met
          /\ op[d].key \notin Touched(op[c]) => op'[d].lost = op[d].lost
      BY <2>1, <2>2 DEF Runs
    <3>2. ASSUME \/ op[d].at \in {"write", "writeMeta", "dropMeta", "openMeta"}
                 \/ op[d].name = "delete" /\ op[d].at = "unlinkMeta"
          PROVE  op'[d].lost = op[d].lost /\ value'[op[d].key] = value[op[d].key]
      <4>1. Writes(op[d]) /\ Running(d)
        BY <3>2, StagesAre DEF Running
      <4>2. op[d].key \in Keys /\ op[d].key \notin Touched(op[c])
        BY <2>1, <3>1, <4>1, UnmetIs
      <4> QED
        BY <2>1, <3>1, <4>2 DEF Runs
    <3>3. /\ op[d].at \in {"write", "writeMeta"} => ~ op[d].lost
          /\ op[d].at \in {"dropMeta", "openMeta", "writeMeta"} => value[op[d].key] = op[d].value
          /\ op[d].name = "delete" /\ op[d].at = "unlinkMeta" => value[op[d].key] = None
      BY <3>1 DEF WritersFind
    <3> QED
      BY <3>1, <3>2, <3>3 DEF Alike
  <2>3. ASSUME ~ op'[c].met
        PROVE  /\ op'[c].at \in {"write", "writeMeta"} => ~ op'[c].lost
               /\ op'[c].at \in {"dropMeta", "openMeta", "writeMeta"} => value'[op'[c].key] = op'[c].value
               /\ op'[c].name = "delete" /\ op'[c].at = "unlinkMeta" => value'[op'[c].key] = None
    <3>1. CASE op'[c] = Idle
      BY <3>1 DEF Idle
    <3>2. CASE op'[c] # Idle
      <4>1. Proceeds(op[c], op'[c]) /\ ~ op[c].met
        BY <2>1, <2>3, <3>2 DEF Runs, Proceeds
      <4>2. /\ op[c].at \in {"write", "writeMeta"} => ~ op[c].lost
            /\ op[c].at \in {"dropMeta", "openMeta", "writeMeta"} => value[op[c].key] = op[c].value
            /\ op[c].lost => op[c].at \in {"write", "writeMeta"}
        BY <4>1 DEF WritersFind, OperationsFit, OperationFits
      <4>3. op[c].at \in {"open", "write", "unlink"} => op[c].key \in Keys
        BY StagesAre
      <4>4. CASE MakeDir(c) \/ Open(c)
        BY <3>2, <4>2, <4>4, PutStepsAre DEF Moves
      <4>5. CASE WriteValue(c)
        <5>1. /\ op[c].at = "write" /\ op'[c].key = op[c].key /\ op'[c].value = op[c].value /\ ~ op[c].lost
              /\ value' = [value EXCEPT ![op[c].key] = op[c].value]
              /\ op'[c].at \in {"dropMeta", "openMeta"}
          BY <4>2, <4>5, PutStepsAre DEF Proceeds
        <5> QED
          BY <2>1, <4>3, <5>1
      <4>6. CASE DropMeta(c) \/ WriteMeta(c) \/ UnlinkMeta(c) \/ Listed(c)
        BY <3>2, <4>6, PutStepsAre, ReadStepsAre, ListedIs
      <4>7. CASE OpenMeta(c)
        <5>1. /\ op[c].at = "openMeta" /\ op'[c].at = "writeMeta" /\ op'[c].lost = op[c].lost /\ value' = value
              /\ op'[c].key = op[c].key /\ op'[c].value = op[c].value
          BY <4>7, PutStepsAre DEF Moves, Proceeds
        <5> QED
          BY <4>2, <5>1
      <4>8. CASE ReadValue(c) \/ ReadMeta(c)
        BY <3>2, <4>8, ReadStepsAre DEF Moves
      <4>9. CASE Unlink(c)
        <5>1. /\ op[c].at = "unlink" /\ op'[c].at = "unlinkMeta" /\ op'[c].key = op[c].key
              /\ value' = [value EXCEPT ![op[c].key] = None]
          BY <3>2, <4>9, ReadStepsAre DEF Moves
        <5> QED
          BY <2>1, <4>3, <5>1
      <4>10. CASE Visit(c) \/ ListMeta(c) \/ Filter(c) \/ Expire(c)
        <5>1. op'[c].at \in {"walk", "listMeta", "expire"}
          BY <3>2, <4>10, VisitIs, ListMetaIs, FilterIs, ExpireIs DEF ListGoes
        <5> QED
          BY <5>1
      <4> QED
        BY <1>5, <4>4, <4>5, <4>6, <4>7, <4>8, <4>9, <4>10 DEF Continues
    <3> QED
      BY <3>1, <3>2
  <2> QED
    BY <2>2, <2>3 DEF WritersFind
<1> QED
  BY <1>1, <1>2, <1>3, <1>4, <1>5, NextFilesIs

\* Only a put makes a file, that of its key.
LEMMA FilesAreMade ==
  ASSUME FilesTypeOK, OperationsFit, NEW c \in Callers, Continues(c), NEW k \in Keys,
         value'[k] # None, value[k] = None
  PROVE  Writes(op[c]) /\ op[c].key = k
<1>1. value \in [Keys -> Values \cup {Empty, None}]
  BY DEF FilesTypeOK
<1>2. CASE Open(c)
  <2>1. value' = value \/ value' = [value EXCEPT ![op[c].key] = Empty]
    BY <1>2, PutStepsAre
  <2>2. Writes(op[c])
    BY <1>2, StagesAre DEF Open
  <2> QED
    BY <1>1, <2>1, <2>2
<1>3. CASE WriteValue(c)
  <2>1. value' = value \/ value' = [value EXCEPT ![op[c].key] = op[c].value]
    BY <1>3, PutStepsAre
  <2>2. Writes(op[c])
    BY <1>3, StagesAre DEF WriteValue
  <2> QED
    BY <1>1, <2>1, <2>2
<1>4. CASE MakeDir(c) \/ DropMeta(c) \/ OpenMeta(c) \/ WriteMeta(c)
  BY <1>4, PutStepsAre
<1>5. CASE ReadValue(c) \/ ReadMeta(c) \/ UnlinkMeta(c) \/ Visit(c) \/ ListMeta(c) \/ Filter(c) \/ Listed(c)
  BY <1>5, ReadStepsAre, VisitIs, ListMetaIs, FilterIs, ListedIs DEF files
<1>6. CASE Unlink(c)
  <2>1. value' = value \/ value' = [value EXCEPT ![op[c].key] = None]
    BY <1>6, ReadStepsAre
  <2> QED
    BY <1>1, <2>1
<1>7. CASE Expire(c)
  <2>1. \E j \in Keys : value' = value \/ value' = [value EXCEPT ![j] = None]
    BY <1>7, ExpireIs
  <2> QED
    BY <1>1, <2>1
<1> QED
  BY <1>2, <1>3, <1>4, <1>5, <1>6, <1>7 DEF Continues

\* An operation that deletes metadata is at the key.
LEMMA DropperIs ==
  ASSUME FilesTypeOK, OperationsFit, NEW d \in Callers, NEW k \in Keys, DropsMeta(op[d], k)
  PROVE  Running(d) /\ k \in Touched(op[d])
BY StagesAre DEF DropsMeta, Running

\* Whoever is to delete metadata has deleted the value, or the key is disturbed.
LEMMA DroppersFindStay ==
  ASSUME FilesTypeOK, OperationsFit, OverlapsMarked, DroppersFind, [FilesNext]_filesVars
  PROVE  DroppersFind'
<1>0. value \in [Keys -> Values \cup {Empty, None}]
  BY DEF FilesTypeOK
<1>1. CASE UNCHANGED filesVars
  BY <1>1 DEF filesVars, files, history, DroppersFind, DropsMeta
<1>2. CASE Second /\ Watch
  BY <1>2 DEF Second, files, history, DroppersFind, DropsMeta
<1>3. CASE Crash /\ Watch
  BY <1>3 DEF Crash, Idle, DroppersFind, DropsMeta
<1>4. ASSUME NEW c \in Callers, NEW o, Fresh(o), Begin(c, o), Watch
      PROVE  DroppersFind'
  <2>1. Began(c, o)
    BY <1>4, BeginIs DEF Fresh
  <2>2. op'[c].at \in {"mkdir", "read", "meta", "unlink", "walk"}
    BY <1>4, <2>1 DEF Began, Fresh, Alike
  <2>3. \A d \in Callers \ {c} : Alike(op'[d], op[d])
    BY <2>1 DEF Began
  <2>4. value' = value /\ \A k \in Keys : alone'[k] => alone[k]
    BY <2>1 DEF Began, files
  <2> QED
    BY <2>2, <2>3, <2>4 DEF DroppersFind, DropsMeta, Alike
<1>5. ASSUME NEW c \in Callers, Continues(c), Watch
      PROVE  DroppersFind'
  <2>1. Runs(c) /\ Running(c)
    BY <1>5, RunsAre DEF Runs
  <2> SUFFICES ASSUME NEW d \in Callers, NEW k \in Keys, DropsMeta(op'[d], k), alone'[k]
               PROVE  value'[k] = None
    BY DEF DroppersFind
  <2>2. CASE d # c
    <3>1. DropsMeta(op[d], k)
      BY <2>1, <2>2 DEF Runs, DropsMeta, Alike
    <3>2. Running(d) /\ k \in Touched(op[d])
      BY <3>1, DropperIs
    <3>3. alone[k]
      BY <2>1, <2>2, <3>2, HistoryStays
    <3>4. value[k] = None
      BY <3>1, <3>3 DEF DroppersFind
    <3>5. value'[k] # None => FALSE
      <4> SUFFICES ASSUME value'[k] # None
                   PROVE  FALSE
        OBVIOUS
      <4>1. Writes(op[c]) /\ op[c].key = k
        BY <1>5, <3>4, FilesAreMade
      <4>2. k \in Touched(op[c])
        BY <4>1 DEF Writes, Touched
      <4> QED
        BY <2>1, <2>2, <3>2, <3>3, <4>1, <4>2, OverlapIs
    <3> QED
      BY <3>5
  <2>3. CASE d = c
    <3>1. \/ op'[c].at = "unlinkMeta" /\ op'[c].key = k
          \/ op'[c].at = "expire" /\ <<"meta", k>> \in op'[c].todo
      BY <2>3 DEF DropsMeta
    <3>2. op'[c] # Idle
      BY <3>1 DEF Idle
    <3>3. CASE Unlink(c)
      <4>1. op'[c].key = op[c].key /\ op'[c].at = "unlinkMeta" /\ value' = [value EXCEPT ![op[c].key] = None]
        BY <3>2, <3>3, ReadStepsAre DEF Moves
      <4> QED
        BY <1>0, <3>1, <4>1
    <3>4. CASE Filter(c)
      BY <3>1, <3>4, FilterIs DEF ListGoes
    <3>5. CASE Expire(c)
      <4>1. /\ op[c].at = "expire" /\ UNCHANGED history
            /\ \E entry \in op[c].todo :
                 \/ /\ entry[1] = "path" /\ value' = [value EXCEPT ![entry[2]] = None]
                    /\ op'[c].todo = (op[c].todo \ {entry}) \cup {<<"meta", entry[2]>>}
                 \/ value' = value /\ op'[c].todo = op[c].todo \ {entry}
        BY <3>5, ExpireIs DEF ListGoes
      <4>2. op'[c].at = "expire"
        BY <3>5, ExpireIs DEF ListGoes
      <4>3. <<"meta", k>> \in op'[c].todo /\ alone[k]
        BY <3>1, <4>1, <4>2 DEF history
      <4>4. <<"meta", k>> \in op[c].todo => value[k] = None
        BY <4>1, <4>3 DEF DroppersFind, DropsMeta
      <4> QED
        BY <1>0, <4>1, <4>3, <4>4
    <3>6. CASE MakeDir(c) \/ Open(c) \/ WriteValue(c) \/ DropMeta(c) \/ OpenMeta(c) \/ WriteMeta(c)
      BY <3>1, <3>2, <3>6, PutStepsAre DEF Moves
    <3>7. CASE ReadValue(c) \/ ReadMeta(c) \/ UnlinkMeta(c)
      BY <3>1, <3>2, <3>7, ReadStepsAre DEF Moves
    <3>8. CASE Visit(c) \/ ListMeta(c) \/ Listed(c)
      BY <3>1, <3>2, <3>8, VisitIs, ListMetaIs, ListedIs DEF ListGoes
    <3> QED
      BY <1>5, <3>3, <3>4, <3>5, <3>6, <3>7, <3>8 DEF Continues
  <2> QED
    BY <2>2, <2>3
<1> QED
  BY <1>1, <1>2, <1>3, <1>4, <1>5, NextFilesIs

-----------------------------------------------------------------------------
(***************************************************************************)
(* Files: what an undisturbed key holds.                                   *)
(***************************************************************************)
\* While an operation that does not change it is at an undisturbed key, none
\* does.
LEMMA HoldsBefore ==
  ASSUME FilesTypeOK, OperationsFit, OverlapsMarked, UndisturbedHolds, NEW c \in Callers, Running(c),
         NEW k \in Keys, k \in Touched(op[c]), alone[k], op[c].key = k => ~ Changing(op[c])
  PROVE  Holds(k)
<1>1. ASSUME NEW d \in Callers, op[d].key = k, Changing(op[d])
      PROVE  FALSE
  <2>1. Running(d) /\ Writes(op[d])
    BY <1>1, StagesAre DEF Changing, Running
  <2>2. k \in Touched(op[d]) /\ d # c
    BY <1>1, <2>1 DEF Touched, Writes
  <2> QED
    BY <2>1, <2>2, OverlapIs
<1> QED
  BY <1>1 DEF UndisturbedHolds

\* A key that a step leaves as it is.
LEMMA Unaffected ==
  ASSUME UndisturbedHolds, NEW c \in Callers, Runs(c), NEW k \in Keys,
         value'[k] = value[k], meta'[k] = meta[k], alone'[k] = alone[k], want'[k] = want[k],
         DropsMeta(op[c], k) => DropsMeta(op'[c], k),
         op[c].key = k /\ Changing(op[c]) => op'[c].key = k /\ Changing(op'[c]),
         alone'[k], \A d \in Callers : op'[d].key = k => ~ Changing(op'[d])
  PROVE  Holds(k)'
<1>1. \A d \in Callers \ {c} : Alike(op'[d], op[d]) /\ now' = now
  BY DEF Runs
<1>2. \A d \in Callers : op[d].key = k => ~ Changing(op[d])
  BY <1>1 DEF Alike, Changing
<1>3. Holds(k)
  BY <1>2 DEF UndisturbedHolds
<1>4. \A d \in Callers : DropsMeta(op[d], k) => DropsMeta(op'[d], k)
  BY <1>1 DEF Alike, DropsMeta
<1>5. now' = now
  BY DEF Runs
<1> QED
  BY <1>3, <1>4, <1>5 DEF Holds

\* What an undisturbed key holds stays, through every step and crash.
LEMMA UndisturbedStay ==
  ASSUME FilesTypeOK, OperationsFit, OverlapsMarked, MetWritersDisturb, UndisturbedHolds, ReadersExpire,
         DroppersFind, WritersFind, [FilesNext]_filesVars
  PROVE  UndisturbedHolds'
<1>0. /\ value \in [Keys -> Values \cup {Empty, None}] /\ meta \in [Keys -> Expirations \cup {Empty}]
      /\ want \in [Keys -> [value : Values \cup {None}, expiration : Expirations]]
      /\ alone \in [Keys -> BOOLEAN]
  BY DEF FilesTypeOK
<1>1. CASE UNCHANGED filesVars
  BY <1>1 DEF filesVars, files, history, UndisturbedHolds, Holds
<1>2. CASE Second /\ Watch
  <2>1. now' = now + 1 /\ UNCHANGED <<value, meta, op, want, alone>> /\ now \in Nat
    BY <1>2 DEF Second, files, history, FilesTypeOK
  <2>2. \A k \in Keys : Expired(want[k].expiration, now) => Expired(want'[k].expiration, now')
    <3> SUFFICES ASSUME NEW k \in Keys, Expired(want[k].expiration, now)
                 PROVE  Expired(want'[k].expiration, now')
      OBVIOUS
    <3>1. want[k].expiration \in 0 .. MaxTime /\ want'[k] = want[k]
      BY <1>0, <2>1 DEF Expired, Expirations
    <3> QED
      BY <2>1, <3>1, FileBounds DEF Expired
  <2> QED
    BY <2>1, <2>2 DEF UndisturbedHolds, Holds
<1>3. CASE Crash /\ Watch
  <2> SUFFICES ASSUME NEW k \in Keys, alone'[k]
               PROVE  Holds(k)'
    BY DEF UndisturbedHolds
  <2>1. alone[k] /\ (\A d \in Callers : Running(d) => k \notin Touched(op[d])) /\ UNCHANGED <<value, meta, now, want>>
    BY <1>3 DEF Crash, files
  <2>2. \A d \in Callers : op[d].key = k => ~ Changing(op[d])
    <3> SUFFICES ASSUME NEW d \in Callers, op[d].key = k, Changing(op[d])
                 PROVE  FALSE
      OBVIOUS
    <3>1. Running(d) /\ Writes(op[d])
      BY StagesAre DEF Changing, Running
    <3> QED
      BY <2>1, <3>1 DEF Touched, Writes
  <2>3. Holds(k)
    BY <2>1, <2>2 DEF UndisturbedHolds
  <2>4. \A d \in Callers : ~ DropsMeta(op[d], k)
    BY <2>1, DropperIs
  <2> QED
    BY <2>1, <2>3, <2>4 DEF Holds
<1>4. ASSUME NEW c \in Callers, NEW o, Fresh(o), Begin(c, o), Watch
      PROVE  UndisturbedHolds'
  <2>1. Began(c, o) /\ op[c].at = "idle"
    BY <1>4, BeginIs DEF Fresh, Began, Running
  <2>2. \A d \in Callers \ {c} : Alike(op'[d], op[d])
    BY <2>1 DEF Began
  <2>3. UNCHANGED <<value, meta, now, want>> /\ \A k \in Keys : alone'[k] => alone[k]
    BY <2>1 DEF Began, files
  <2> SUFFICES ASSUME NEW k \in Keys, alone'[k], \A d \in Callers : op'[d].key = k => ~ Changing(op'[d])
               PROVE  Holds(k)'
    BY DEF UndisturbedHolds
  <2>4. \A d \in Callers : op[d].key = k => ~ Changing(op[d])
    BY <2>1, <2>2, StagesAre DEF Alike, Changing
  <2>5. Holds(k)
    BY <2>3, <2>4 DEF UndisturbedHolds
  <2>6. \A d \in Callers : DropsMeta(op[d], k) => DropsMeta(op'[d], k)
    BY <2>1, <2>2 DEF Alike, DropsMeta
  <2> QED
    BY <2>3, <2>5, <2>6 DEF Holds
<1>5. ASSUME NEW c \in Callers, Continues(c), Watch
      PROVE  UndisturbedHolds'
  <2>1. Runs(c) /\ Running(c) /\ now' = now
    BY <1>5, RunsAre DEF Runs
  <2> SUFFICES ASSUME NEW k \in Keys, alone'[k], \A d \in Callers : op'[d].key = k => ~ Changing(op'[d])
               PROVE  Holds(k)'
    BY DEF UndisturbedHolds
  <2>2. Changing(op[c]) => Writes(op[c])
    BY StagesAre DEF Changing
  <2>3. CASE k \notin Touched(op[c])
    <3>1. op[c].key # k
      <4>1. op[c].name \in {"put", "get", "has", "delete", "list"}
        BY <2>1, StagesAre DEF Running, OperationTypes
      <4> QED
        BY <2>3, <4>1 DEF Touched
    <3>2. alone'[k] = alone[k] /\ want'[k] = want[k]
      BY <2>1, <3>1, HistoryStays, OverlapsMarked
    <3>3. value'[k] = value[k] /\ meta'[k] = meta[k]
      BY <2>1, <2>3 DEF Runs
    <3>4. ~ DropsMeta(op[c], k)
      BY <2>3, DropperIs
    <3> QED
      BY <2>1, <3>1, <3>2, <3>3, <3>4, Unaffected
  <2>4. ASSUME UNCHANGED history, value'[k] = value[k], meta'[k] = meta[k],
               DropsMeta(op[c], k) => DropsMeta(op'[c], k),
               op[c].key = k /\ Changing(op[c]) => op'[c].key = k /\ Changing(op'[c])
        PROVE  Holds(k)'
    BY <2>1, <2>4, Unaffected DEF history
  <2>5. ASSUME k \in Touched(op[c]), UNCHANGED history, op[c].key = k => ~ Changing(op[c])
        PROVE  Holds(k) /\ alone[k] /\ want'[k] = want[k]
    BY <2>1, <2>5, HoldsBefore DEF history
  \* An operation ends that has stored w.
  <2>6. ASSUME k = op[c].key, Writes(op[c]), NEW w, Stored(c, w),
               ~ op[c].met => value'[k] = w.value /\ meta'[k] = w.expiration
        PROVE  Holds(k)'
    <3>1. CASE op[c].met
      <4>1. ~ alone[k] /\ alone' = alone
        BY <2>1, <2>6, <3>1 DEF MetWritersDisturb, Stored, history
      <4> QED
        BY <4>1
    <3>2. CASE ~ op[c].met
      <4>1. want' = [want EXCEPT ![k] = w]
        BY <2>6, <3>2 DEF Stored
      <4>2. want'[k] = w
        BY <1>0, <4>1
      <4> QED
        BY <2>6, <3>2, <4>2 DEF Holds
    <3> QED
      BY <3>1, <3>2
  <2>7. ASSUME k \in Touched(op[c]), MakeDir(c) \/ Open(c) \/ WriteValue(c) \/ DropMeta(c) \/ OpenMeta(c) \/ WriteMeta(c)
        PROVE  Holds(k)'
    <3>1. k = op[c].key /\ Writes(op[c])
      BY <2>7, StagesAre DEF MakeDir, Open, WriteValue, DropMeta, OpenMeta, WriteMeta
    <3>2. op[c].at \in {"mkdir", "open"} => ~ DropsMeta(op[c], k) /\ ~ Changing(op[c])
      BY DEF DropsMeta, Changing, OperationsFit, OperationFits, Stages
    <3>3. CASE MakeDir(c)
      <4>1. UNCHANGED <<value, meta, history>> /\ op[c].at = "mkdir"
        BY <3>3, PutStepsAre
      <4> QED
        BY <2>4, <3>2, <4>1
    <3>4. CASE Open(c)
      <4>1. CASE op'[c] = Idle /\ UNCHANGED <<value, meta, history>>
        BY <2>4, <3>2, <3>4, <4>1 DEF Open
      <4>2. CASE Moves(op[c], op'[c], "write")
        BY <3>1, <4>2 DEF Moves, Changing
      <4> QED
        BY <3>4, <4>1, <4>2, PutStepsAre
    <3>5. CASE WriteValue(c)
      <4>1. op'[c].key = op[c].key /\ op'[c].at \in {"dropMeta", "openMeta"}
        BY <3>5, PutStepsAre
      <4> QED
        BY <3>1, <4>1 DEF Changing
    <3>6. CASE OpenMeta(c)
      <4>1. op'[c].key = op[c].key /\ op'[c].at = "writeMeta"
        BY <3>6, PutStepsAre DEF Moves
      <4> QED
        BY <3>1, <4>1 DEF Changing
    <3>7. CASE DropMeta(c)
      <4>1. /\ op[c].at = "dropMeta" /\ value' = value /\ meta' = [meta EXCEPT ![op[c].key] = None]
            /\ Stored(c, [value |-> op[c].value, expiration |-> None])
        BY <3>7, PutStepsAre
      <4>2. ~ op[c].met => value'[k] = op[c].value /\ meta'[k] = None
        BY <1>0, <3>1, <4>1 DEF WritersFind
      <4> QED
        BY <2>6, <3>1, <4>1, <4>2
    <3>8. CASE WriteMeta(c)
      <4>1. /\ op[c].at = "writeMeta" /\ value' = value
            /\ meta' = IF op[c].lost THEN meta ELSE [meta EXCEPT ![op[c].key] = op[c].expiration]
            /\ Stored(c, [value |-> op[c].value, expiration |-> op[c].expiration])
        BY <3>8, PutStepsAre
      <4>2. ~ op[c].met => value'[k] = op[c].value /\ meta'[k] = op[c].expiration
        BY <1>0, <3>1, <4>1 DEF WritersFind
      <4> QED
        BY <2>6, <3>1, <4>1, <4>2
    <3> QED
      BY <2>7, <3>3, <3>4, <3>5, <3>6, <3>7, <3>8
  <2>8. ASSUME k \in Touched(op[c]), ReadValue(c) \/ ReadMeta(c) \/ Unlink(c) \/ UnlinkMeta(c)
        PROVE  Holds(k)'
    <3>1. k = op[c].key /\ op[c].name \in {"get", "has", "delete"}
      BY <2>8, StagesAre DEF ReadValue, ReadMeta, Unlink, UnlinkMeta
    <3>2. op[c].at \in {"read", "meta", "unlink"} => ~ DropsMeta(op[c], k) /\ ~ Changing(op[c])
      BY DEF DropsMeta, Changing
    <3>3. CASE ReadValue(c) \/ ReadMeta(c)
      <4>1. UNCHANGED <<value, meta, history>> /\ op[c].at \in {"read", "meta"}
        BY <3>3, ReadStepsAre DEF files
      <4> QED
        BY <2>4, <3>2, <4>1
    <3>4. CASE Unlink(c)
      <4>0. op[c].at = "unlink" /\ UNCHANGED <<meta, history>>
        BY <3>4, ReadStepsAre
      <4>1. CASE value' = value
        BY <2>4, <3>2, <4>0, <4>1
      <4>2. CASE Moves(op[c], op'[c], "unlinkMeta") /\ value' = [value EXCEPT ![op[c].key] = None]
        <5>1. op'[c].at = "unlinkMeta" /\ op'[c].key = k /\ op'[c].name = op[c].name /\ value'[k] = None
          BY <1>0, <3>1, <4>2 DEF Moves, Proceeds
        <5>2. op[c].name \in {"get", "has"} /\ DropsMeta(op'[c], k)
          BY <3>1, <5>1 DEF Changing, DropsMeta
        <5>3. Holds(k) /\ alone[k] /\ want'[k] = want[k]
          BY <2>5, <2>8, <3>2, <4>0
        <5>4. Expired(want[k].expiration, now)
          BY <3>1, <4>0, <5>2, <5>3 DEF ReadersExpire, ReaderExpires
        <5> QED
          BY <2>1, <4>0, <5>1, <5>2, <5>3, <5>4 DEF Holds
      <4> QED
        BY <3>4, <4>1, <4>2, ReadStepsAre
    <3>5. CASE UnlinkMeta(c)
      <4>1. /\ op[c].at = "unlinkMeta" /\ meta' = [meta EXCEPT ![op[c].key] = None] /\ value' = value
            /\ IF op[c].name = "delete" THEN Stored(c, NoFile) ELSE UNCHANGED history
        BY <3>5, ReadStepsAre
      <4>2. meta'[k] = None /\ DropsMeta(op[c], k)
        BY <1>0, <3>1, <4>1 DEF DropsMeta
      <4>3. CASE op[c].name = "delete"
        <5>1. ~ op[c].met => value'[k] = None
          BY <3>1, <4>1, <4>3 DEF WritersFind
        <5> QED
          BY <2>6, <3>1, <4>1, <4>2, <4>3, <5>1 DEF NoFile, Writes
      <4>4. CASE op[c].name # "delete"
        <5>1. Holds(k) /\ alone[k] /\ want'[k] = want[k]
          BY <2>5, <2>8, <4>1, <4>4 DEF Changing
        <5>2. Expired(want[k].expiration, now) /\ value[k] = None
          BY <3>1, <4>1, <4>2, <4>4, <5>1 DEF ReadersExpire, ReaderExpires, DroppersFind
        <5> QED
          BY <2>1, <4>1, <4>2, <5>1, <5>2 DEF Holds
      <4> QED
        BY <4>3, <4>4
    <3> QED
      BY <2>8, <3>3, <3>4, <3>5
  <2>9. ASSUME Visit(c) \/ ListMeta(c) \/ Filter(c) \/ Listed(c)
        PROVE  Holds(k)'
    <3>1. /\ op[c].at \in {"walk", "listMeta"} \/ (op[c].at = "expire" /\ op[c].todo = {})
          /\ UNCHANGED <<value, meta, history>>
      BY <2>9, VisitIs, ListMetaIs, FilterIs, ListedIs DEF files
    <3>2. ~ DropsMeta(op[c], k) /\ ~ Changing(op[c])
      BY <3>1, StagesAre DEF DropsMeta, Changing
    <3> QED
      BY <2>4, <3>1, <3>2
  <2>10. ASSUME k \in Touched(op[c]), Expire(c)
         PROVE  Holds(k)'
    <3>1. op[c].at = "expire" /\ UNCHANGED history /\ ~ Changing(op[c])
      BY <2>10, ExpireIs, StagesAre DEF Changing
    <3>2. PICK entry \in op[c].todo :
            /\ entry[1] \in {"path", "meta"} /\ entry[2] \in Keys /\ op'[c].at = "expire"
            /\ \/ /\ value' = [value EXCEPT ![entry[2]] = None] /\ meta' = meta
                  /\ entry[1] = "path"
                  /\ op'[c].todo = (op[c].todo \ {entry}) \cup {<<"meta", entry[2]>>}
               \/ /\ UNCHANGED <<value, meta>> /\ entry[1] = "path"
                  /\ op'[c].todo = op[c].todo \ {entry}
               \/ /\ value' = value /\ meta' = [meta EXCEPT ![entry[2]] = None] /\ entry[1] = "meta"
                  /\ op'[c].todo = op[c].todo \ {entry}
      BY <2>10, ExpireIs DEF ListGoes
    <3>3. CASE entry[2] # k \/ (UNCHANGED <<value, meta>> /\ entry[1] = "path" /\ op'[c].todo = op[c].todo \ {entry})
      <4>1. value'[k] = value[k] /\ meta'[k] = meta[k]
        BY <1>0, <3>2, <3>3
      <4>2. <<"meta", k>> \in op[c].todo => <<"meta", k>> \in op'[c].todo
        BY <1>0, <3>2, <3>3
      <4> QED
        BY <2>4, <3>1, <3>2, <4>1, <4>2 DEF DropsMeta
    <3>4. CASE /\ entry[2] = k
               /\ \/ value' = [value EXCEPT ![k] = None] /\ meta' = meta /\ <<"meta", k>> \in op'[c].todo
                  \/ value' = value /\ meta' = [meta EXCEPT ![k] = None] /\ entry[1] = "meta"
      <4>1. Holds(k) /\ alone[k] /\ want'[k] = want[k]
        BY <2>5, <2>10, <3>1
      <4>2. Expired(want[k].expiration, now)
        BY <3>1, <3>2, <3>4, <4>1 DEF ReadersExpire, ReaderExpires
      <4>3. CASE value' = [value EXCEPT ![k] = None] /\ meta' = meta /\ <<"meta", k>> \in op'[c].todo
        <5>1. DropsMeta(op'[c], k) /\ value'[k] = None
          BY <1>0, <3>2, <4>3 DEF DropsMeta
        <5> QED
          BY <2>1, <4>1, <4>2, <4>3, <5>1 DEF Holds
      <4>4. CASE value' = value /\ meta' = [meta EXCEPT ![k] = None] /\ entry[1] = "meta"
        <5>1. entry = <<"meta", k>>
          BY <3>2, <3>4, <4>4 DEF FilesTypeOK, OperationTypes
        <5>2. value[k] = None /\ meta'[k] = None
          BY <1>0, <3>1, <4>1, <4>4, <5>1 DEF DroppersFind, DropsMeta
        <5> QED
          BY <2>1, <4>1, <4>2, <4>4, <5>2 DEF Holds
      <4> QED
        BY <3>4, <4>3, <4>4
    <3> QED
      BY <3>2, <3>3, <3>4
  <2> QED
    BY <1>5, <2>3, <2>7, <2>8, <2>9, <2>10 DEF Continues
<1> QED
  BY <1>1, <1>2, <1>3, <1>4, <1>5, NextFilesIs

\* A reader that stays where it is.
LEMMA ReaderStays ==
  ASSUME FilesTypeOK, OperationsFit, FilesTypeOK', NEW d \in Callers, ReaderExpires(op[d]), Alike(op'[d], op[d]), now <= now',
         \A k \in Keys : k \in Touched(op[d]) /\ alone'[k] => alone[k] /\ want'[k] = want[k]
  PROVE  ReaderExpires(op[d])'
<1>1. \A k \in Keys : Expired(want[k].expiration, now) => Expired(want[k].expiration, now')
  <2> SUFFICES ASSUME NEW k \in Keys, Expired(want[k].expiration, now)
               PROVE  Expired(want[k].expiration, now')
    OBVIOUS
  <2>1. want[k].expiration \in 0 .. MaxTime /\ now \in Nat /\ now' \in Nat
    BY DEF Expired, Expirations, FilesTypeOK
  <2> QED
    BY <2>1, FileBounds DEF Expired
<1>2. ASSUME op[d].name \in {"get", "has"}, op[d].at \in {"unlink", "unlinkMeta"}, alone'[op[d].key]
      PROVE  Expired(want'[op[d].key].expiration, now')
  <2>1. op[d].key \in Keys /\ op[d].key \in Touched(op[d])
    BY <1>2, StagesAre
  <2> QED
    BY <1>1, <1>2, <2>1 DEF ReaderExpires
<1>3. ASSUME op[d].at \in {"walk", "listMeta"}, NEW s \in op[d].keys, alone'[s.name], Expired(s.expiration, op[d].time)
      PROVE  Expired(want'[s.name].expiration, now')
  <2>1. s.name \in Keys /\ s.name \in Touched(op[d])
    <3>1. Touched(op[d]) = Keys /\ op[d] \in OperationTypes
      BY <1>3, StagesAre
    <3> QED
      BY <3>1 DEF OperationTypes
  <2> QED
    BY <1>1, <1>3, <2>1 DEF ReaderExpires
<1>4. ASSUME op[d].at = "expire", NEW entry \in op[d].todo, alone'[entry[2]]
      PROVE  Expired(want'[entry[2]].expiration, now')
  <2>1. entry[2] \in Keys /\ entry[2] \in Touched(op[d])
    <3>1. Touched(op[d]) = Keys /\ op[d] \in OperationTypes
      BY <1>4, StagesAre
    <3> QED
      BY <3>1 DEF OperationTypes
  <2> QED
    BY <1>1, <1>4, <2>1 DEF ReaderExpires
<1> QED
  BY <1>2, <1>3, <1>4 DEF ReaderExpires, Alike

\* What a reader finds of an undisturbed key is what was stored last.
LEMMA FoundIs ==
  ASSUME FilesTypeOK, OperationsFit, OverlapsMarked, UndisturbedHolds, NEW c \in Callers, Running(c),
         NEW k \in Keys, k \in Touched(op[c]), alone[k], ~ Changing(op[c]), NEW t \in Nat, t <= now,
         Expired(Meta(k), t)
  PROVE  Expired(want[k].expiration, now)
<1>1. Holds(k)
  BY HoldsBefore
<1>2. meta[k] \in 0 .. MaxTime /\ meta[k] <= t
  BY MetaIs DEF Expired, Meta, Expirations, FilesTypeOK
<1>3. meta[k] # None /\ now \in Nat
  BY <1>2 DEF FilesTypeOK, Expired, Meta
<1>4. CASE meta[k] = want[k].expiration
  BY <1>2, <1>3, <1>4, FileBounds DEF Expired
<1> QED
  BY <1>1, <1>3, <1>4 DEF Holds

\* Readers and lists delete no undisturbed key that has not expired.
LEMMA ReadersStay ==
  ASSUME FilesTypeOK, OperationsFit, OverlapsMarked, UndisturbedHolds, ReadersExpire, FilesTypeOK',
         [FilesNext]_filesVars
  PROVE  ReadersExpire'
<1>0. now \in Nat
  BY DEF FilesTypeOK
<1>1. CASE UNCHANGED filesVars
  BY <1>1 DEF filesVars, history, ReadersExpire, ReaderExpires
<1>2. CASE Second /\ Watch
  <2>1. now' = now + 1 /\ UNCHANGED <<op, want, alone>>
    BY <1>2 DEF Second, history
  <2>2. now <= now'
    BY <1>0, <2>1
  <2> QED
    BY <2>1, <2>2, ReaderStays DEF ReadersExpire, Alike
<1>3. CASE Crash /\ Watch
  BY <1>3 DEF Crash, Idle, ReadersExpire, ReaderExpires
<1>4. ASSUME NEW c \in Callers, NEW o, Fresh(o), Begin(c, o), Watch
      PROVE  ReadersExpire'
  <2>1. Began(c, o)
    BY <1>4, BeginIs DEF Fresh
  <2>2. /\ UNCHANGED <<now, want>> /\ \A k \in Keys : alone'[k] => alone[k]
        /\ \A d \in Callers \ {c} : Alike(op'[d], op[d])
    BY <2>1 DEF Began
  <2>3. ReaderExpires(op[c])'
    <3>1. /\ op'[c].at \in {"unlink", "unlinkMeta"} => op'[c].name = "delete"
          /\ op'[c].at \in {"walk", "listMeta"} => op'[c].keys = {}
          /\ op'[c].at # "expire"
      BY <1>4, <2>1 DEF Began, Fresh, Alike
    <3> QED
      BY <3>1 DEF ReaderExpires
  <2> QED
    BY <1>0, <2>2, <2>3, ReaderStays DEF ReadersExpire
<1>5. ASSUME NEW c \in Callers, Continues(c), Watch
      PROVE  ReadersExpire'
  <2>1. Runs(c) /\ Running(c) /\ now' = now
    BY <1>5, RunsAre DEF Runs
  <2>2. ASSUME NEW d \in Callers \ {c}
        PROVE  ReaderExpires(op[d])'
    <3>1. Alike(op'[d], op[d])
      BY <2>1 DEF Runs
    <3>2. CASE Running(d)
      <4>1. \A k \in Keys : k \in Touched(op[d]) /\ alone'[k] => alone[k] /\ want'[k] = want[k]
        BY <2>1, <3>2, HistoryStays
      <4> QED
        BY <1>0, <2>1, <3>1, <4>1, ReaderStays DEF ReadersExpire
    <3>3. CASE ~ Running(d)
      BY <3>1, <3>3 DEF Running, Alike, ReaderExpires
    <3> QED
      BY <3>2, <3>3
  <2>3. ReaderExpires(op[c])'
    <3>1. CASE op'[c] = Idle
      BY <3>1 DEF Idle, ReaderExpires
    <3>2. CASE op'[c] # Idle
      <4>1. UNCHANGED history /\ Proceeds(op[c], op'[c])
        BY <2>1, <3>2 DEF Runs, Ends
      <4>2. /\ UNCHANGED <<want, alone>> /\ op'[c].name = op[c].name /\ op'[c].time = op[c].time
        BY <4>1 DEF history, Proceeds
      <4>3. ReaderExpires(op[c]) /\ op[c] \in OperationTypes
        BY StagesAre DEF ReadersExpire
      <4>4. CASE MakeDir(c) \/ Open(c) \/ WriteValue(c) \/ DropMeta(c) \/ OpenMeta(c) \/ WriteMeta(c)
        <5>1. op'[c].at \in {"open", "write", "dropMeta", "openMeta", "writeMeta"}
          BY <3>2, <4>4, PutStepsAre DEF Moves
        <5> QED
          BY <5>1 DEF ReaderExpires
      <4>5. CASE ReadValue(c)
        <5>1. op'[c].at = "meta"
          BY <3>2, <4>5, ReadStepsAre DEF Moves
        <5> QED
          BY <5>1 DEF ReaderExpires
      <4>6. CASE ReadMeta(c)
        <5>1. /\ op[c].at = "meta" /\ op'[c].at = "unlink" /\ op'[c].key = op[c].key
              /\ op[c].name = "delete" \/ Expired(Meta(op[c].key), now)
          BY <3>2, <4>6, ReadStepsAre DEF Moves
        <5>2. op[c].key \in Keys /\ op[c].key \in Touched(op[c]) /\ ~ Changing(op[c])
          BY <5>1, StagesAre DEF Changing
        <5>3. op[c].name # "delete" /\ alone[op[c].key] => Expired(want[op[c].key].expiration, now)
          BY <1>0, <2>1, <5>1, <5>2, FoundIs
        <5> QED
          BY <2>1, <4>2, <5>1, <5>3 DEF ReaderExpires
      <4>7. CASE Unlink(c)
        <5>1. op[c].at = "unlink" /\ op'[c].at = "unlinkMeta" /\ op'[c].key = op[c].key
          BY <3>2, <4>7, ReadStepsAre DEF Moves
        <5> QED
          BY <2>1, <4>2, <4>3, <5>1 DEF ReaderExpires
      <4>8. CASE UnlinkMeta(c) \/ Listed(c)
        BY <3>2, <4>8, ReadStepsAre, ListedIs
      <4>9. CASE Visit(c)
        <5>1. op[c].at = "walk" /\ op'[c].at \in {"walk", "listMeta"} /\ op'[c].keys = op[c].keys
          BY <3>2, <4>9, VisitIs DEF ListGoes
        <5> QED
          BY <2>1, <4>2, <4>3, <5>1 DEF ReaderExpires
      <4>10. CASE ListMeta(c)
        <5>1. /\ op[c].at = "listMeta" /\ op'[c].at = "walk" /\ op[c].key \in Keys
              /\ op'[c].keys = op[c].keys \cup {[name |-> op[c].key, expiration |-> Meta(op[c].key)]}
          BY <4>10, ListMetaIs DEF ListGoes
        <5>2. Touched(op[c]) = Keys /\ ~ Changing(op[c]) /\ op[c].time \in Nat /\ op[c].time <= now
          <6>1. op[c].name = "list" /\ Touched(op[c]) = Keys
            BY <5>1, StagesAre
          <6> QED
            BY <4>3, <5>1, <6>1 DEF Changing, OperationsFit, OperationFits, OperationTypes
        <5>3. alone[op[c].key] /\ Expired(Meta(op[c].key), op[c].time) => Expired(want[op[c].key].expiration, now)
          BY <2>1, <5>1, <5>2, FoundIs
        <5> QED
          BY <2>1, <4>2, <4>3, <5>1, <5>3 DEF ReaderExpires
      <4>11. CASE Filter(c)
        <5>1. /\ op[c].at = "walk" /\ op'[c].at = "expire"
              /\ \A entry \in op'[c].todo :
                   \E s \in op[c].keys : Expired(s.expiration, op[c].time) /\ entry[2] = s.name
          BY <4>11, FilterIs DEF ListGoes
        <5> QED
          BY <2>1, <4>2, <4>3, <5>1 DEF ReaderExpires
      <4>12. CASE Expire(c)
        <5>1. /\ op[c].at = "expire" /\ op'[c].at = "expire"
              /\ \A e \in op'[c].todo : \E entry \in op[c].todo : e[2] = entry[2]
          BY <4>12, ExpireIs DEF ListGoes
        <5> QED
          BY <2>1, <4>2, <4>3, <5>1 DEF ReaderExpires
      <4> QED
        BY <1>5, <4>4, <4>5, <4>6, <4>7, <4>8, <4>9, <4>10, <4>11, <4>12 DEF Continues
    <3> QED
      BY <3>1, <3>2
  <2> QED
    BY <2>2, <2>3 DEF ReadersExpire
<1> QED
  BY <1>1, <1>2, <1>3, <1>4, <1>5, NextFilesIs

-----------------------------------------------------------------------------
(***************************************************************************)
(* Files: lists return what they must.                                     *)
(***************************************************************************)
LEMMA WatchedIs ==
  ASSUME FilesTypeOK, Watch, NEW d \in Callers, op'[d].name = "list", NEW k \in must'[d]
  PROVE  /\ k \in Keys /\ value'[k] # None /\ ~ Expired(Meta(k)', op'[d].time)
         /\ op[d].name = "list" => k \in must[d]
BY DEF Watch

\* A list that stays where it is.
LEMMA ListStays ==
  ASSUME FilesTypeOK, Watch, NEW d \in Callers, Alike(op'[d], op[d]),
         op[d].name = "list" => ListProceeds(op[d], must[d])
  PROVE  (op[d].name = "list" => ListProceeds(op[d], must[d]))'
<1> SUFFICES ASSUME op'[d].name = "list", NEW k \in must'[d]
             PROVE  /\ value'[k] # None /\ ~ Expired(Meta(k)', op'[d].time)
                    /\ \/ k \in {s.name : s \in op'[d].keys}
                       \/ op'[d].at \in {"walk", "listMeta"} /\ Ahead(op'[d], k)
                    /\ \A s \in op'[d].keys : s.name = k => ~ Expired(s.expiration, op'[d].time)
  BY DEF ListProceeds
<1>1. op[d].name = "list"
  BY DEF Alike
<1>2. k \in must[d] /\ value'[k] # None /\ ~ Expired(Meta(k)', op'[d].time)
  BY <1>1, WatchedIs
<1>3. /\ \/ k \in {s.name : s \in op[d].keys}
         \/ op[d].at \in {"walk", "listMeta"} /\ Ahead(op[d], k)
      /\ \A s \in op[d].keys : s.name = k => ~ Expired(s.expiration, op[d].time)
  BY <1>1, <1>2 DEF ListProceeds
<1> QED
  BY <1>2, <1>3 DEF Alike, Ahead

\* On the way to a key that is there, there is a next entry.
LEMMA WayIs ==
  ASSUME FilesTypeOK, FilesInDirectories, NEW k \in Keys, value[k] # None
  PROVE  /\ \E q \in Above[k] \cup {k} : <<"path", q>> \in Entries({})
         /\ \A p \in Above[k] : \E q \in Above[k] \cup {k} : <<"path", q>> \in Below(p)
         /\ ~ dir[k] /\ \A p \in Above[k] : dir[p]
<1>1. ~ dir[k] /\ \A p \in Above[k] : dir[p]
  BY DEF FilesInDirectories
<1>2. \A q \in Above[k] \cup {k} : q \in Keys /\ Exists(q)
  BY <1>1, AboveIsTree DEF Exists
<1>3. \A q \in Above[k] \cup {k} : <<"path", q>> \in Entries(Above[q])
  BY <1>2 DEF Entries
<1>4. \E q \in Above[k] \cup {k} : <<"path", q>> \in Entries({})
  BY <1>3, AboveIsTree
<1>5. ASSUME NEW p \in Above[k]
      PROVE  \E q \in Above[k] \cup {k} : <<"path", q>> \in Below(p)
  <2>1. PICK q \in Above[k] \cup {k} : Above[q] = Above[p] \cup {p}
    BY AboveIsTree
  <2>2. <<"path", q>> \in Entries(Above[p] \cup {p})
    BY <1>3, <2>1
  <2> QED
    BY <2>2 DEF Below
<1> QED
  BY <1>1, <1>4, <1>5

\* A list keeps, or is yet to come to, every key it must return.
LEMMA ListsStay ==
  ASSUME FilesTypeOK, OperationsFit, FilesInDirectories, ListsProceed, [FilesNext]_filesVars
  PROVE  ListsProceed'
<1>1. CASE UNCHANGED filesVars
  BY <1>1 DEF filesVars, files, ListsProceed, ListProceeds, Meta
<1>2. CASE Second /\ Watch
  <2>1. op' = op
    BY <1>2 DEF Second
  <2> QED
    BY <1>2, <2>1, ListStays DEF ListsProceed, Alike
<1>3. CASE Crash /\ Watch
  BY <1>3 DEF Crash, Idle, ListsProceed
<1>4. ASSUME NEW c \in Callers, NEW o, Fresh(o), Begin(c, o), Watch
      PROVE  ListsProceed'
  <2>1. Began(c, o)
    BY <1>4, BeginIs DEF Fresh
  <2>2. \A d \in Callers \ {c} : Alike(op'[d], op[d])
    BY <2>1 DEF Began
  <2>3. ASSUME op'[c].name = "list", NEW k \in must'[c]
        PROVE  /\ value'[k] # None /\ ~ Expired(Meta(k)', op'[c].time)
               /\ op'[c].at = "walk" /\ Ahead(op'[c], k) /\ op'[c].keys = {}
    <3>1. op'[c].at = "walk" /\ op'[c].todo = Entries({}) /\ op'[c].keys = {}
      BY <1>4, <2>1, <2>3 DEF Began, Fresh, Alike
    <3>2. k \in Keys /\ value'[k] # None /\ ~ Expired(Meta(k)', op'[c].time)
      BY <1>4, <2>3, WatchedIs
    <3>3. value[k] # None
      BY <2>1, <3>2 DEF Began, files
    <3>4. \E q \in Above[k] \cup {k} : <<"path", q>> \in Entries({})
      BY <3>2, <3>3, WayIs
    <3> QED
      BY <3>1, <3>2, <3>4 DEF Ahead
  <2>4. (op[c].name = "list" => ListProceeds(op[c], must[c]))'
    BY <2>3 DEF ListProceeds
  <2> QED
    BY <1>4, <2>2, <2>4, ListStays DEF ListsProceed
<1>5. ASSUME NEW c \in Callers, Continues(c), Watch
      PROVE  ListsProceed'
  <2>1. Runs(c)
    BY <1>5, RunsAre
  <2>2. \A d \in Callers \ {c} : Alike(op'[d], op[d])
    BY <2>1 DEF Runs
  <2>3. (op[c].name = "list" => ListProceeds(op[c], must[c]))'
    <3> SUFFICES ASSUME op'[c].name = "list", NEW k \in must'[c]
                 PROVE  /\ value'[k] # None /\ ~ Expired(Meta(k)', op'[c].time)
                        /\ \/ k \in {s.name : s \in op'[c].keys}
                           \/ op'[c].at \in {"walk", "listMeta"} /\ Ahead(op'[c], k)
                        /\ \A s \in op'[c].keys : s.name = k => ~ Expired(s.expiration, op'[c].time)
      BY DEF ListProceeds
    <3>1. op'[c] # Idle
      BY DEF Idle
    <3>2. op[c].name = "list" /\ op'[c].time = op[c].time
      BY <2>1, <3>1 DEF Runs, Proceeds
    <3>3. k \in Keys /\ k \in must[c] /\ value'[k] # None /\ ~ Expired(Meta(k)', op[c].time)
      BY <1>5, <3>2, WatchedIs
    <3>4. /\ value[k] # None
          /\ \/ k \in {s.name : s \in op[c].keys}
             \/ op[c].at \in {"walk", "listMeta"} /\ Ahead(op[c], k)
          /\ \A s \in op[c].keys : s.name = k => ~ Expired(s.expiration, op[c].time)
      BY <3>2, <3>3 DEF ListsProceed, ListProceeds
    <3>5. op[c].at \in {"walk", "listMeta", "expire"}
      BY <3>2, StagesAre
    <3>6. /\ \A p \in Above[k] : dir[p] /\ \E q \in Above[k] \cup {k} : <<"path", q>> \in Below(p)
          /\ ~ dir[k]
      BY <3>3, <3>4, WayIs
    <3>7. CASE Visit(c)
      <4>1. /\ op[c].at = "walk" /\ op'[c].keys = op[c].keys /\ op'[c].at \in {"walk", "listMeta"}
            /\ \E entry \in op[c].todo :
                 \/ entry[1] = "meta" /\ op'[c].todo = op[c].todo \ {entry}
                 \/ /\ entry[1] = "path" /\ dir[entry[2]]
                    /\ op'[c].todo = (op[c].todo \ {entry}) \cup Below(entry[2])
                 \/ /\ entry[1] = "path" /\ ~ dir[entry[2]] /\ op'[c].todo = op[c].todo \ {entry}
                    /\ op'[c].at = "listMeta" /\ op'[c].key = entry[2]
        BY <3>1, <3>7, VisitIs DEF ListGoes
      <4>2. CASE k \in {s.name : s \in op[c].keys}
        BY <3>2, <3>3, <3>4, <4>1, <4>2
      <4>3. CASE Ahead(op[c], k)
        <5>1. PICK q \in Above[k] \cup {k} : <<"path", q>> \in op[c].todo
          BY <4>1, <4>3 DEF Ahead
        <5>2. PICK entry \in op[c].todo :
                 \/ entry[1] = "meta" /\ op'[c].todo = op[c].todo \ {entry}
                 \/ /\ entry[1] = "path" /\ dir[entry[2]]
                    /\ op'[c].todo = (op[c].todo \ {entry}) \cup Below(entry[2])
                 \/ /\ entry[1] = "path" /\ ~ dir[entry[2]] /\ op'[c].todo = op[c].todo \ {entry}
                    /\ op'[c].at = "listMeta" /\ op'[c].key = entry[2]
          BY <4>1
        <5>3. Ahead(op'[c], k)
          <6>1. CASE entry # <<"path", q>>
            BY <5>1, <5>2, <6>1 DEF Ahead
          <6>2. CASE entry = <<"path", q>>
            <7>1. entry[1] = "path" /\ entry[2] = q
              BY <6>2
            <7>2. CASE q = k
              BY <3>6, <5>2, <7>1, <7>2 DEF Ahead
            <7>3. CASE q \in Above[k]
              <8>1. op'[c].todo = (op[c].todo \ {entry}) \cup Below(q)
                BY <3>6, <5>2, <7>1, <7>3
              <8> QED
                BY <3>6, <7>3, <8>1 DEF Ahead
            <7> QED
              BY <5>1, <7>2, <7>3
          <6> QED
            BY <6>1, <6>2
        <5> QED
          BY <3>2, <3>3, <3>4, <4>1, <5>3
      <4> QED
        BY <3>4, <4>1, <4>2, <4>3
    <3>8. CASE ListMeta(c)
      <4>1. /\ op[c].at = "listMeta" /\ op'[c].at = "walk" /\ op'[c].todo = op[c].todo /\ op'[c].key = op[c].key
            /\ op'[c].keys = op[c].keys \cup {[name |-> op[c].key, expiration |-> Meta(op[c].key)]}
            /\ UNCHANGED files
        BY <3>8, ListMetaIs DEF ListGoes
      <4>2. Meta(k)' = Meta(k)
        BY <4>1 DEF files, Meta
      <4>3. \A s \in op'[c].keys : s.name = k => ~ Expired(s.expiration, op'[c].time)
        BY <3>2, <3>3, <3>4, <4>1, <4>2
      <4>4. k \in {s.name : s \in op'[c].keys} \/ Ahead(op'[c], k)
        <5>1. CASE k \in {s.name : s \in op[c].keys}
          BY <4>1, <5>1
        <5>2. CASE op[c].key = k
          BY <4>1, <5>2
        <5>3. CASE \E q \in Above[k] \cup {k} : <<"path", q>> \in op[c].todo
          BY <4>1, <5>3 DEF Ahead
        <5> QED
          BY <3>4, <5>1, <5>2, <5>3 DEF Ahead
      <4> QED
        BY <3>2, <3>3, <4>1, <4>3, <4>4
    <3>9. CASE Filter(c)
      <4>1. /\ op[c].at = "walk" /\ op[c].todo = {}
            /\ op'[c].keys = op[c].keys \ {s \in op[c].keys : Expired(s.expiration, op[c].time)}
        BY <3>9, FilterIs DEF ListGoes
      <4>2. k \in {s.name : s \in op[c].keys}
        BY <3>4, <4>1 DEF Ahead
      <4> QED
        BY <3>2, <3>3, <3>4, <4>1, <4>2
    <3>10. CASE Expire(c)
      <4>1. op[c].at = "expire" /\ op'[c].keys = op[c].keys
        BY <3>10, ExpireIs DEF ListGoes
      <4> QED
        BY <3>2, <3>3, <3>4, <4>1
    <3>11. CASE Listed(c)
      BY <3>1, <3>11, ListedIs
    <3> QED
      BY <1>5, <3>5, <3>7, <3>8, <3>9, <3>10, <3>11
         DEF Continues, MakeDir, Open, WriteValue, DropMeta, OpenMeta, WriteMeta, ReadValue, ReadMeta, Unlink, UnlinkMeta
  <2> QED
    BY <1>5, <2>2, <2>3, ListStays DEF ListsProceed
<1> QED
  BY <1>1, <1>2, <1>3, <1>4, <1>5, NextFilesIs

-----------------------------------------------------------------------------
(***************************************************************************)
(* Files: the theorems.                                                    *)
(***************************************************************************)
LEMMA FilesInvariantBegins ==
  FilesInit => FilesInvariant
<1> SUFFICES ASSUME FilesInit
             PROVE  FilesInvariant
  OBVIOUS
<1>1. \A c \in Callers : op[c] = Idle /\ must[c] = {}
  BY DEF FilesInit
<1>2. /\ Idle.at = "idle" /\ Idle.name = "none" /\ ~ Idle.lost /\ Idle.key = None /\ ~ Idle.met
  BY DEF Idle
<1>3. FilesTypeOK
  <2>1. op \in [Callers -> OperationTypes]
    BY IdleIs DEF FilesInit
  <2>2. NoFile \in [value : Values \cup {None}, expiration : Expirations]
    BY DEF NoFile, Expirations
  <2> QED
    BY <2>1, <2>2, FileBounds DEF FilesInit, FilesTypeOK, Expirations
<1>4. OperationsFit
  BY <1>1, <1>2 DEF OperationsFit, OperationFits, Stages
<1>5. OverlapsMarked /\ MetWritersDisturb
  BY <1>1, <1>2 DEF OverlapsMarked, MetWritersDisturb, Running
<1>6. UndisturbedHolds
  BY DEF FilesInit, UndisturbedHolds, Holds, NoFile
<1>7. ReadersExpire /\ DroppersFind /\ WritersFind
  BY <1>1, <1>2 DEF ReadersExpire, ReaderExpires, DroppersFind, DropsMeta, WritersFind
<1>8. FilesInDirectories
  BY <1>1, <1>2 DEF FilesInit, FilesInDirectories
<1>9. ListsProceed
  BY <1>1, <1>2 DEF ListsProceed
<1> QED
  BY <1>3, <1>4, <1>5, <1>6, <1>7, <1>8, <1>9 DEF FilesInvariant

\* Every step preserves the invariant.
LEMMA FilesInvariantStays ==
  FilesInvariant /\ [FilesNext]_filesVars => FilesInvariant'
<1> SUFFICES ASSUME FilesInvariant, [FilesNext]_filesVars
             PROVE  FilesInvariant'
  OBVIOUS
<1>1. /\ FilesTypeOK /\ OperationsFit /\ OverlapsMarked /\ MetWritersDisturb /\ UndisturbedHolds
      /\ ReadersExpire /\ DroppersFind /\ WritersFind /\ FilesInDirectories /\ ListsProceed
  BY DEF FilesInvariant
<1>2. FilesTypeOK' /\ OperationsFit'
  BY <1>1, FilesTypesStay, OperationsFitStay
<1>3. OverlapsMarked' /\ MetWritersDisturb'
  BY <1>1, OverlapsStay
<1>4. UndisturbedHolds'
  BY <1>1, UndisturbedStay
<1>5. ReadersExpire' /\ DroppersFind'
  BY <1>1, <1>2, ReadersStay, DroppersFindStay
<1>6. WritersFind' /\ FilesInDirectories'
  BY <1>1, WritersFindStay, DirectoriesStay
<1>7. ListsProceed'
  BY <1>1, ListsStay
<1> QED
  BY <1>2, <1>3, <1>4, <1>5, <1>6, <1>7 DEF FilesInvariant

\* The invariant of the file storage holds.
THEOREM FilesInvariantHolds ==
  FilesSpec => []FilesInvariant
<1>1. FilesInit => FilesInvariant
  BY FilesInvariantBegins
<1>2. FilesInvariant /\ [FilesNext]_filesVars => FilesInvariant'
  BY FilesInvariantStays
<1> QED
  BY <1>1, <1>2, PTL DEF FilesSpec

\* The file storage is type correct.
THEOREM FilesTypesHold ==
  FilesSpec => []FilesTypeOK
<1>1. FilesInvariant => FilesTypeOK
  BY DEF FilesInvariant
<1> QED
  BY <1>1, FilesInvariantHolds, PTL

\* A key that no operation is at holds what the last put or delete that ran
\* alone on it left there, in both of its files, or nothing once expired, for
\* any callers, keys and directories, crashes included (index.ts:146-203).
THEOREM UndisturbedKeysHold ==
  FilesSpec => []AloneHolds
<1>1. FilesInvariant => AloneHolds
  <2> SUFFICES ASSUME FilesInvariant, NEW k \in Keys, alone[k],
                      \A c \in Callers : Running(c) => k \notin Touched(op[c])
               PROVE  \/ value[k] = want[k].value /\ meta[k] = want[k].expiration
                      \/ Expired(want[k].expiration, now) /\ value[k] = None /\ meta[k] = None
    BY DEF AloneHolds
  <2>1. FilesTypeOK /\ OperationsFit /\ UndisturbedHolds
    BY DEF FilesInvariant
  <2>2. \A c \in Callers : op[c].key = k => ~ Changing(op[c])
    <3> SUFFICES ASSUME NEW c \in Callers, op[c].key = k, Changing(op[c])
                 PROVE  FALSE
      OBVIOUS
    <3>1. Running(c) /\ Writes(op[c])
      BY <2>1, StagesAre DEF Changing, Running
    <3> QED
      BY <3>1 DEF Touched, Writes
  <2>3. \A c \in Callers : ~ DropsMeta(op[c], k)
    BY <2>1, DropperIs
  <2> QED
    BY <2>1, <2>2, <2>3 DEF UndisturbedHolds, Holds
<1> QED
  BY <1>1, FilesInvariantHolds, PTL

\* A list that succeeds returns every key that was there, and had not expired,
\* during all of its walk (local.ts:96-118, index.ts:205-230).
THEOREM ListsAreComplete ==
  FilesSpec => []ListComplete
<1>1. FilesInvariant => ListComplete
  <2> SUFFICES ASSUME FilesInvariant, NEW c \in Callers, op[c].name = "list", op[c].at = "expire", NEW k \in must[c]
               PROVE  k \in {s.name : s \in op[c].keys}
    BY DEF ListComplete
  <2> QED
    BY DEF FilesInvariant, ListsProceed, ListProceeds
<1> QED
  BY <1>1, FilesInvariantHolds, PTL
=============================================================================
