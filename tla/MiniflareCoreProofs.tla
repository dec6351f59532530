------------------------- MODULE MiniflareCoreProofs -------------------------
(***************************************************************************)
(* Proofs about the core, for any ops, requests and settings, whatever     *)
(* hooks and scripts fail, and whatever ops overlap.  As long as none do,  *)
(* they take turns: one is at work, others wait for the mutex, and what    *)
(* the rest of the worker is like depends on where that one is.  Ops that  *)
(* overlapped leave nothing but types and the line at the mutex, until     *)
(* reload() is called alone: from there on the worker is in order again.   *)
(***************************************************************************)
EXTENDS MiniflareCore, SequenceTheorems, TLAPS

-----------------------------------------------------------------------------
(***************************************************************************)
(* The inductive invariant.                                                *)
(***************************************************************************)
Watching(o) == ops[o].kind \in Watch
AtWork(o) == Under(o) /\ ~ At(o, "lock")
Configures == {"setOptions", "reload", "configChanged"}

\* The callbacks of the watcher stand in line, and the first is at work.
Line ==
  /\ \A k \in DOMAIN mutex : Under(mutex[k]) /\ Watching(mutex[k])
  /\ \A o \in Ops : Under(o) /\ Watching(o) => \E k \in DOMAIN mutex : mutex[k] = o
  /\ \A j, k \in DOMAIN mutex : mutex[j] = mutex[k] => j = k
  /\ \A o \in Ops : AtWork(o) /\ Watching(o) => o = mutex[1]

\* The ops under way are one, or all are callbacks of the watcher.
Alone == \A o, p \in Ops : Under(o) /\ Under(p) /\ o # p => Watching(o) /\ Watching(p)

InInit == {"dispose", "create", "setup", "initialised"}

\* What is known of an op by its place in #init.
OpMatches(op) ==
  /\ op.at = "lock" => op.kind \in Watch
  /\ op.at \in {"readConfig", "dispose", "create"} => op.kind \in Configures
  /\ op.at = "build" => op.kind = "sourceChanged"
  /\ op.at \in {"setup", "initialised"} => op.kind \in Configures \union Watch
  /\ op.at \in InInit /\ op.kind \in Configures => op.options \in AllOptions
  /\ op.at \in {"dispose", "create", "setup"} => op.i \in DOMAIN Plugins
  /\ op.at \in {"dispose", "create"} => Changed(op, op.i)

OpsMatch == \A o \in Ops : OpMatches(ops[o])

Failed == \E o \in Ops : At(o, "failed")
Configuring(o) == ops[o].at \in InInit /\ ops[o].kind \in Configures

\* The options have not been remembered by another op meanwhile.
PreviousSeen ==
  \A o \in Ops : At(o, "readConfig") \/ Configuring(o) => ops[o].previous = previousOptions

\* reload() will create plugin i again, whatever it is like now.
Pending(op, i) ==
  op.all /\ (op.at = "readConfig" \/ (op.at \in {"dispose", "create"} /\ i >= op.i))

\* The options of the instance of plugin i.
InstanceOptions(i) ==
  \/ \E o \in Ops : Pending(ops[o], i)
  \/ /\ (\A o \in Ops : ~ Configuring(o)) => created[instances[i]].options = previousOptions[i]
     /\ \A o \in Ops : Configuring(o) =>
          created[instances[i]].options =
            IF ops[o].at \in {"dispose", "create"} /\ i >= ops[o].i THEN previousOptions[i]
            ELSE ops[o].options[i]

\* Options that have changed will be read.
WillBeRead == \E p \in Ops : ops[p].at \in {"lock", "readConfig"} /\ ops[p].kind \in Configures
OptionsRead ==
  /\ (\A o \in Ops : ~ Configuring(o)) => options = previousOptions \/ WillBeRead
  /\ \A o \in Ops : Configuring(o) => ops[o].options = options \/ WillBeRead

\* Plugin i will be set up by op, and plugin Core when the script has changed.
WillSetUp(op, i) ==
  \/ Pending(op, i)
  \/ op.at \in {"dispose", "create"} /\ Changed(op, i) /\ i < op.i
  \/ op.at = "setup" /\ NeedsSetup(op, i) /\ i >= op.i
WillReadScript(op) ==
  \/ op.at = "lock" /\ op.kind = "scriptChanged"
  \/ op.at \in {"dispose", "create"} /\ op.ran
  \/ op.at \in {"readConfig", "dispose", "create"} /\ op.all
  \/ op.at = "setup" /\ op.i = Core

\* As long as no hook has failed, plugins are those of the options that were
\* read, set up unless they will be, with the script that there is.
Configured ==
  ~ Failed =>
    /\ \A i \in DOMAIN Plugins : InstanceOptions(i)
    /\ OptionsRead
    /\ \A i \in DOMAIN Plugins :
         setupResults[i].instance = instances[i] \/ \E o \in Ops : WillSetUp(ops[o], i)
    /\ setupResults[Core].file = file \/ \E o \in Ops : WillReadScript(ops[o])

\* An instance is of the plugin it is used for.
InstancesPlaced == \A i \in DOMAIN Plugins : created[instances[i]].plugin = i

\* The scope that an op in #reload has made, and that is left when it is done.
ScopeMatches(o) ==
  /\ ops[o].at \in {"runScript", "mounts", "reload"} => globalScope.results = setupResults
  /\ At(o, "runScript") => globalScope.by = o
  /\ At(o, "mounts") => moduleExports = o
  /\ At(o, "reload") => ops[o].exports = moduleExports
  /\ ops[o].at \in {"mounts", "reload"} => globalScope.listening
Scoped ==
  /\ \A o \in Ops : ScopeMatches(o)
  /\ Idle /\ ended = "returned" =>
       /\ globalScope.results = setupResults /\ globalScope.listening
       /\ created[instances[DO]].constructors = moduleExports

Context(n) == created[n].context
Reloading(o) == ops[o].at \in {"newScope", "runScript", "mounts", "reload"}
Replacing(o) == At(o, "create") /\ ops[o].i = DO

\* Every promise is one instance's; who waits for one that is an instance's
\* has that instance.
PromisesApart ==
  /\ \A m, n \in DOMAIN created : m # n => Context(m) # Context(n) \/ Context(m) = 0
  /\ \A r \in Requests : \A n \in DOMAIN created :
       requests[r].at = "waiting" /\ Context(n) = requests[r].awaits => n = requests[r].instance

\* An instance that requests can reach has had beforeReload().
ContextsThere ==
  /\ \A r \in Requests : /\ requests[r].at = "running" => Context(requests[r].instance) # 0
                         /\ requests[r].at # "asserted"
  /\ Context(globalScope.results[DO].instance) # 0
  /\ setupResults[DO].instance = instances[DO] \/ Context(setupResults[DO].instance) # 0
  /\ \A o \in Ops : Reloading(o) \/ Replacing(o) =>
       Context(instances[DO]) # 0 /\ Context(instances[DO]) \notin resolved

\* A context is resolved for the instance in use, with the classes of the
\* script in use, and not while a reload goes on.
ContextsCurrent ==
  /\ \A n \in DOMAIN created : Context(n) \in resolved =>
       /\ n = instances[DO] /\ created[n].constructors = moduleExports
       /\ \A o \in Ops : ~ Reloading(o)
  /\ \A r \in Requests :
       requests[r].at = "waiting" /\ requests[r].awaits \in resolved =>
         Context(requests[r].instance) = requests[r].awaits
  /\ sharedCache \in {"empty", moduleExports}
  /\ \A o \in Ops : At(o, "runScript") => sharedCache = "empty"

\* Who waits for the instance in use waits for the promise that a reload will
\* resolve, or nobody has got at the instance yet.
Fine == \A o \in Ops : ops[o].at \notin {"threw", "failed"}
Unreached ==
  /\ globalScope.results[DO].instance # instances[DO]
  /\ \A r \in Requests : requests[r].at \in {"running", "waiting"} => requests[r].instance # instances[DO]
Attended ==
  Fine =>
    /\ \/ \E o \in Ops : Reloading(o) \/ Replacing(o)
       \/ Context(instances[DO]) \in resolved
       \/ Unreached
    /\ \A r \in Requests :
         requests[r].at = "waiting" /\ requests[r].instance = instances[DO] =>
           \/ requests[r].awaits \in resolved \union {Context(instances[DO])}
           \/ \E o \in Ops : Replacing(o)

\* What holds as long as ops do not overlap, or again since a reload() that
\* began alone.
InOrder == Alone /\ PreviousSeen /\ Configured /\ Scoped

\* What holds only if they never have.
Promised == PromisesApart /\ ContextsThere /\ ContextsCurrent /\ Attended

IInv ==
  /\ TypeOK /\ Line /\ OpsMatch /\ InstancesPlaced
  /\ orderly => InOrder
  /\ ~ overlapped => orderly /\ Promised

-----------------------------------------------------------------------------
(***************************************************************************)
(* The loops over plugins.                                                 *)
(***************************************************************************)

\* There are three plugins.
LEMMA PluginNumbers == DOMAIN Plugins = 1 .. 3 /\ Core = 1 /\ Build = 2 /\ DO = 3
BY DEF Plugins, Core, Build, DO

\* A set of plugins that is not empty has a first.
LEMMA FirstOf ==
  ASSUME NEW S, S \subseteq DOMAIN Plugins, S # {}
  PROVE  Min(S) \in S /\ \A j \in S : Min(S) <= j
<1>1. S \subseteq 1 .. 3
  BY PluginNumbers
<1>2. \E n \in S : \A j \in S : n <= j
  <2>1. CASE 1 \in S
    BY <1>1, <2>1
  <2>2. CASE 1 \notin S /\ 2 \in S
    BY <1>1, <2>2
  <2>3. CASE 1 \notin S /\ 2 \notin S
    <3>1. \A j \in S : j = 3
      BY <1>1, <2>3
    <3> QED
      BY <3>1
  <2> QED
    BY <2>1, <2>2, <2>3
<1> QED
  BY <1>2 DEF Min

Places ==
  {"idle", "lock", "readConfig", "dispose", "create", "setup", "build", "initialised", "beforeReload",
   "newScope", "runScript", "mounts", "reload", "returned", "threw", "failed"}
OpState ==
  [kind : Watch \union {"setOptions", "reload", "mountReloaded", None}, at : Places,
   i : DOMAIN Plugins \union {0}, options : AllOptions \union {None},
   previous : AllOptions \union {None}, all : BOOLEAN, ran : BOOLEAN, exports : Exports]

\* op goes on to plugin n at place p.
Onward(op, p, n) == [op EXCEPT !.at = p, !.i = n]

\* The next plugin after i to be set up is n, or there is none.
SetsUp(op, i, p, n) ==
  \/ p = "setup" /\ n \in DOMAIN Plugins /\ i < n /\ NeedsSetup(op, n)
     /\ \A j \in DOMAIN Plugins : i < j /\ j < n => ~ NeedsSetup(op, j)
  \/ p = "initialised" /\ n = 0 /\ \A j \in DOMAIN Plugins : i < j => ~ NeedsSetup(op, j)

\* The next plugin after i to be created is n, or the first to be set up.
Creates(op, i, p, n) ==
  \/ p = "dispose" /\ n \in DOMAIN Plugins /\ i < n /\ Changed(op, n)
     /\ \A j \in DOMAIN Plugins : i < j /\ j < n => ~ Changed(op, j)
  \/ (\A j \in DOMAIN Plugins : i < j => ~ Changed(op, j)) /\ SetsUp(op, 0, p, n)

\* Where an op is does not matter to what it has to do.
LEMMA SameWork ==
  ASSUME NEW op \in OpState, NEW p, NEW n, NEW j
  PROVE  /\ Changed(Onward(op, p, n), j) <=> Changed(op, j)
         /\ NeedsSetup(Onward(op, p, n), j) <=> NeedsSetup(op, j)
BY DEF OpState, Onward, Changed, NeedsSetup

\* The loop over a set of plugins goes to the next, or ends.
LEMMA GoOnIs ==
  ASSUME NEW op \in OpState, NEW i \in Nat, NEW S, S \subseteq DOMAIN Plugins, NEW next
  PROVE  \E n : \/ /\ GoOn(op, i, S, next) = Onward(op, op.at, n)
                   /\ n \in S /\ i < n /\ \A j \in S : i < j => n <= j
                \/ /\ GoOn(op, i, S, next) = Onward(op, next, n)
                   /\ n = 0 /\ \A j \in S : ~ (i < j)
<1> DEFINE later == {j \in S : j > i}
<1>1. CASE later # {}
  <2>1. Min(later) \in later /\ \A j \in later : Min(later) <= j
    BY <1>1, FirstOf
  <2>2. GoOn(op, i, S, next) = [op EXCEPT !.i = Min(later)]
    BY <1>1 DEF GoOn
  <2>3. [op EXCEPT !.i = Min(later)] = Onward(op, op.at, Min(later))
    BY DEF Onward, OpState
  <2>4. S \subseteq 1 .. 3
    BY PluginNumbers
  <2> QED
    BY <2>1, <2>2, <2>3, <2>4
<1>2. CASE later = {}
  <2>1. GoOn(op, i, S, next) = [op EXCEPT !.i = 0, !.at = next]
    BY <1>2 DEF GoOn
  <2>2. [op EXCEPT !.i = 0, !.at = next] = Onward(op, next, 0)
    BY DEF Onward, OpState
  <2> QED
    BY <1>2, <2>1, <2>2
<1> QED
  BY <1>1, <1>2

\* The loop over the plugins to be set up.
LEMMA ToSetUpIs ==
  ASSUME NEW op \in OpState, op.at = "setup", NEW i \in Nat
  PROVE  \E p, n : ToSetUp(op, i) = Onward(op, p, n) /\ SetsUp(op, i, p, n)
<1> DEFINE S == {j \in DOMAIN Plugins : NeedsSetup(op, j)}
<1>1. ToSetUp(op, i) = GoOn(op, i, S, "initialised")
  BY DEF ToSetUp
<1>2. PICK n : \/ /\ GoOn(op, i, S, "initialised") = Onward(op, op.at, n)
                  /\ n \in S /\ i < n /\ \A j \in S : i < j => n <= j
               \/ /\ GoOn(op, i, S, "initialised") = Onward(op, "initialised", n)
                  /\ n = 0 /\ \A j \in S : ~ (i < j)
  BY GoOnIs
<1>3. DOMAIN Plugins = 1 .. 3
  BY PluginNumbers
<1>4. SetsUp(op, i, "setup", n) \/ SetsUp(op, i, "initialised", n)
  BY <1>2, <1>3 DEF SetsUp
<1> QED
  BY <1>1, <1>2, <1>3 DEF SetsUp

\* The loop over the plugins to be created again, and then the other.
LEMMA ToCreateIs ==
  ASSUME NEW op \in OpState, NEW i \in Nat
  PROVE  \E p, n : ToCreate(op, i) = Onward(op, p, n) /\ Creates(op, i, p, n)
<1> DEFINE S == {j \in DOMAIN Plugins : Changed(op, j)}
           T == {j \in DOMAIN Plugins : NeedsSetup(op, j)}
           op1 == [op EXCEPT !.at = "dispose"]
           op2 == GoOn(op1, i, S, "setup")
<1>t. DOMAIN Plugins = 1 .. 3
  BY PluginNumbers
<1>1. op1 \in OpState /\ op1.at = "dispose" /\ \A p, n : Onward(op1, p, n) = Onward(op, p, n)
  BY DEF OpState, Places, Onward
<1>2. {j \in DOMAIN Plugins : Changed(op1, j)} = S
  BY DEF Changed, OpState
<1>3. PICK n : \/ op2 = Onward(op1, op1.at, n) /\ n \in S /\ i < n /\ \A j \in S : i < j => n <= j
               \/ op2 = Onward(op1, "setup", n) /\ n = 0 /\ \A j \in S : ~ (i < j)
  <2>1. S \subseteq DOMAIN Plugins
    OBVIOUS
  <2> HIDE DEF op1, S
  <2> QED
    BY <1>1, <2>1, GoOnIs
<1>4. CASE op2 = Onward(op1, op1.at, n) /\ n \in S /\ i < n /\ \A j \in S : i < j => n <= j
  <2>1. op2 = Onward(op, "dispose", n) /\ op2.at = "dispose"
    BY <1>1, <1>4 DEF Onward, OpState
  <2>2. ToCreate(op, i) = op2
    BY <1>2, <2>1 DEF ToCreate
  <2> QED
    BY <1>t, <1>4, <2>1, <2>2 DEF Creates
<1>5. CASE op2 = Onward(op1, "setup", n) /\ n = 0 /\ \A j \in S : ~ (i < j)
  <2>1. op2 = Onward(op, "setup", 0) /\ op2.at = "setup" /\ op2 \in OpState
    BY <1>1, <1>5 DEF Onward, OpState, Places
  <2>2. ToCreate(op, i) = ToSetUp(op2, 0)
    BY <1>2, <2>1 DEF ToCreate, ToSetUp
  <2>3. PICK p, m : ToSetUp(op2, 0) = Onward(op2, p, m) /\ SetsUp(op2, 0, p, m)
    BY <2>1, ToSetUpIs
  <2>4. Onward(op2, p, m) = Onward(op, p, m)
    BY <2>1 DEF Onward, OpState
  <2>5. \A j : NeedsSetup(op2, j) <=> NeedsSetup(op, j)
    BY <2>1, SameWork
  <2>6. SetsUp(op, 0, p, m)
    BY <2>3, <2>5 DEF SetsUp
  <2> QED
    BY <1>5, <2>2, <2>3, <2>4, <2>6 DEF Creates
<1> QED
  BY <1>3, <1>4, <1>5

-----------------------------------------------------------------------------
(***************************************************************************)
(* How ops move.                                                           *)
(***************************************************************************)
WorkPlaces == Places \ {"idle", "lock", "returned", "threw", "failed"}

InstanceState ==
  [plugin : DOMAIN Plugins, options : Settings, context : 0 .. promises, constructors : Exports]
RequestState ==
  [at : {"outside", "running", "waiting", "served", "threw", "asserted"}, instance : DOMAIN created \union {0},
   awaits : 0 .. promises, object : Exports \union {"empty"}]

OpTypes ==
  /\ ops \in [Ops -> OpState] /\ mutex \in Seq(Ops) /\ ended \in {"returned", "threw", "failed"}
  /\ options \in AllOptions /\ previousOptions \in AllOptions /\ file \in Files
  /\ moduleExports \in Exports /\ overlapped \in BOOLEAN /\ orderly \in BOOLEAN
PluginTypes ==
  /\ created \in Seq(InstanceState)
  /\ instances \in [DOMAIN Plugins -> DOMAIN created]
  /\ setupResults \in Results
  /\ globalScope \in [results : Results, by : Files, listening : BOOLEAN]
  /\ promises \in Nat /\ resolved \subseteq 1 .. promises
RequestTypes ==
  /\ sharedCache \in Exports \union {"empty"}
  /\ requests \in [Requests -> RequestState]
  /\ \A r \in Requests : /\ requests[r].at \in {"running", "waiting"} => requests[r].instance # 0
                         /\ requests[r].at = "waiting" => requests[r].awaits # 0

\* The type invariant, taken apart into what the following lemmas treat in turn.
LEMMA TypesSplit == TypeOK <=> OpTypes /\ PluginTypes /\ RequestTypes
BY DEF TypeOK, OpTypes, PluginTypes, RequestTypes, OpState, Places, InstanceState, RequestState

\* Op o becomes x.
Becomes(o, x) == x \in OpState /\ ops' = [ops EXCEPT ![o] = x]

\* An op at work goes on, or ends.
GoesOn(o, x) == Becomes(o, x) /\ x.at \in WorkPlaces /\ x.kind = ops[o].kind /\ UNCHANGED <<mutex, ended>>
Ends(o) == \E how \in {"returned", "threw", "failed"} : End(o, how)

\* An op goes onward in a loop.
LEMMA OnwardType ==
  ASSUME NEW op \in OpState, NEW p \in Places, NEW n \in DOMAIN Plugins \union {0}
  PROVE  /\ Onward(op, p, n) \in OpState
         /\ Onward(op, p, n).at = p /\ Onward(op, p, n).i = n
         /\ \A f \in {"kind", "options", "previous", "all", "ran", "exports"} : Onward(op, p, n)[f] = op[f]
BY DEF OpState, Onward

\* Both loops go to places at work.
LEMMA LoopPlaces ==
  ASSUME NEW op, NEW i, NEW p, NEW n, SetsUp(op, i, p, n) \/ Creates(op, i, p, n)
  PROVE  p \in WorkPlaces /\ n \in DOMAIN Plugins \union {0}
BY DEF SetsUp, Creates, WorkPlaces, Places

\* What readConfig makes of an op.
ReadOp(o) == [ops[o] EXCEPT !.options = options, !.ran = FALSE]
\* What Create makes of an op, and BuildAgain.
CreatedOp(o) == [ops[o] EXCEPT !.ran = @ \/ ops[o].i = Build]
BuiltOp(o) == [ops[o] EXCEPT !.ran = TRUE, !.at = "setup"]

\* These are ops.
LEMMA OpsMade ==
  ASSUME OpTypes, NEW o \in Ops
  PROVE  /\ ReadOp(o) \in OpState /\ CreatedOp(o) \in OpState
         /\ BuiltOp(o) \in OpState /\ BuiltOp(o).at = "setup"
         /\ ops[o] \in OpState
<1>1. ops[o] \in OpState /\ options \in AllOptions
  BY DEF OpTypes
<1>2. ReadOp(o) \in OpState
  BY <1>1 DEF OpState, ReadOp
<1>3. CreatedOp(o) \in OpState
  BY <1>1 DEF OpState, CreatedOp
<1>4. BuiltOp(o) \in OpState /\ BuiltOp(o).at = "setup"
  BY <1>1 DEF OpState, BuiltOp, Places
<1> QED
  BY <1>1, <1>2, <1>3, <1>4

\* The steps with which an op goes through #init.
LEMMA LoopMoves ==
  ASSUME OpTypes, OpsMatch, NEW o \in Ops
  PROVE  /\ readConfig(o) =>
              \E p, n : Becomes(o, Onward(ReadOp(o), p, n)) /\ Creates(ReadOp(o), 0, p, n)
         /\ Create(o) =>
              \/ \E p, n : Becomes(o, Onward(CreatedOp(o), p, n)) /\ Creates(CreatedOp(o), ops[o].i, p, n)
                           /\ UNCHANGED <<mutex, ended>>
              \/ End(o, "failed")
         /\ SetUp(o) =>
              \/ \E p, n : Becomes(o, Onward(ops[o], p, n)) /\ SetsUp(ops[o], ops[o].i, p, n)
                           /\ UNCHANGED <<mutex, ended>>
              \/ End(o, "failed")
         /\ BuildAgain(o) =>
              \/ \E p, n : Becomes(o, Onward(BuiltOp(o), p, n)) /\ SetsUp(BuiltOp(o), 0, p, n)
                           /\ UNCHANGED <<mutex, ended>>
              \/ End(o, "failed")
<1>m. /\ ReadOp(o) \in OpState /\ CreatedOp(o) \in OpState
      /\ BuiltOp(o) \in OpState /\ BuiltOp(o).at = "setup"
      /\ ops[o] \in OpState
  BY OpsMade
<1>i. ops[o].i \in Nat /\ 0 \in Nat
  BY <1>m, PluginNumbers DEF OpState
<1>p. WorkPlaces \subseteq Places
  BY DEF WorkPlaces
<1>1. ASSUME readConfig(o)
      PROVE  \E p, n : Becomes(o, Onward(ReadOp(o), p, n)) /\ Creates(ReadOp(o), 0, p, n)
  <2>1. PICK p, n : ToCreate(ReadOp(o), 0) = Onward(ReadOp(o), p, n) /\ Creates(ReadOp(o), 0, p, n)
    BY <1>m, <1>i, ToCreateIs
  <2>2. Onward(ReadOp(o), p, n) \in OpState
    BY <1>m, <1>p, <2>1, OnwardType, LoopPlaces
  <2> QED
    BY <1>1, <2>1, <2>2, Zenon DEF readConfig, ReadOp, Becomes
<1>2. ASSUME Create(o)
      PROVE  \/ \E p, n : Becomes(o, Onward(CreatedOp(o), p, n)) /\ Creates(CreatedOp(o), ops[o].i, p, n)
                          /\ UNCHANGED <<mutex, ended>>
             \/ End(o, "failed")
  <2>1. PICK p, n : ToCreate(CreatedOp(o), ops[o].i) = Onward(CreatedOp(o), p, n)
                    /\ Creates(CreatedOp(o), ops[o].i, p, n)
    BY <1>m, <1>i, ToCreateIs
  <2>2. Onward(CreatedOp(o), p, n) \in OpState
    BY <1>m, <1>p, <2>1, OnwardType, LoopPlaces
  <2>3. ops \in [Ops -> OpState]
    BY DEF OpTypes
  <2>4. End(o, "failed") \/ (ops' = [ops EXCEPT ![o] = ToCreate(CreatedOp(o), ops[o].i)] /\ UNCHANGED <<mutex, ended>>)
    BY <1>2, Zenon DEF Create, CreatedOp
  <2> QED
    BY <2>1, <2>2, <2>4, Zenon DEF Becomes
<1>3. ASSUME SetUp(o)
      PROVE  \/ \E p, n : Becomes(o, Onward(ops[o], p, n)) /\ SetsUp(ops[o], ops[o].i, p, n)
                          /\ UNCHANGED <<mutex, ended>>
             \/ End(o, "failed")
  <2>1. PICK p, n : ToSetUp(ops[o], ops[o].i) = Onward(ops[o], p, n) /\ SetsUp(ops[o], ops[o].i, p, n)
    BY <1>3, <1>m, <1>i, ToSetUpIs DEF SetUp, At
  <2>2. Onward(ops[o], p, n) \in OpState
    BY <1>m, <1>p, <2>1, OnwardType, LoopPlaces
  <2>3. ops \in [Ops -> OpState]
    BY DEF OpTypes
  <2>4. End(o, "failed") \/ (ops' = [ops EXCEPT ![o] = ToSetUp(ops[o], ops[o].i)] /\ UNCHANGED <<mutex, ended>>)
    BY <1>3, <2>3 DEF SetUp
  <2> QED
    BY <2>1, <2>2, <2>4, Zenon DEF Becomes
<1>4. ASSUME BuildAgain(o)
      PROVE  \/ \E p, n : Becomes(o, Onward(BuiltOp(o), p, n)) /\ SetsUp(BuiltOp(o), 0, p, n)
                          /\ UNCHANGED <<mutex, ended>>
             \/ End(o, "failed")
  <2>1. PICK p, n : ToSetUp(BuiltOp(o), 0) = Onward(BuiltOp(o), p, n) /\ SetsUp(BuiltOp(o), 0, p, n)
    BY <1>m, <1>i, ToSetUpIs
  <2>2. Onward(BuiltOp(o), p, n) \in OpState
    BY <1>m, <1>p, <2>1, OnwardType, LoopPlaces
  <2>3. ops \in [Ops -> OpState]
    BY DEF OpTypes
  <2>4. End(o, "failed") \/ (ops' = [ops EXCEPT ![o] = ToSetUp(BuiltOp(o), 0)] /\ UNCHANGED <<mutex, ended>>)
    BY <1>4, <2>3 DEF BuildAgain, BuiltOp
  <2> QED
    BY <2>1, <2>2, <2>4, Zenon DEF Becomes
<1> QED
  BY <1>1, <1>2, <1>3, <1>4

\* An op that ends keeps nothing but how.
LEMMA EndIs ==
  ASSUME OpTypes, NEW o \in Ops, NEW how \in {"returned", "threw", "failed"}, End(o, how)
  PROVE  Becomes(o, [NotBegun EXCEPT !.at = how]) /\ ended' = how
BY DEF End, Becomes, NotBegun, OpState, Places, Exports

\* An op at work goes on or ends.
LEMMA WorkMoves ==
  ASSUME OpTypes, OpsMatch, NEW o \in Ops, Step(o), ~ Locked(o)
  PROVE  AtWork(o) /\ ((\E x : GoesOn(o, x)) \/ Ends(o))
<1>t. ops[o] \in OpState /\ ops \in [Ops -> OpState] /\ moduleExports \in Exports
  BY DEF OpTypes
<1>m. /\ ReadOp(o) \in OpState /\ CreatedOp(o) \in OpState
      /\ BuiltOp(o) \in OpState /\ ops[o] \in OpState
      /\ ReadOp(o).kind = ops[o].kind /\ CreatedOp(o).kind = ops[o].kind /\ BuiltOp(o).kind = ops[o].kind
  <2>1. ReadOp(o).kind = ops[o].kind /\ CreatedOp(o).kind = ops[o].kind /\ BuiltOp(o).kind = ops[o].kind
    BY <1>t DEF ReadOp, CreatedOp, BuiltOp, OpState
  <2> QED
    BY <2>1, OpsMade
<1>p. WorkPlaces \subseteq Places
  BY DEF WorkPlaces
<1>w. ASSUME NEW op \in OpState, op.kind = ops[o].kind, NEW p, NEW n, NEW i,
             Becomes(o, Onward(op, p, n)), Creates(op, i, p, n) \/ SetsUp(op, i, p, n),
             UNCHANGED <<mutex, ended>>
      PROVE  \E x : GoesOn(o, x)
  BY <1>w, <1>p, LoopPlaces, OnwardType DEF GoesOn
<1>1. CASE readConfig(o)
  <2>1. AtWork(o) /\ UNCHANGED <<mutex, ended>>
    BY <1>1 DEF readConfig, AtWork, At, Under
  <2> QED
    BY <1>1, <1>m, <1>w, <2>1, LoopMoves
<1>2. CASE Create(o)
  <2>1. AtWork(o)
    BY <1>2 DEF Create, AtWork, At, Under
  <2> QED
    BY <1>2, <1>m, <1>w, <2>1, LoopMoves DEF Ends
<1>3. CASE SetUp(o)
  <2>1. AtWork(o)
    BY <1>3 DEF SetUp, AtWork, At, Under
  <2> QED
    BY <1>3, <1>m, <1>w, <2>1, LoopMoves DEF Ends
<1>4. CASE BuildAgain(o)
  <2>1. AtWork(o)
    BY <1>4 DEF BuildAgain, AtWork, At, Under
  <2> QED
    BY <1>4, <1>m, <1>w, <2>1, LoopMoves DEF Ends
<1>5. CASE Dispose(o) \/ BeforeReload(o) \/ NewScope(o)
  <2> DEFINE x(p) == [ops[o] EXCEPT !.at = p]
  <2>1. \A p \in WorkPlaces : x(p) \in OpState /\ x(p).at = p /\ x(p).kind = ops[o].kind
    BY <1>t DEF OpState, WorkPlaces
  <2>2. AtWork(o) /\ UNCHANGED <<mutex, ended>>
    BY <1>5 DEF Dispose, BeforeReload, NewScope, AtWork, At, Under, vars
  <2>3. \E p \in WorkPlaces : ops' = [ops EXCEPT ![o] = x(p)]
    BY <1>5, <1>t DEF Dispose, BeforeReload, NewScope, WorkPlaces, Places
  <2> QED
    BY <2>1, <2>2, <2>3 DEF GoesOn, Becomes
<1>6. CASE RunScript(o)
  <2> DEFINE x == [ops[o] EXCEPT !.at = "mounts"]
  <2>1. x \in OpState /\ x.at \in WorkPlaces /\ x.kind = ops[o].kind
    BY <1>t DEF OpState, Places, WorkPlaces
  <2>2. AtWork(o)
    BY <1>6 DEF RunScript, AtWork, At, Under
  <2>3. End(o, "threw") \/ (ops' = [ops EXCEPT ![o] = x] /\ UNCHANGED <<mutex, ended>>)
    BY <1>6, <1>t DEF RunScript
  <2> QED
    BY <2>1, <2>2, <2>3 DEF GoesOn, Becomes, Ends
<1>7. CASE RunAllReloads(o)
  <2> DEFINE x == [ops[o] EXCEPT !.at = "reload", !.exports = moduleExports]
  <2>1. x \in OpState /\ x.at \in WorkPlaces /\ x.kind = ops[o].kind
    BY <1>t DEF OpState, Places, WorkPlaces
  <2>2. AtWork(o) /\ UNCHANGED <<mutex, ended>> /\ ops' = [ops EXCEPT ![o] = x]
    BY <1>7, <1>t DEF RunAllReloads, AtWork, At, Under
  <2> QED
    BY <2>1, <2>2 DEF GoesOn, Becomes
<1>8. CASE Initialised(o)
  <2> DEFINE x == [NotBegun EXCEPT !.kind = ops[o].kind, !.at = "beforeReload"]
  <2>0. NotBegun \in OpState
    BY DEF NotBegun, OpState, Places, Exports
  <2>1. x \in OpState /\ x.at \in WorkPlaces /\ x.kind = ops[o].kind
    <3>1. ops[o].kind \in Watch \union {"setOptions", "reload", "mountReloaded", None}
      BY <1>t DEF OpState
    <3>2. "beforeReload" \in Places /\ "beforeReload" \in WorkPlaces
      BY DEF Places, WorkPlaces
    <3> QED
      BY <2>0, <3>1, <3>2 DEF OpState
  <2>2. AtWork(o)
    BY <1>8 DEF Initialised, AtWork, At, Under
  <2>3. End(o, "returned") \/ (ops' = [ops EXCEPT ![o] = x] /\ UNCHANGED <<mutex, ended>>)
    BY <1>8 DEF Initialised
  <2> QED
    BY <2>1, <2>2, <2>3 DEF GoesOn, Becomes, Ends
<1>9. CASE ReloadHook(o)
  <2>1. AtWork(o)
    BY <1>9 DEF ReloadHook, AtWork, At, Under
  <2>2. End(o, "threw") \/ End(o, "returned")
    BY <1>9 DEF ReloadHook
  <2> QED
    BY <2>1, <2>2 DEF Ends
<1> QED
  BY <1>1, <1>2, <1>3, <1>4, <1>5, <1>6, <1>7, <1>8, <1>9 DEF Step

-----------------------------------------------------------------------------
(***************************************************************************)
(* Turns.                                                                  *)
(***************************************************************************)

\* One callback of the watcher is at work at a time.
LEMMA OneOfTheLine ==
  ASSUME Line, NEW o \in Ops, NEW p \in Ops, AtWork(o), AtWork(p), Watching(o), Watching(p)
  PROVE  o = p
BY DEF Line, AtWork

\* And one op, if they do not overlap.
LEMMA OneAtWork ==
  ASSUME Alone, Line, NEW o \in Ops, NEW p \in Ops, AtWork(o), AtWork(p)
  PROVE  o = p
BY OneOfTheLine DEF Alone, AtWork

\* When one becomes x, the others stay what they are.
LEMMA OthersStay ==
  ASSUME OpTypes, NEW o \in Ops, NEW x, Becomes(o, x)
  PROVE  /\ ops'[o] = x /\ ops' \in [Ops -> OpState]
         /\ \A p \in Ops : p # o => ops'[p] = ops[p]
BY DEF OpTypes, Becomes

\* The op at work goes on.
LEMMA TurnsGoOn ==
  ASSUME OpTypes, Line, NEW o \in Ops, AtWork(o), NEW x, GoesOn(o, x)
  PROVE  Line' /\ (Alone => Alone')
<1>1. ops'[o] = x /\ \A p \in Ops : p # o => ops'[p] = ops[p]
  BY OthersStay DEF GoesOn
<1>2. x.kind = ops[o].kind /\ x.at \notin {"idle", "returned", "threw", "failed", "lock"} /\ mutex' = mutex
  BY DEF GoesOn, WorkPlaces
<1>3. ASSUME NEW p \in Ops
      PROVE  (Under(p)' <=> Under(p)) /\ (Watching(p)' <=> Watching(p)) /\ (AtWork(p)' <=> AtWork(p))
  BY <1>1, <1>2 DEF Under, Watching, AtWork, At
<1>4. \A k \in DOMAIN mutex : mutex[k] \in Ops
  BY DEF OpTypes
<1>5. Alone => Alone'
  BY <1>3 DEF Alone
<1> QED
  BY <1>2, <1>3, <1>4, <1>5 DEF Line

\* The op at work ends.
LEMMA TurnsEnd ==
  ASSUME OpTypes, Line, NEW o \in Ops, AtWork(o),
         NEW how \in {"returned", "threw", "failed"}, End(o, how)
  PROVE  Line' /\ (Alone => Alone')
<1> DEFINE x == [NotBegun EXCEPT !.at = how]
<1>1. ops'[o] = x /\ \A p \in Ops : p # o => ops'[p] = ops[p]
  BY EndIs, OthersStay
<1>2. ~ Under(o)' /\ ~ AtWork(o)'
  BY <1>1 DEF Under, AtWork, At, NotBegun
<1>3. ASSUME NEW p \in Ops, p # o
      PROVE  (Under(p)' <=> Under(p)) /\ (Watching(p)' <=> Watching(p)) /\ (AtWork(p)' <=> AtWork(p))
  BY <1>1, <1>3 DEF Under, Watching, AtWork, At
<1>a. Alone => Alone'
  BY <1>2, <1>3 DEF Alone
<1>4. Under(o) /\ mutex \in Seq(Ops)
  BY DEF AtWork, OpTypes
<1>5. CASE Watching(o)
  <2>1. \E k \in DOMAIN mutex : mutex[k] = o
    BY <1>4, <1>5 DEF Line
  <2>2. mutex # << >> /\ o = mutex[1]
    BY <1>4, <1>5, <2>1 DEF Line
  <2>3. mutex' = Tail(mutex)
    BY <1>5 DEF End, Watching
  <2>4. /\ Len(mutex) \in Nat \ {0} /\ DOMAIN mutex = 1 .. Len(mutex)
        /\ DOMAIN mutex' = 1 .. Len(mutex) - 1
        /\ \A j \in 1 .. Len(mutex) - 1 : mutex'[j] = mutex[j + 1]
    BY <1>4, <2>2, <2>3
  <2>5. ASSUME NEW j \in DOMAIN mutex'
        PROVE  j + 1 \in DOMAIN mutex /\ mutex'[j] = mutex[j + 1] /\ mutex'[j] # o /\ mutex'[j] \in Ops
    <3>1. j + 1 \in DOMAIN mutex /\ mutex'[j] = mutex[j + 1] /\ 1 \in DOMAIN mutex /\ j + 1 # 1
      BY <2>4
    <3>2. mutex[j + 1] # mutex[1]
      BY <3>1 DEF Line
    <3> QED
      BY <1>4, <2>2, <3>1, <3>2
  <2>6. \A j \in DOMAIN mutex' : \E p \in Ops : mutex'[j] = p /\ Under(p)' /\ Watching(p)'
    BY <1>3, <2>5 DEF Line
  <2>7. ASSUME NEW p \in Ops, Under(p)', Watching(p)'
        PROVE  \E j \in DOMAIN mutex' : mutex'[j] = p
    <3>1. p # o /\ Under(p) /\ Watching(p)
      BY <1>2, <1>3, <2>7
    <3>2. PICK m \in DOMAIN mutex : mutex[m] = p
      BY <3>1 DEF Line
    <3>3. m # 1 /\ m - 1 \in 1 .. Len(mutex) - 1 /\ (m - 1) + 1 = m
      BY <2>2, <2>4, <3>1, <3>2
    <3> QED
      BY <2>4, <3>2, <3>3
  <2>8. \A i, j \in DOMAIN mutex' : mutex'[i] = mutex'[j] => i = j
    <3> SUFFICES ASSUME NEW i \in DOMAIN mutex', NEW j \in DOMAIN mutex', mutex'[i] = mutex'[j]
                 PROVE  i = j
      OBVIOUS
    <3>1. mutex[i + 1] = mutex[j + 1] /\ i + 1 \in DOMAIN mutex /\ j + 1 \in DOMAIN mutex
      BY <2>5
    <3>2. i + 1 = j + 1
      BY <3>1 DEF Line
    <3>3. i \in Int /\ j \in Int
      BY <2>4
    <3> QED
      BY <3>2, <3>3
  <2>9. (\A k \in DOMAIN mutex : Under(mutex[k]) /\ Watching(mutex[k]))'
    BY <2>6 DEF Under, Watching, At
  <2>10. \A p \in Ops : ~ (AtWork(p)' /\ Watching(p)')
    BY <1>2, <1>3, <1>5, OneOfTheLine
  <2> QED
    BY <1>a, <2>7, <2>8, <2>9, <2>10 DEF Line
<1>6. CASE ~ Watching(o)
  <2>1. mutex' = mutex
    BY <1>6 DEF End, Watching
  <2>2. \A k \in DOMAIN mutex : mutex[k] \in Ops /\ mutex[k] # o
    BY <1>4, <1>6 DEF Line
  <2> QED
    BY <1>2, <1>3, <1>6, <1>a, <2>1, <2>2 DEF Line
<1> QED
  BY <1>5, <1>6

\* The kinds of ops, and where they begin.
Beginnings ==
  {<<"setOptions", "readConfig">>, <<"reload", "readConfig">>, <<"mountReloaded", "beforeReload">>,
   <<"configChanged", "lock">>, <<"sourceChanged", "lock">>, <<"scriptChanged", "lock">>}
Enters(o, kind, place) ==
  /\ Begin(o, kind, place) /\ <<kind, place>> \in Beginnings
  /\ mutex' = IF kind \in Watch THEN Append(mutex, o) ELSE mutex

\* An op that begins is one.
LEMMA BegunOp ==
  ASSUME NEW op \in OpState, NEW kind \in Watch \union {"setOptions", "reload", "mountReloaded", None},
         NEW place \in Places, NEW all \in BOOLEAN, NEW before \in AllOptions \union {None}
  PROVE  [op EXCEPT !.kind = kind, !.at = place, !.all = all, !.previous = before] \in OpState
<1>1. PICK kinds, values : kinds = Watch \union {"setOptions", "reload", "mountReloaded", None}
                           /\ values = AllOptions \union {None}
  OBVIOUS
<1>2. OpState = [kind : kinds, at : Places, i : DOMAIN Plugins \union {0}, options : values,
                 previous : values, all : BOOLEAN, ran : BOOLEAN, exports : Exports]
  BY <1>1 DEF OpState
<1>3. kind \in kinds /\ before \in values
  BY <1>1
<1> QED
  BY <1>2, <1>3

\* Who begins is an op of its kind; it is alone or in line, or ops overlap.
LEMMA BeginIs ==
  ASSUME OpTypes, NEW o \in Ops, NEW kind, NEW place, Enters(o, kind, place)
  PROVE  \E x : /\ Becomes(o, x) /\ x.kind = kind /\ x.at = place /\ x.all = (kind = "reload")
                /\ x.previous = (IF place = "readConfig" THEN previousOptions ELSE None)
                /\ ~ Under(o)
                /\ orderly' => \A p \in Ops : Under(p) => kind \in Watch /\ Watching(p)
<1> DEFINE x == [ops[o] EXCEPT !.kind = kind, !.at = place, !.all = (kind = "reload"),
                               !.previous = IF place = "readConfig" THEN previousOptions ELSE None]
<1>1. ops[o] \in OpState /\ previousOptions \in AllOptions /\ ops \in [Ops -> OpState]
  BY DEF OpTypes
<1>2. kind \in Watch \union {"setOptions", "reload", "mountReloaded", None} /\ place \in Places
  BY DEF Enters, Beginnings, Watch, Places
<1>3. x \in OpState /\ x.kind = kind /\ x.at = place /\ x.all = (kind = "reload")
      /\ x.previous = (IF place = "readConfig" THEN previousOptions ELSE None)
  <2>1. PICK before : before = IF place = "readConfig" THEN previousOptions ELSE None
    OBVIOUS
  <2>2. before \in AllOptions \union {None} /\ (kind = "reload") \in BOOLEAN
    BY <1>1, <2>1
  <2>3. x = [ops[o] EXCEPT !.kind = kind, !.at = place, !.all = (kind = "reload"), !.previous = before]
    BY <2>1
  <2>4. x \in OpState
    BY <1>1, <1>2, <2>2, <2>3, BegunOp
  <2>5. x.kind = kind /\ x.at = place /\ x.all = (kind = "reload") /\ x.previous = before
    BY <1>1, <2>3 DEF OpState
  <2> QED
    BY <2>1, <2>4, <2>5
<1>4. ops' = [ops EXCEPT ![o] = x]
  BY <1>1 DEF Enters, Begin
<1>5. ~ Under(o) /\ (orderly' => \A p \in Ops : Under(p) => kind \in Watch /\ Watching(p))
  BY DEF Enters, Begin, Overlaps, At, Under, Watching
<1> QED
  BY <1>3, <1>4, <1>5 DEF Becomes

\* Somebody begins.
LEMMA TurnsBegin ==
  ASSUME OpTypes, Line, NEW o \in Ops, NEW kind, NEW place, Enters(o, kind, place)
  PROVE  Line' /\ (Alone /\ orderly' => Alone')
<1>1. PICK x : /\ Becomes(o, x) /\ x.kind = kind /\ x.at = place
               /\ ~ Under(o)
               /\ orderly' => \A p \in Ops : Under(p) => kind \in Watch /\ Watching(p)
  BY BeginIs
<1>2. ops'[o] = x /\ \A p \in Ops : p # o => ops'[p] = ops[p]
  BY <1>1, OthersStay
<1>3. ASSUME NEW p \in Ops, p # o
      PROVE  (Under(p)' <=> Under(p)) /\ (Watching(p)' <=> Watching(p)) /\ (AtWork(p)' <=> AtWork(p))
  BY <1>2, <1>3 DEF Under, Watching, AtWork, At
<1>o. Under(o)' /\ (Watching(o)' <=> kind \in Watch)
  BY <1>1, <1>2 DEF Enters, Beginnings, Under, Watching, At
<1>a. Alone /\ orderly' => Alone'
  BY <1>1, <1>3, <1>o DEF Alone
<1>4. mutex \in Seq(Ops)
  BY DEF OpTypes
<1>5. CASE kind \in Watch
  <2>1. Under(o)' /\ Watching(o)' /\ ~ AtWork(o)'
    BY <1>1, <1>2, <1>5 DEF Enters, Beginnings, Watch, Under, Watching, AtWork, At
  <2>2. mutex' = Append(mutex, o)
    BY <1>5 DEF Enters
  <2>3. /\ Len(mutex) \in Nat /\ DOMAIN mutex = 1 .. Len(mutex)
        /\ DOMAIN mutex' = 1 .. Len(mutex) + 1 /\ mutex'[Len(mutex) + 1] = o
        /\ \A k \in 1 .. Len(mutex) : mutex'[k] = mutex[k]
    BY <1>4, <2>2
  <2>4. \A k \in DOMAIN mutex : mutex[k] \in Ops /\ mutex[k] # o
    BY <1>1, <1>4 DEF Line
  <2>5. ASSUME NEW k \in DOMAIN mutex'
        PROVE  \/ k \in DOMAIN mutex /\ mutex'[k] = mutex[k]
               \/ k = Len(mutex) + 1 /\ k \notin DOMAIN mutex /\ mutex'[k] = o
    BY <2>3
  <2>6. \A k \in DOMAIN mutex' : \E p \in Ops : mutex'[k] = p /\ Under(p)' /\ Watching(p)'
    BY <1>3, <2>1, <2>4, <2>5 DEF Line
  <2>7. \A p \in Ops : Under(p)' /\ Watching(p)' => \E k \in DOMAIN mutex' : mutex'[k] = p
    <3> SUFFICES ASSUME NEW p \in Ops, Under(p)', Watching(p)'
                 PROVE  \E k \in DOMAIN mutex' : mutex'[k] = p
      OBVIOUS
    <3>1. CASE p = o
      BY <2>3, <3>1
    <3>2. CASE p # o
      <4>1. PICK k \in DOMAIN mutex : mutex[k] = p
        BY <1>3, <3>2 DEF Line
      <4> QED
        BY <2>3, <4>1
    <3> QED
      BY <3>1, <3>2
  <2>8. \A j, k \in DOMAIN mutex' : mutex'[j] = mutex'[k] => j = k
    BY <2>4, <2>5 DEF Line
  <2>9. ASSUME NEW p \in Ops, AtWork(p)', Watching(p)'
        PROVE  p = mutex'[1]
    <3>1. p # o /\ AtWork(p) /\ Watching(p) /\ Under(p)
      BY <1>3, <2>1, <2>9 DEF AtWork
    <3>2. p = mutex[1] /\ 1 \in DOMAIN mutex
      <4>1. \E k \in DOMAIN mutex : mutex[k] = p
        BY <3>1 DEF Line
      <4> QED
        BY <2>3, <3>1, <4>1 DEF Line
    <3> QED
      BY <2>3, <3>2
  <2>10. (\A k \in DOMAIN mutex : Under(mutex[k]) /\ Watching(mutex[k]))'
    BY <2>6 DEF Under, Watching, At
  <2> QED
    BY <1>a, <2>7, <2>8, <2>9, <2>10 DEF Line
<1>6. CASE kind \notin Watch
  <2>1. mutex' = mutex /\ ~ Watching(o)'
    BY <1>6, <1>o DEF Enters
  <2>2. \A k \in DOMAIN mutex : mutex[k] \in Ops /\ mutex[k] # o
    BY <1>1, <1>4 DEF Line
  <2> QED
    BY <1>3, <1>a, <2>1, <2>2 DEF Line
<1> QED
  BY <1>5, <1>6

\* What the first in line becomes when it starts.
LockedAt(kind) ==
  IF kind = "configChanged" THEN "readConfig" ELSE IF kind = "sourceChanged" THEN "build" ELSE "setup"
LockedOp(o) ==
  [ops[o] EXCEPT
     !.previous = IF ops[o].kind = "configChanged" THEN previousOptions ELSE None,
     !.at = LockedAt(ops[o].kind),
     !.i = IF ops[o].kind = "scriptChanged" THEN Core ELSE 0]

\* It is at work then, and was in line before.
LEMMA LockedIs ==
  ASSUME OpTypes, OpsMatch, Line, NEW o \in Ops, Locked(o)
  PROVE  /\ Becomes(o, LockedOp(o)) /\ LockedOp(o).at \in WorkPlaces /\ LockedOp(o).kind = ops[o].kind
         /\ ops[o].kind \in Watch /\ Under(o) /\ mutex' = mutex /\ o = mutex[1]
         /\ \A p \in Ops : AtWork(p) => ~ Watching(p)
         /\ Alone => \A p \in Ops : ~ AtWork(p)
<1>1. ops[o] \in OpState /\ previousOptions \in AllOptions /\ ops \in [Ops -> OpState]
  BY DEF OpTypes
<1>2. ops[o].kind \in Watch /\ Under(o) /\ ~ AtWork(o) /\ At(o, "lock")
  BY DEF Locked, OpsMatch, OpMatches, At, Under, AtWork
<1>3. LockedOp(o) \in OpState /\ LockedOp(o).at \in WorkPlaces /\ LockedOp(o).kind = ops[o].kind
  <2> DEFINE previous == IF ops[o].kind = "configChanged" THEN previousOptions ELSE None
             i == IF ops[o].kind = "scriptChanged" THEN Core ELSE 0
  <2>1. LockedAt(ops[o].kind) \in {"readConfig", "build", "setup"}
    BY DEF LockedAt
  <2>2. i \in DOMAIN Plugins \union {0} /\ previous \in AllOptions \union {None}
    BY <1>1, PluginNumbers
  <2>3. LockedOp(o) = [ops[o] EXCEPT !.previous = previous, !.at = LockedAt(ops[o].kind), !.i = i]
    BY Zenon DEF LockedOp
  <2> HIDE DEF previous, i
  <2>4. LockedOp(o) \in OpState /\ LockedOp(o).at = LockedAt(ops[o].kind) /\ LockedOp(o).kind = ops[o].kind
    BY <1>1, <2>1, <2>2, <2>3 DEF OpState, Places
  <2> QED
    BY <2>1, <2>4 DEF WorkPlaces, Places
<1>4. ops' = [ops EXCEPT ![o] = LockedOp(o)]
  <2>1. ops[o].kind \in {"configChanged", "sourceChanged", "scriptChanged"}
    BY <1>2 DEF Watch
  <2> DEFINE at == CASE ops[o].kind = "configChanged" -> "readConfig"
                     [] ops[o].kind = "sourceChanged" -> "build"
                     [] ops[o].kind = "scriptChanged" -> "setup"
             previous == IF ops[o].kind = "configChanged" THEN previousOptions ELSE None
             i == IF ops[o].kind = "scriptChanged" THEN Core ELSE 0
  <2>2. at = LockedAt(ops[o].kind)
    BY <2>1 DEF LockedAt
  <2>3. ops' = [ops EXCEPT ![o].previous = previous, ![o].at = at, ![o].i = i]
    BY Zenon DEF Locked
  <2>4. LockedOp(o) = [ops[o] EXCEPT !.previous = previous, !.at = at, !.i = i]
    BY <2>2, Zenon DEF LockedOp
  <2> HIDE DEF at, previous, i
  <2> QED
    BY <1>1, <2>3, <2>4
<1>5. mutex' = mutex /\ o = Head(mutex)
  BY DEF Locked
<1>6. o = mutex[1]
  <2>1. \E k \in DOMAIN mutex : mutex[k] = o
    BY <1>2 DEF Line, Watching
  <2> QED
    BY <1>5, <2>1 DEF OpTypes
<1>7. ASSUME NEW p \in Ops, AtWork(p)
      PROVE  ~ Watching(p) /\ ~ Alone
  <2>1. Under(p) /\ p # o
    BY <1>2, <1>7 DEF AtWork
  <2>2. ~ Watching(p)
    BY <1>6, <1>7, <2>1 DEF Line
  <2> QED
    BY <1>2, <2>1, <2>2 DEF Alone
<1> QED
  BY <1>2, <1>3, <1>4, <1>5, <1>6, <1>7 DEF Becomes

\* The first in line starts.
LEMMA TurnsLocked ==
  ASSUME OpTypes, OpsMatch, Line, NEW o \in Ops, Locked(o)
  PROVE  Line' /\ (Alone => Alone')
<1>1. /\ Becomes(o, LockedOp(o)) /\ LockedOp(o).at \in WorkPlaces /\ LockedOp(o).kind = ops[o].kind
      /\ ops[o].kind \in Watch /\ Under(o) /\ mutex' = mutex /\ o = mutex[1]
      /\ \A p \in Ops : AtWork(p) => ~ Watching(p)
  BY LockedIs
<1>2. ops'[o] = LockedOp(o) /\ \A p \in Ops : p # o => ops'[p] = ops[p]
  BY <1>1, OthersStay
<1>3. \A p \in Ops : (Under(p)' <=> Under(p)) /\ (Watching(p)' <=> Watching(p))
  BY <1>1, <1>2 DEF Under, Watching, At, WorkPlaces
<1>4. \A p \in Ops : AtWork(p)' /\ Watching(p)' => p = o
  BY <1>1, <1>2, <1>3 DEF AtWork, Under, At
<1>5. \A k \in DOMAIN mutex : mutex[k] \in Ops
  BY DEF OpTypes
<1>6. Alone => Alone'
  BY <1>3 DEF Alone
<1> QED
  BY <1>1, <1>3, <1>4, <1>5, <1>6 DEF Line

-----------------------------------------------------------------------------
(***************************************************************************)
(* The steps, and what each leaves alone.                                  *)
(***************************************************************************)

\* A call or an event comes, and changes options or the script.
Arrives(o, kind, place) ==
  /\ Enters(o, kind, place)
  /\ kind \in {"setOptions", "configChanged"} \/ options' = options
  /\ kind = "scriptChanged" \/ file' = file
  /\ options' \in AllOptions /\ file' \in Files
  /\ UNCHANGED <<previousOptions, plugins, script, objects, requests, ended>>
Asks(r) == dispatchFetch(r) \/ getObject(r) \/ GotContext(r)
Works(o) == Step(o) /\ ~ Locked(o)

\* Every step is one of four sorts.
LEMMA NextIs ==
  ASSUME OpTypes, Next
  PROVE  \/ \E o \in Ops : Locked(o) \/ Works(o) \/ \E kind, place : Arrives(o, kind, place)
         \/ \E r \in Requests : Asks(r)
<1>1. ASSUME NEW o \in Ops, reload(o)
      PROVE  Arrives(o, "reload", "readConfig")
  BY <1>1 DEF reload, Arrives, Enters, Beginnings, Watch, config, OpTypes
<1>2. ASSUME NEW o \in Ops, mountReloaded(o)
      PROVE  Arrives(o, "mountReloaded", "beforeReload")
  BY <1>2 DEF mountReloaded, Arrives, Enters, Beginnings, Watch, config, OpTypes
<1>3. ASSUME NEW o \in Ops, NEW new \in Offered, setOptions(o, new)
      PROVE  Arrives(o, "setOptions", "readConfig")
  BY <1>3, OfferedAreOptions DEF setOptions, Arrives, Enters, Beginnings, Watch, OpTypes
<1>4. ASSUME NEW o \in Ops, NEW new \in Offered, watcherCallback(o, "configChanged", new)
      PROVE  Arrives(o, "configChanged", "lock")
  BY <1>4, OfferedAreOptions DEF watcherCallback, Arrives, Enters, Beginnings, Watch, OpTypes
<1>5. ASSUME NEW o \in Ops, NEW kind \in Watch \ {"configChanged"}, watcherCallback(o, kind, options)
      PROVE  Arrives(o, kind, "lock")
  BY <1>5 DEF watcherCallback, Arrives, Enters, Beginnings, Watch, OpTypes, Files
<1> QED
  BY <1>1, <1>2, <1>3, <1>4, <1>5 DEF Next, Works, Asks

\* The callbacks keep taking turns, and the ops, if they do not overlap.
LEMMA TurnsKept ==
  ASSUME OpTypes, OpsMatch, Line, Next
  PROVE  Line' /\ (Alone /\ orderly' => Alone')
<1>1. ASSUME NEW o \in Ops, Works(o)
      PROVE  Line' /\ (Alone => Alone')
  BY <1>1, WorkMoves, TurnsGoOn, TurnsEnd DEF Works, Ends
<1>2. ASSUME NEW o \in Ops, NEW kind, NEW place, Arrives(o, kind, place)
      PROVE  Line' /\ (Alone /\ orderly' => Alone')
  BY <1>2, TurnsBegin DEF Arrives
<1>3. ASSUME NEW r \in Requests, Asks(r)
      PROVE  Line' /\ (Alone => Alone')
  <2>1. UNCHANGED <<ops, mutex>>
    BY <1>3 DEF Asks, dispatchFetch, getObject, GotContext
  <2> QED
    BY <2>1 DEF Line, Alone, Under, Watching, AtWork, At
<1> QED
  BY <1>1, <1>2, <1>3, NextIs, TurnsLocked

\* Once ops have overlapped they have, and order comes back with a reload()
\* that begins alone.
LEMMA OverlapsMove ==
  ASSUME OpTypes, Next
  PROVE  /\ overlapped' \in BOOLEAN /\ orderly' \in BOOLEAN
         /\ overlapped => overlapped'
         /\ orderly /\ ~ overlapped' => orderly'
         /\ orderly' /\ ~ orderly =>
              \E o \in Ops : Arrives(o, "reload", "readConfig") /\ \A p \in Ops : ~ Under(p)
<1>t. overlapped \in BOOLEAN /\ orderly \in BOOLEAN
  BY DEF OpTypes
<1>1. ASSUME NEW o \in Ops, Locked(o) \/ Works(o)
      PROVE  UNCHANGED <<overlapped, orderly>>
  BY <1>1 DEF Locked, Works, Step, readConfig, Dispose, Create, SetUp, BuildAgain, Initialised, BeforeReload,
              NewScope, RunScript, RunAllReloads, ReloadHook, overlaps
<1>2. ASSUME NEW r \in Requests, Asks(r)
      PROVE  UNCHANGED <<overlapped, orderly>>
  BY <1>2 DEF Asks, dispatchFetch, getObject, GotContext, overlaps
<1>3. ASSUME NEW o \in Ops, NEW kind, NEW place, Arrives(o, kind, place)
      PROVE  /\ overlapped' = (overlapped \/ Overlaps(kind))
             /\ orderly' = (~ Overlaps(kind) /\ (orderly \/ kind = "reload"))
             /\ kind = "reload" => place = "readConfig" /\ (~ Overlaps(kind) => \A p \in Ops : ~ Under(p))
  <2>1. Begin(o, kind, place) /\ <<kind, place>> \in Beginnings
    BY <1>3 DEF Arrives, Enters
  <2>2. kind = "reload" => place = "readConfig" /\ kind \notin Watch
    BY <2>1 DEF Beginnings, Watch
  <2> QED
    BY <2>1, <2>2, Zenon DEF Begin, Overlaps
<1> QED
  BY <1>t, <1>1, <1>2, <1>3, NextIs

\* What an op goes onward to in #init matches its place.
LEMMA OnwardMatches ==
  ASSUME NEW op \in OpState, NEW i, NEW p, NEW n,
         op.kind \in Configures \union Watch,
         op.kind \in Configures => op.options \in AllOptions,
         SetsUp(op, i, p, n) \/ (op.kind \in Configures /\ Creates(op, i, p, n))
  PROVE  OpMatches(Onward(op, p, n))
<1>1. p \in {"dispose", "setup", "initialised"} /\ n \in DOMAIN Plugins \union {0}
  BY DEF SetsUp, Creates
<1>2. /\ Onward(op, p, n).at = p /\ Onward(op, p, n).i = n /\ Onward(op, p, n).kind = op.kind
      /\ Onward(op, p, n).options = op.options
  BY DEF Onward, OpState
<1>3. p = "dispose" => op.kind \in Configures /\ n \in DOMAIN Plugins /\ Changed(Onward(op, p, n), n)
  BY SameWork DEF SetsUp, Creates
<1>4. p = "setup" => n \in DOMAIN Plugins
  BY DEF SetsUp, Creates
<1> QED
  BY <1>1, <1>2, <1>3, <1>4 DEF OpMatches, InInit

\* What is known of an op that has changed is known then.
LEMMA OthersMatch ==
  ASSUME OpTypes, OpsMatch, NEW o \in Ops, NEW x, Becomes(o, x), OpMatches(x)
  PROVE  OpsMatch'
<1>1. ops'[o] = x /\ \A p \in Ops : p # o => ops'[p] = ops[p]
  BY OthersStay
<1>2. \A p \in Ops : OpMatches(ops'[p])
  BY <1>1 DEF OpsMatch
<1> QED
  BY <1>2 DEF OpsMatch, OpMatches, Changed

\* Where the other steps lead.
LEMMA MovesTo ==
  ASSUME OpTypes, NEW o \in Ops
  PROVE  /\ Dispose(o) => ops' = [ops EXCEPT ![o] = [ops[o] EXCEPT !.at = "create"]]
         /\ Initialised(o) => End(o, "returned") \/ (ops'[o].at = "beforeReload" /\ UNCHANGED <<mutex, ended>>)
         /\ BeforeReload(o) => ops'[o].at = "newScope"
         /\ NewScope(o) => ops'[o].at = "runScript"
         /\ RunScript(o) => End(o, "threw") \/ (ops'[o].at = "mounts" /\ UNCHANGED <<mutex, ended>>)
         /\ RunAllReloads(o) => ops'[o].at = "reload" /\ ops'[o].exports = moduleExports
<1>1. ops \in [Ops -> OpState] /\ ops[o] \in OpState
  BY DEF OpTypes
<1>2. Dispose(o) => ops' = [ops EXCEPT ![o] = [ops[o] EXCEPT !.at = "create"]]
  BY <1>1 DEF Dispose
<1>3. Initialised(o) => End(o, "returned") \/ (ops'[o].at = "beforeReload" /\ UNCHANGED <<mutex, ended>>)
  <2>1. Initialised(o) => \/ End(o, "returned")
                         \/ /\ ops' = [ops EXCEPT ![o] = [NotBegun EXCEPT !.kind = ops[o].kind, !.at = "beforeReload"]]
                            /\ UNCHANGED <<mutex, ended>>
    BY DEF Initialised
  <2> QED
    BY <1>1, <2>1 DEF NotBegun
<1>4. BeforeReload(o) => ops'[o].at = "newScope"
  BY <1>1 DEF BeforeReload, OpState
<1>5. NewScope(o) => ops'[o].at = "runScript"
  BY <1>1 DEF NewScope, OpState
<1>6. RunScript(o) => End(o, "threw") \/ (ops'[o].at = "mounts" /\ UNCHANGED <<mutex, ended>>)
  <2>1. RunScript(o) => End(o, "threw") \/ (ops' = [ops EXCEPT ![o].at = "mounts"] /\ UNCHANGED <<mutex, ended>>)
    BY DEF RunScript
  <2> QED
    BY <1>1, <2>1 DEF OpState
<1>7. RunAllReloads(o) => ops'[o].at = "reload" /\ ops'[o].exports = moduleExports
  BY <1>1 DEF RunAllReloads, OpState
<1> QED
  BY <1>2, <1>3, <1>4, <1>5, <1>6, <1>7

\* How an op ends shows.
LEMMA EndsAt ==
  ASSUME OpTypes, NEW o \in Ops, NEW how \in {"returned", "threw", "failed"}, End(o, how)
  PROVE  ops'[o].at = how
<1>1. ops'[o] = [NotBegun EXCEPT !.at = how]
  BY EndIs, OthersStay
<1> QED
  BY <1>1 DEF NotBegun

\* Where an op is after each step.
LEMMA PlacesAfter ==
  ASSUME OpTypes, OpsMatch, NEW o \in Ops
  PROVE  /\ readConfig(o) \/ Create(o) \/ SetUp(o) \/ BuildAgain(o) =>
              \/ End(o, "failed") /\ ops'[o].at = "failed"
              \/ ops'[o].at \in {"dispose", "setup", "initialised"}
         /\ Dispose(o) => ops'[o].at = "create" /\ ops'[o].i = ops[o].i
         /\ Initialised(o) => ops'[o].at \in {"beforeReload", "returned"}
         /\ RunScript(o) => ops'[o].at \in {"mounts", "threw"}
         /\ ReloadHook(o) => ops'[o].at \in {"threw", "returned"}
<1>1. ASSUME readConfig(o) \/ Create(o) \/ SetUp(o) \/ BuildAgain(o)
      PROVE  \/ End(o, "failed") /\ ops'[o].at = "failed"
             \/ ops'[o].at \in {"dispose", "setup", "initialised"}
  <2>1. End(o, "failed") \/ \E op, i, p, n : ops'[o] = Onward(op, p, n) /\ op \in OpState
                                           /\ (Creates(op, i, p, n) \/ SetsUp(op, i, p, n))
    BY <1>1, LoopMoves, OpsMade, OthersStay
  <2>2. ASSUME NEW op \in OpState, NEW i, NEW p, NEW n, ops'[o] = Onward(op, p, n),
               Creates(op, i, p, n) \/ SetsUp(op, i, p, n)
        PROVE  ops'[o].at \in {"dispose", "setup", "initialised"}
    BY <2>2 DEF Creates, SetsUp, Onward, OpState
  <2> QED
    BY <2>1, <2>2, EndsAt
<1>2. ASSUME Dispose(o)
      PROVE  ops'[o].at = "create" /\ ops'[o].i = ops[o].i
  <2>1. ops[o] \in OpState /\ ops \in [Ops -> OpState] /\ ops' = [ops EXCEPT ![o] = [ops[o] EXCEPT !.at = "create"]]
    BY <1>2, MovesTo DEF OpTypes
  <2> QED
    BY <2>1 DEF OpState
<1>3. ReloadHook(o) => End(o, "threw") \/ End(o, "returned")
  BY DEF ReloadHook
<1> QED
  BY <1>1, <1>2, <1>3, EndsAt, MovesTo

\* What is known of ops by their places stays true.
LEMMA MatchesKept ==
  ASSUME OpTypes, OpsMatch, Line, Next
  PROVE  OpsMatch'
<1>t. ops \in [Ops -> OpState] /\ options \in AllOptions
  BY DEF OpTypes
<1>q. ASSUME NEW o \in Ops, NEW x, Becomes(o, x),
             x.at \in {"beforeReload", "newScope", "runScript", "mounts", "reload", "returned", "threw", "failed"}
      PROVE  OpsMatch'
  <2>1. OpMatches(x)
    BY <1>q DEF OpMatches, InInit
  <2> QED
    BY <1>q, <2>1, OthersMatch
<1>e. ASSUME NEW o \in Ops, AtWork(o), Ends(o)
      PROVE  OpsMatch'
  <2>1. PICK how \in {"returned", "threw", "failed"} : End(o, how)
    BY <1>e DEF Ends
  <2>2. Becomes(o, [NotBegun EXCEPT !.at = how])
    BY <2>1, EndIs
  <2>3. [NotBegun EXCEPT !.at = how].at = how
    BY DEF NotBegun
  <2> QED
    BY <1>q, <2>2, <2>3
<1>1. ASSUME NEW o \in Ops, Works(o)
      PROVE  OpsMatch'
  <2>w. AtWork(o)
    BY <1>1, WorkMoves DEF Works
  <2>m. /\ ReadOp(o) \in OpState /\ CreatedOp(o) \in OpState
        /\ BuiltOp(o) \in OpState /\ ops[o] \in OpState
    BY OpsMade
  <2>f. /\ ReadOp(o).kind = ops[o].kind /\ ReadOp(o).options = options
        /\ CreatedOp(o).kind = ops[o].kind
        /\ CreatedOp(o).options = ops[o].options /\ BuiltOp(o).kind = ops[o].kind
    BY <2>m DEF ReadOp, CreatedOp, BuiltOp, OpState
  <2>o. OpMatches(ops[o])
    BY DEF OpsMatch
  <2>1. CASE readConfig(o)
    <3>1. PICK p, n : Becomes(o, Onward(ReadOp(o), p, n)) /\ Creates(ReadOp(o), 0, p, n)
      BY <2>1, LoopMoves
    <3>2. OpMatches(Onward(ReadOp(o), p, n))
      BY <1>t, <2>1, <2>m, <2>f, <2>o, <3>1, OnwardMatches DEF OpMatches, readConfig, At
    <3> QED
      BY <3>1, <3>2, OthersMatch
  <2>2. CASE Create(o)
    <3>1. CASE End(o, "failed")
      BY <1>e, <2>w, <3>1 DEF Ends
    <3>2. CASE ~ End(o, "failed")
      <4>1. PICK p, n : Becomes(o, Onward(CreatedOp(o), p, n)) /\ Creates(CreatedOp(o), ops[o].i, p, n)
        BY <2>2, <3>2, LoopMoves
      <4>2. OpMatches(Onward(CreatedOp(o), p, n))
        BY <2>2, <2>m, <2>f, <2>o, <4>1, OnwardMatches DEF OpMatches, Create, At, InInit
      <4> QED
        BY <4>1, <4>2, OthersMatch
    <3> QED
      BY <3>1, <3>2
  <2>3. CASE SetUp(o)
    <3>1. CASE End(o, "failed")
      BY <1>e, <2>w, <3>1 DEF Ends
    <3>2. CASE ~ End(o, "failed")
      <4>1. PICK p, n : Becomes(o, Onward(ops[o], p, n)) /\ SetsUp(ops[o], ops[o].i, p, n)
        BY <2>3, <3>2, LoopMoves
      <4>2. OpMatches(Onward(ops[o], p, n))
        BY <2>3, <2>m, <2>o, <4>1, OnwardMatches DEF OpMatches, SetUp, At, InInit
      <4> QED
        BY <4>1, <4>2, OthersMatch
    <3> QED
      BY <3>1, <3>2
  <2>4. CASE BuildAgain(o)
    <3>1. CASE End(o, "failed")
      BY <1>e, <2>w, <3>1 DEF Ends
    <3>2. CASE ~ End(o, "failed")
      <4>1. PICK p, n : Becomes(o, Onward(BuiltOp(o), p, n)) /\ SetsUp(BuiltOp(o), 0, p, n)
        BY <2>4, <3>2, LoopMoves
      <4>2. BuiltOp(o).kind \in Watch /\ BuiltOp(o).kind \notin Configures
        BY <2>4, <2>f, <2>o DEF OpMatches, BuildAgain, At, Watch, Configures
      <4>3. OpMatches(Onward(BuiltOp(o), p, n))
        BY <2>m, <4>1, <4>2, OnwardMatches
      <4> QED
        BY <4>1, <4>3, OthersMatch
    <3> QED
      BY <3>1, <3>2
  <2>5. CASE Dispose(o)
    <3> DEFINE x == [ops[o] EXCEPT !.at = "create"]
    <3>1. x \in OpState /\ x.at = "create" /\ x.i = ops[o].i /\ x.kind = ops[o].kind
          /\ x.previous = ops[o].previous /\ x.options = ops[o].options /\ x.all = ops[o].all
      BY <2>m DEF OpState, Places
    <3>2. ops' = [ops EXCEPT ![o] = x] /\ ops[o].at = "dispose"
      BY <1>t, <2>5 DEF Dispose, At
    <3>3. OpMatches(x)
      BY <2>o, <3>1, <3>2 DEF OpMatches, Changed, InInit
    <3> QED
      BY <3>1, <3>2, <3>3, OthersMatch DEF Becomes
  <2>6. CASE BeforeReload(o) \/ NewScope(o) \/ RunScript(o) \/ RunAllReloads(o) \/ Initialised(o) \/ ReloadHook(o)
    <3>1. CASE Ends(o)
      BY <1>e, <2>w, <3>1
    <3>2. CASE ~ Ends(o)
      <4>1. PICK x : Becomes(o, x)
        BY <1>1, <3>2, WorkMoves DEF GoesOn, Works
      <4>2. ops'[o].at \in {"beforeReload", "newScope", "runScript", "mounts", "reload"}
        BY <2>6, <3>2, MovesTo DEF ReloadHook, Ends
      <4>3. ops'[o] = x
        BY <4>1, OthersStay
      <4> QED
        BY <1>q, <4>1, <4>2, <4>3
    <3> QED
      BY <3>1, <3>2
  <2> QED
    BY <1>1, <2>1, <2>2, <2>3, <2>4, <2>5, <2>6 DEF Works, Step
<1>2. ASSUME NEW o \in Ops, NEW kind, NEW place, Arrives(o, kind, place)
      PROVE  OpsMatch'
  <2>1. PICK x : Becomes(o, x) /\ x.kind = kind /\ x.at = place
    BY <1>2, BeginIs DEF Arrives
  <2>2. OpMatches(x)
    BY <1>2, <2>1 DEF Arrives, Enters, Beginnings, Watch, Configures, OpMatches, InInit
  <2> QED
    BY <2>1, <2>2, OthersMatch
<1>3. ASSUME NEW o \in Ops, Locked(o)
      PROVE  OpsMatch'
  <2>1. Becomes(o, LockedOp(o)) /\ ops[o].kind \in Watch
    BY <1>3, LockedIs
  <2>2. /\ LockedOp(o).kind = ops[o].kind /\ LockedOp(o).at = LockedAt(ops[o].kind)
        /\ ops[o].kind = "scriptChanged" => LockedOp(o).i = Core
    BY <1>t DEF LockedOp, OpState
  <2>3. OpMatches(LockedOp(o))
    BY <2>1, <2>2, PluginNumbers DEF LockedAt, OpMatches, Watch, Configures, InInit
  <2> QED
    BY <2>1, <2>3, OthersMatch
<1>4. ASSUME NEW r \in Requests, Asks(r)
      PROVE  OpsMatch'
  <2>1. UNCHANGED ops
    BY <1>4 DEF Asks, dispatchFetch, getObject, GotContext
  <2> QED
    BY <2>1 DEF OpsMatch, OpMatches, Changed
<1> QED
  BY <1>1, <1>2, <1>3, <1>4, NextIs

\* While ops do not overlap, nobody remembers options behind another's back.
LEMMA SeenKept ==
  ASSUME OpTypes, OpsMatch, Alone, Line, PreviousSeen, Next
  PROVE  PreviousSeen'
<1>t. ops \in [Ops -> OpState]
  BY DEF OpTypes
<1>1. ASSUME NEW o \in Ops, NEW x, Becomes(o, x), UNCHANGED previousOptions \/ AtWork(o),
             x.at = "readConfig" \/ (x.at \in InInit /\ x.kind \in Configures) => x.previous = previousOptions'
      PROVE  PreviousSeen'
  <2>1. ops'[o] = x /\ \A p \in Ops : p # o => ops'[p] = ops[p]
    BY <1>1, OthersStay
  <2>2. ASSUME NEW p \in Ops, p # o, ops[p].at = "readConfig" \/ Configuring(p)
        PROVE  UNCHANGED previousOptions /\ ops[p].previous = previousOptions
    <3>1. AtWork(p)
      BY <2>2 DEF AtWork, Under, At, Configuring, InInit
    <3>2. UNCHANGED previousOptions
      BY <1>1, <2>2, <3>1, OneAtWork
    <3> QED
      BY <2>2, <3>2 DEF PreviousSeen, At
  <2> QED
    BY <1>1, <2>1, <2>2 DEF PreviousSeen, Configuring, At
<1>2. ASSUME NEW o \in Ops, Works(o)
      PROVE  PreviousSeen'
  <2>w. AtWork(o) /\ ((\E x : GoesOn(o, x)) \/ Ends(o))
    BY <1>2, WorkMoves DEF Works
  <2>m. /\ ReadOp(o) \in OpState /\ CreatedOp(o) \in OpState
        /\ BuiltOp(o) \in OpState /\ ops[o] \in OpState
    BY OpsMade
  <2>e. CASE Ends(o)
    <3>1. PICK how \in {"returned", "threw", "failed"} : End(o, how)
      BY <2>e DEF Ends
    <3>2. Becomes(o, [NotBegun EXCEPT !.at = how]) /\ [NotBegun EXCEPT !.at = how].at = how
      BY <3>1, EndIs DEF NotBegun
    <3> QED
      BY <1>1, <2>w, <3>2 DEF InInit
  <2>1. CASE readConfig(o) \/ Create(o) \/ SetUp(o) \/ BuildAgain(o)
    <3>1. CASE End(o, "failed")
      BY <2>e, <3>1 DEF Ends
    <3>2. CASE ~ End(o, "failed")
      <4>1. PICK op, p, n : /\ op \in OpState /\ Becomes(o, Onward(op, p, n))
                            /\ op.kind = ops[o].kind /\ op.previous = ops[o].previous
        <5>1. /\ ReadOp(o).previous = ops[o].previous /\ CreatedOp(o).previous = ops[o].previous
              /\ BuiltOp(o).previous = ops[o].previous /\ ReadOp(o).kind = ops[o].kind
              /\ CreatedOp(o).kind = ops[o].kind /\ BuiltOp(o).kind = ops[o].kind
          BY <2>m DEF ReadOp, CreatedOp, BuiltOp, OpState
        <5> QED
          BY <2>1, <2>m, <3>2, <5>1, LoopMoves
      <4>2. Onward(op, p, n).kind = ops[o].kind /\ Onward(op, p, n).previous = ops[o].previous
        BY <4>1 DEF Onward, OpState
      <4>3. UNCHANGED previousOptions
        BY <2>1 DEF readConfig, Create, SetUp, BuildAgain, config
      <4>4. ops[o].kind \in Configures => At(o, "readConfig") \/ Configuring(o)
        BY <2>1 DEF readConfig, Create, SetUp, BuildAgain, At, Configuring, InInit, OpsMatch, OpMatches, Configures
      <4>5. ops'[o].at # "readConfig" /\ ops'[o] = Onward(op, p, n)
        BY <2>1, <4>1, PlacesAfter, OthersStay
      <4> QED
        BY <1>1, <4>1, <4>2, <4>3, <4>4, <4>5 DEF PreviousSeen
    <3> QED
      BY <3>1, <3>2
  <2>2. CASE Dispose(o)
    <3> DEFINE x == [ops[o] EXCEPT !.at = "create"]
    <3>1. x \in OpState /\ x.at = "create" /\ x.kind = ops[o].kind /\ x.previous = ops[o].previous
      BY <2>m DEF OpState, Places
    <3>2. ops' = [ops EXCEPT ![o] = x] /\ UNCHANGED previousOptions /\ ops[o].at = "dispose"
      BY <1>t, <2>2, MovesTo DEF Dispose, config, At
    <3> QED
      BY <1>1, <3>1, <3>2 DEF Becomes, PreviousSeen, Configuring, InInit
  <2>3. CASE BeforeReload(o) \/ NewScope(o) \/ RunScript(o) \/ RunAllReloads(o) \/ Initialised(o) \/ ReloadHook(o)
    <3>1. CASE ~ Ends(o)
      <4>1. PICK x : Becomes(o, x)
        BY <2>w, <3>1 DEF GoesOn
      <4>2. ops'[o].at \in {"beforeReload", "newScope", "runScript", "mounts", "reload"}
        BY <2>3, <3>1, MovesTo DEF ReloadHook, Ends
      <4>3. ops'[o] = x
        BY <4>1, OthersStay
      <4> QED
        BY <1>1, <2>w, <4>1, <4>2, <4>3 DEF InInit
    <3> QED
      BY <2>e, <3>1
  <2> QED
    BY <1>2, <2>1, <2>2, <2>3 DEF Works, Step
<1>3. ASSUME NEW o \in Ops, NEW kind, NEW place, Arrives(o, kind, place)
      PROVE  PreviousSeen'
  <2>1. PICK x : /\ Becomes(o, x) /\ x.at = place
                 /\ x.previous = (IF place = "readConfig" THEN previousOptions ELSE None)
    BY <1>3, BeginIs DEF Arrives
  <2>2. place \notin InInit /\ UNCHANGED previousOptions
    BY <1>3 DEF Arrives, Enters, Beginnings, InInit
  <2> QED
    BY <1>1, <2>1, <2>2
<1>4. ASSUME NEW o \in Ops, Locked(o)
      PROVE  PreviousSeen'
  <2>1. Becomes(o, LockedOp(o)) /\ ops[o].kind \in Watch /\ UNCHANGED previousOptions
    BY <1>4, LockedIs DEF Locked, config
  <2>2. /\ LockedOp(o).kind = ops[o].kind /\ LockedOp(o).at = LockedAt(ops[o].kind)
        /\ ops[o].kind = "configChanged" => LockedOp(o).previous = previousOptions
    BY <1>t DEF LockedOp, OpState
  <2> QED
    BY <1>1, <2>1, <2>2 DEF LockedAt, InInit, Watch, Configures
<1>5. ASSUME NEW r \in Requests, Asks(r)
      PROVE  PreviousSeen'
  <2>1. UNCHANGED <<ops, previousOptions>>
    BY <1>5 DEF Asks, dispatchFetch, getObject, GotContext, config
  <2> QED
    BY <2>1 DEF PreviousSeen, Configuring, At
<1> QED
  BY <1>2, <1>3, <1>4, <1>5, NextIs

-----------------------------------------------------------------------------
(***************************************************************************)
(* Types.                                                                  *)
(***************************************************************************)

\* Ops, options and the script keep their types.
LEMMA OpTypesKept ==
  ASSUME OpTypes, OpsMatch, Line, Next
  PROVE  OpTypes'
<1>t. /\ ops \in [Ops -> OpState] /\ mutex \in Seq(Ops) /\ ended \in {"returned", "threw", "failed"}
      /\ options \in AllOptions /\ previousOptions \in AllOptions /\ file \in Files
      /\ moduleExports \in Exports
  BY DEF OpTypes
<1>h. overlapped' \in BOOLEAN /\ orderly' \in BOOLEAN
  BY OverlapsMove
<1>1. ASSUME NEW o \in Ops, Works(o)
      PROVE  OpTypes'
  <2>w. AtWork(o) /\ ((\E x : GoesOn(o, x)) \/ Ends(o))
    BY <1>1, WorkMoves DEF Works
  <2>1. ops' \in [Ops -> OpState] /\ mutex' \in Seq(Ops) /\ ended' \in {"returned", "threw", "failed"}
    <3>1. CASE \E x : GoesOn(o, x)
      BY <1>t, <3>1 DEF GoesOn, Becomes
    <3>2. CASE Ends(o)
      <4>1. PICK how \in {"returned", "threw", "failed"} : End(o, how)
        BY <3>2 DEF Ends
      <4>2. ops' \in [Ops -> OpState] /\ ended' = how
        BY <1>t, <4>1, EndIs DEF Becomes
      <4>3. mutex' \in Seq(Ops)
        <5>1. CASE ops[o].kind \in Watch
          <6>1. mutex # << >>
            BY <1>t, <2>w, <5>1 DEF Line, AtWork, Watching
          <6>2. mutex' = Tail(mutex)
            BY <4>1, <5>1 DEF End
          <6> QED
            BY <1>t, <6>1, <6>2
        <5>2. CASE ops[o].kind \notin Watch
          BY <1>t, <4>1, <5>2 DEF End
        <5> QED
          BY <5>1, <5>2
      <4> QED
        BY <4>1, <4>2, <4>3
    <3> QED
      BY <2>w, <3>1, <3>2
  <2>2. options' \in AllOptions /\ file' \in Files /\ moduleExports' \in Exports
    BY <1>1, <1>t DEF Works, Step, readConfig, Dispose, Create, SetUp, BuildAgain, Initialised, BeforeReload,
                      NewScope, RunScript, RunAllReloads, ReloadHook, config, script, Files, Exports
  <2>3. previousOptions' \in AllOptions
    <3>1. CASE Initialised(o)
      <4>1. OpMatches(ops[o]) /\ At(o, "initialised")
        BY <3>1 DEF OpsMatch, Initialised
      <4>2. ops[o].kind \notin {"sourceChanged", "scriptChanged"} => ops[o].options \in AllOptions
        BY <4>1 DEF OpMatches, InInit, At, Watch, Configures
      <4> QED
        BY <1>t, <3>1, <4>2 DEF Initialised
    <3>2. CASE ~ Initialised(o)
      BY <1>1, <1>t, <3>2 DEF Works, Step, readConfig, Dispose, Create, SetUp, BuildAgain, BeforeReload,
                              NewScope, RunScript, RunAllReloads, ReloadHook, config
    <3> QED
      BY <3>1, <3>2
  <2> QED
    BY <1>h, <2>1, <2>2, <2>3 DEF OpTypes, Exports, Files, OpState, AllOptions
<1>2. ASSUME NEW o \in Ops, NEW kind, NEW place, Arrives(o, kind, place)
      PROVE  OpTypes'
  <2>1. ops' \in [Ops -> OpState]
    BY <1>2, <1>t, BeginIs DEF Arrives, Becomes
  <2>2. mutex' \in Seq(Ops)
    BY <1>2, <1>t DEF Arrives, Enters
  <2>3. UNCHANGED <<previousOptions, moduleExports, ended>> /\ options' \in AllOptions /\ file' \in Files
    BY <1>2 DEF Arrives, script
  <2> QED
    BY <1>t, <1>h, <2>1, <2>2, <2>3 DEF OpTypes, Exports, Files, OpState, AllOptions
<1>3. ASSUME NEW o \in Ops, Locked(o)
      PROVE  OpTypes'
  <2>1. ops' \in [Ops -> OpState]
    BY <1>3, <1>t, LockedIs DEF Becomes
  <2>2. UNCHANGED <<mutex, ended, options, previousOptions, file, moduleExports>>
    BY <1>3 DEF Locked, config, script
  <2> QED
    BY <1>t, <1>h, <2>1, <2>2 DEF OpTypes, Exports, Files, OpState, AllOptions
<1>4. ASSUME NEW r \in Requests, Asks(r)
      PROVE  OpTypes'
  <2>1. UNCHANGED <<ops, mutex, ended, options, previousOptions, file, moduleExports>>
    BY <1>4 DEF Asks, dispatchFetch, getObject, GotContext, config, script
  <2> QED
    BY <1>t, <1>h, <2>1 DEF OpTypes, Exports, Files, OpState, AllOptions
<1> QED
  BY <1>1, <1>2, <1>3, <1>4, NextIs

\* A new context is one that no instance had.
LEMMA NewContextIs ==
  ASSUME PluginTypes, NEW n \in DOMAIN created, NewContext(n)
  PROVE  /\ DOMAIN created' = DOMAIN created /\ promises' = promises + 1 /\ promises \in Nat
         /\ \A m \in DOMAIN created :
              /\ created'[m] \in [plugin : DOMAIN Plugins, options : Settings, context : 0 .. promises + 1,
                                  constructors : Exports]
              /\ created'[m].plugin = created[m].plugin /\ created'[m].options = created[m].options
              /\ created'[m].constructors = created[m].constructors
              /\ created'[m].context = IF m = n THEN promises + 1 ELSE created[m].context
<1>1. created \in [1 .. Len(created) -> InstanceState] /\ promises \in Nat /\ DOMAIN created = 1 .. Len(created)
  BY DEF PluginTypes
<1>2. created' = [created EXCEPT ![n] = [created[n] EXCEPT !.context = promises + 1]] /\ promises' = promises + 1
  BY <1>1 DEF NewContext
<1>3. \A m \in DOMAIN created : created[m] \in InstanceState
  BY <1>1
<1>4. ASSUME NEW m \in DOMAIN created
      PROVE  created'[m] = IF m = n THEN [created[n] EXCEPT !.context = promises + 1] ELSE created[m]
  BY <1>2
<1>5. DOMAIN created' = DOMAIN created
  BY <1>2
<1> QED
  BY <1>1, <1>2, <1>3, <1>4, <1>5 DEF InstanceState

\* A new instance is the last one and has no context yet.
LEMMA CreateIs ==
  ASSUME OpTypes, OpsMatch, PluginTypes, NEW o \in Ops, Create(o)
  PROVE  LET i == ops[o].i
             new == Len(created) + 1
         IN  /\ i \in DOMAIN Plugins /\ ops[o].options \in AllOptions
             /\ DOMAIN created' = DOMAIN created \union {new} /\ new \notin DOMAIN created
             /\ \A m \in DOMAIN created : created'[m] = created[m]
             /\ created'[new] = NewInstance(i, ops[o].options[i])
             /\ created'[new] \in InstanceState
             /\ instances'[i] = new
             /\ \A j \in DOMAIN Plugins : j # i => instances'[j] = instances[j]
             /\ created' \in Seq(InstanceState)
             /\ instances' \in [DOMAIN Plugins -> DOMAIN created']
<1> DEFINE i == ops[o].i
           new == Len(created) + 1
<1>1. created \in Seq(InstanceState) /\ promises \in Nat /\ instances \in [DOMAIN Plugins -> DOMAIN created]
  BY DEF PluginTypes
<1>2. i \in DOMAIN Plugins /\ ops[o].options \in AllOptions
  BY DEF OpsMatch, OpMatches, Create, At, InInit
<1>3. created' = Append(created, NewInstance(i, ops[o].options[i])) /\ instances' = [instances EXCEPT ![i] = new]
  BY DEF Create
<1>4. NewInstance(i, ops[o].options[i]) \in InstanceState
  BY <1>1, <1>2 DEF NewInstance, InstanceState, Exports, AllOptions
<1> HIDE DEF i
<1>5. /\ DOMAIN created' = DOMAIN created \union {new} /\ new \notin DOMAIN created
      /\ \A m \in DOMAIN created : created'[m] = created[m]
      /\ created'[new] = NewInstance(i, ops[o].options[i])
      /\ created' \in Seq(InstanceState)
  BY <1>1, <1>3, <1>4
<1>6. /\ instances'[i] = new
      /\ \A j \in DOMAIN Plugins : j # i => instances'[j] = instances[j]
      /\ instances' \in [DOMAIN Plugins -> DOMAIN created']
  BY <1>1, <1>2, <1>3, <1>5
<1> QED
  BY <1>2, <1>4, <1>5, <1>6 DEF i

\* reload() sets the constructors of the instance in use.
LEMMA ReloadHookIs ==
  ASSUME OpTypes, PluginTypes, NEW o \in Ops, ReloadHook(o)
  PROVE  /\ DOMAIN created' = DOMAIN created /\ promises' = promises
         /\ \A m \in DOMAIN created :
              /\ created'[m] \in InstanceState
              /\ created'[m].plugin = created[m].plugin /\ created'[m].options = created[m].options
              /\ created'[m].context = created[m].context
              /\ created'[m].constructors =
                   IF m = instances[DO] THEN ops[o].exports ELSE created[m].constructors
<1> DEFINE n == instances[DO]
<1>1. created \in [1 .. Len(created) -> InstanceState] /\ DOMAIN created = 1 .. Len(created)
  BY DEF PluginTypes
<1>2. n \in DOMAIN created /\ ops[o].exports \in Exports
  BY PluginNumbers DEF PluginTypes, OpTypes, OpState
<1>3. created' = [created EXCEPT ![n].constructors = ops[o].exports] /\ promises' = promises
  BY DEF ReloadHook
<1> HIDE DEF n
<1>4. created' = [created EXCEPT ![n] = [created[n] EXCEPT !.constructors = ops[o].exports]]
  BY <1>1, <1>2, <1>3
<1>5. ASSUME NEW m \in DOMAIN created
      PROVE  created'[m] = IF m = n THEN [created[n] EXCEPT !.constructors = ops[o].exports] ELSE created[m]
  BY <1>4
<1>6. DOMAIN created' = DOMAIN created /\ \A m \in DOMAIN created : created[m] \in InstanceState
  BY <1>1, <1>4
<1> QED
  BY <1>2, <1>3, <1>5, <1>6 DEF InstanceState, n

\* An instance has a promise that there is, or none.
LEMMA ContextIs ==
  ASSUME PluginTypes, NEW n \in DOMAIN created
  PROVE  /\ created[n] \in InstanceState /\ Context(n) \in 0 .. promises
         /\ created[n].constructors \in Exports
<1>1. created[n] \in InstanceState
  BY DEF PluginTypes
<1> QED
  BY <1>1 DEF InstanceState, Context

\* Which steps touch the instances.
Renews(o) == (Dispose(o) /\ ops[o].i = DO) \/ BeforeReload(o)

\* Only these do.
LEMMA InstancesTouched ==
  ASSUME OpTypes, Next
  PROVE  \/ \E o \in Ops : Works(o) /\ Renews(o) /\ NewContext(instances[DO]) /\ UNCHANGED <<instances, resolved>>
         \/ \E o \in Ops : Works(o) /\ Create(o) /\ UNCHANGED <<promises, resolved>>
         \/ \E o \in Ops : Works(o) /\ ReloadHook(o) /\ UNCHANGED <<instances, promises>>
         \/ UNCHANGED <<created, instances, promises, resolved>>
<1>1. ASSUME NEW o \in Ops, Works(o)
      PROVE  \/ Renews(o) /\ NewContext(instances[DO]) /\ UNCHANGED <<instances, resolved>>
             \/ Create(o) /\ UNCHANGED <<promises, resolved>>
             \/ ReloadHook(o) /\ UNCHANGED <<instances, promises>>
             \/ UNCHANGED <<created, instances, promises, resolved>>
  <2>1. CASE readConfig(o) \/ SetUp(o) \/ BuildAgain(o) \/ Initialised(o) \/ NewScope(o) \/ RunScript(o)
             \/ RunAllReloads(o)
    BY <2>1 DEF readConfig, SetUp, BuildAgain, Initialised, NewScope, RunScript, RunAllReloads, plugins, objects
  <2>2. CASE Dispose(o) \/ BeforeReload(o)
    BY <2>2 DEF Dispose, BeforeReload, Renews
  <2>3. CASE Create(o)
    BY <2>3 DEF Create, objects
  <2>4. CASE ReloadHook(o)
    BY <2>4 DEF ReloadHook
  <2> QED
    BY <1>1, <2>1, <2>2, <2>3, <2>4 DEF Works, Step
<1>2. ASSUME NEW o \in Ops, NEW kind, NEW place, Arrives(o, kind, place)
      PROVE  UNCHANGED <<created, instances, promises, resolved>>
  BY <1>2 DEF Arrives, plugins, objects
<1>3. ASSUME NEW o \in Ops, Locked(o)
      PROVE  UNCHANGED <<created, instances, promises, resolved>>
  BY <1>3 DEF Locked, plugins, objects
<1>4. ASSUME NEW r \in Requests, Asks(r)
      PROVE  UNCHANGED <<created, instances, promises, resolved>>
  BY <1>4 DEF Asks, dispatchFetch, getObject, GotContext, plugins, objects
<1> QED
  BY <1>1, <1>2, <1>3, <1>4, NextIs

\* Instances stay what they are, but for their contexts and constructors.
Staying ==
  /\ promises' \in Nat /\ promises' >= promises
  /\ DOMAIN created \subseteq DOMAIN created'
  /\ \A m \in DOMAIN created :
       /\ created'[m].plugin = created[m].plugin /\ created'[m].options = created[m].options
       /\ Context(m)' = Context(m) \/ Context(m)' = promises + 1
  /\ created' \in Seq(InstanceState)'
  /\ instances' \in [DOMAIN Plugins -> DOMAIN created']

\* Every step leaves them so.
LEMMA InstancesStay ==
  ASSUME OpTypes, OpsMatch, PluginTypes, Next
  PROVE  Staying
<1>t. /\ created \in Seq(InstanceState) /\ promises \in Nat /\ instances \in [DOMAIN Plugins -> DOMAIN created]
      /\ created \in [1 .. Len(created) -> InstanceState] /\ Len(created) \in Nat
      /\ DO \in DOMAIN Plugins
  BY PluginNumbers DEF PluginTypes
<1>1. ASSUME NEW o \in Ops, NewContext(instances[DO]), UNCHANGED instances
      PROVE  Staying
  <2>1. instances[DO] \in DOMAIN created
    BY <1>t
  <2>2. /\ DOMAIN created' = DOMAIN created /\ promises' = promises + 1
        /\ \A m \in DOMAIN created :
             /\ created'[m] \in [plugin : DOMAIN Plugins, options : Settings, context : 0 .. promises + 1,
                                 constructors : Exports]
             /\ created'[m].plugin = created[m].plugin /\ created'[m].options = created[m].options
             /\ created'[m].context = IF m = instances[DO] THEN promises + 1 ELSE created[m].context
    BY <1>1, <2>1, NewContextIs
  <2>4. created' \in [1 .. Len(created) -> InstanceState']
    <3>1. created' = [created EXCEPT ![instances[DO]].context = promises + 1]
      BY <1>1 DEF NewContext
    <3>2. created' = [m \in 1 .. Len(created) |-> created'[m]]
      BY <1>t, <3>1
    <3>3. \A m \in 1 .. Len(created) : created'[m] \in InstanceState'
      BY <1>t, <2>2 DEF InstanceState, Exports
    <3> QED
      BY <3>2, <3>3
  <2>5. created' \in Seq(InstanceState')
    BY <1>t, <2>4
  <2> QED
    BY <1>1, <1>t, <2>2, <2>5 DEF Context, Staying
<1>2. ASSUME NEW o \in Ops, Create(o), UNCHANGED promises
      PROVE  Staying
  <2>1. /\ DOMAIN created \subseteq DOMAIN created'
        /\ \A m \in DOMAIN created : created'[m] = created[m]
        /\ created' \in Seq(InstanceState)
        /\ instances' \in [DOMAIN Plugins -> DOMAIN created']
    BY <1>2, CreateIs
  <2>2. InstanceState' = InstanceState
    BY <1>2 DEF InstanceState, Exports
  <2> QED
    BY <1>2, <1>t, <2>1, <2>2 DEF Context, Staying
<1>3. ASSUME NEW o \in Ops, ReloadHook(o), UNCHANGED <<instances, promises>>
      PROVE  Staying
  <2>1. /\ DOMAIN created' = DOMAIN created
        /\ \A m \in DOMAIN created :
             /\ created'[m] \in InstanceState
             /\ created'[m].plugin = created[m].plugin /\ created'[m].options = created[m].options
             /\ created'[m].context = created[m].context
    BY <1>3, ReloadHookIs
  <2>2. InstanceState' = InstanceState
    BY <1>3 DEF InstanceState, Exports
  <2>3. created' \in Seq(InstanceState)
    <3>1. created' = [created EXCEPT ![instances[DO]].constructors = ops[o].exports]
      BY <1>3 DEF ReloadHook
    <3>2. created' = [m \in 1 .. Len(created) |-> created'[m]]
      BY <1>t, <3>1
    <3>3. created' \in [1 .. Len(created) -> InstanceState]
      BY <1>t, <2>1, <3>2
    <3> QED
      BY <1>t, <3>3
  <2> QED
    BY <1>3, <1>t, <2>1, <2>2, <2>3 DEF Context, Staying
<1>4. ASSUME UNCHANGED <<created, instances, promises>>
      PROVE  Staying
  <2>2. InstanceState' = InstanceState
    BY <1>4 DEF InstanceState, Exports
  <2> QED
    BY <1>4, <1>t, <2>2 DEF Context, Staying
<1> QED
  BY <1>1, <1>2, <1>3, <1>4, InstancesTouched

\* What setup() returned changes only when it is called.
LEMMA ResultsTouched ==
  ASSUME OpTypes, Next
  PROVE  \/ UNCHANGED setupResults
         \/ \E o \in Ops : /\ Works(o) /\ SetUp(o) /\ UNCHANGED <<created, instances>>
                           /\ setupResults' = [setupResults EXCEPT ![ops[o].i] =
                                [instance |-> instances[ops[o].i], file |-> IF ops[o].i = Core THEN file ELSE None]]
<1>1. ASSUME NEW o \in Ops, SetUp(o)
      PROVE  /\ UNCHANGED <<created, instances>>
             /\ \/ UNCHANGED setupResults
                \/ setupResults' = [setupResults EXCEPT ![ops[o].i] =
                     [instance |-> instances[ops[o].i], file |-> IF ops[o].i = Core THEN file ELSE None]]
  BY <1>1 DEF SetUp
<1>2. ASSUME NEW o \in Ops, Works(o), ~ SetUp(o)
      PROVE  UNCHANGED setupResults
  BY <1>2 DEF Works, Step, readConfig, Dispose, Create, BuildAgain, Initialised, BeforeReload, NewScope,
              RunScript, RunAllReloads, ReloadHook, plugins
<1>3. ASSUME NEW o \in Ops, NEW kind, NEW place, Arrives(o, kind, place)
      PROVE  UNCHANGED setupResults
  BY <1>3 DEF Arrives, plugins
<1>4. ASSUME NEW o \in Ops, Locked(o)
      PROVE  UNCHANGED setupResults
  BY <1>4 DEF Locked, plugins
<1>5. ASSUME NEW r \in Requests, Asks(r)
      PROVE  UNCHANGED setupResults
  BY <1>5 DEF Asks, dispatchFetch, getObject, GotContext, plugins
<1> QED
  BY <1>1, <1>2, <1>3, <1>4, <1>5, NextIs

\* The scope changes only when it is made and when its script runs.
LEMMA ScopeTouched ==
  ASSUME OpTypes, Next
  PROVE  \/ UNCHANGED <<globalScope, moduleExports>>
         \/ \E o \in Ops : Works(o) /\ (NewScope(o) \/ RunScript(o))
<1>1. ASSUME NEW o \in Ops, Works(o), ~ NewScope(o), ~ RunScript(o)
      PROVE  UNCHANGED <<globalScope, moduleExports>>
  BY <1>1 DEF Works, Step, readConfig, Dispose, Create, SetUp, BuildAgain, Initialised, BeforeReload,
              RunAllReloads, ReloadHook, script
<1>2. ASSUME NEW o \in Ops, NEW kind, NEW place, Arrives(o, kind, place)
      PROVE  UNCHANGED <<globalScope, moduleExports>>
  BY <1>2 DEF Arrives, script
<1>3. ASSUME NEW o \in Ops, Locked(o)
      PROVE  UNCHANGED <<globalScope, moduleExports>>
  BY <1>3 DEF Locked, script
<1>4. ASSUME NEW r \in Requests, Asks(r)
      PROVE  UNCHANGED <<globalScope, moduleExports>>
  BY <1>4 DEF Asks, dispatchFetch, getObject, GotContext, script
<1> QED
  BY <1>1, <1>2, <1>3, <1>4, NextIs

\* Plugins, the scope and the contexts keep their types.
LEMMA PluginTypesKept ==
  ASSUME OpTypes, OpsMatch, PluginTypes, Next
  PROVE  PluginTypes'
<1>t. /\ instances \in [DOMAIN Plugins -> DOMAIN created] /\ file \in Files
      /\ setupResults \in Results
      /\ globalScope \in [results : Results, by : Files, listening : BOOLEAN]
      /\ promises \in Nat /\ resolved \subseteq 1 .. promises
      /\ DO \in DOMAIN Plugins /\ instances[DO] \in DOMAIN created
  BY PluginNumbers DEF PluginTypes, OpTypes
<1>s. /\ promises' \in Nat /\ promises' >= promises
      /\ DOMAIN created \subseteq DOMAIN created'
      /\ created' \in Seq(InstanceState)'
      /\ instances' \in [DOMAIN Plugins -> DOMAIN created']
  BY InstancesStay DEF Staying
<1>r. Results \subseteq Results'
  BY <1>s DEF Results, Files
<1>1. setupResults' \in Results'
  <2>1. CASE UNCHANGED setupResults
    BY <1>t, <1>r, <2>1
  <2>2. ASSUME NEW o \in Ops, SetUp(o),
               setupResults' = [setupResults EXCEPT ![ops[o].i] =
                 [instance |-> instances[ops[o].i], file |-> IF ops[o].i = Core THEN file ELSE None]]
        PROVE  setupResults' \in Results'
    <3>1. ops[o].i \in DOMAIN Plugins
      BY <2>2 DEF OpsMatch, OpMatches, SetUp, At
    <3>2. [instance |-> instances[ops[o].i], file |-> IF ops[o].i = Core THEN file ELSE None]
            \in [instance : DOMAIN created, file : Files]
      BY <1>t, <3>1 DEF Files
    <3>3. setupResults' \in Results
      BY <1>t, <2>2, <3>1, <3>2 DEF Results
    <3> QED
      BY <1>r, <3>3
  <2> QED
    BY <2>1, <2>2, ResultsTouched
<1>2. globalScope' \in [results : Results, by : Files, listening : BOOLEAN]
  <2>1. CASE UNCHANGED globalScope
    BY <1>t, <2>1
  <2>2. ASSUME NEW o \in Ops, NewScope(o)
        PROVE  globalScope' \in [results : Results, by : Files, listening : BOOLEAN]
    BY <1>t, <2>2 DEF NewScope, Files
  <2>3. ASSUME NEW o \in Ops, RunScript(o)
        PROVE  globalScope' \in [results : Results, by : Files, listening : BOOLEAN]
    <3>1. UNCHANGED globalScope \/ globalScope' = [globalScope EXCEPT !.listening = @ \/ globalScope.by = o]
      BY <2>3 DEF RunScript, script
    <3> QED
      BY <1>t, <3>1
  <2> QED
    BY <2>1, <2>2, <2>3, ScopeTouched
<1>3. globalScope' \in [results : Results', by : Files, listening : BOOLEAN]
  BY <1>2, <1>r
<1>4. resolved' \subseteq 1 .. promises'
  <2>1. CASE UNCHANGED resolved
    BY <1>t, <1>s, <2>1
  <2>2. ASSUME NEW o \in Ops, ReloadHook(o)
        PROVE  resolved' \subseteq 1 .. promises'
    <3>1. Context(instances[DO]) \in 0 .. promises
      BY <1>t, ContextIs
    <3> DEFINE c == Context(instances[DO])
    <3>2. UNCHANGED resolved \/ (c # 0 /\ resolved' = resolved \union {c})
      BY <2>2 DEF ReloadHook, Context
    <3> HIDE DEF c
    <3>3. c \in 0 .. promises
      BY <3>1 DEF c
    <3>n. promises \in Nat /\ resolved \subseteq 1 .. promises
      BY <1>t
    <3>c. c # 0 => c \in 1 .. promises
      BY <3>n, <3>3
    <3>4. resolved' \subseteq 1 .. promises
      <4>1. CASE UNCHANGED resolved
        BY <3>n, <4>1
      <4>2. CASE c # 0 /\ resolved' = resolved \union {c}
        BY <3>n, <3>c, <4>2, Zenon
      <4> QED
        BY <3>2, <4>1, <4>2
    <3>5. 1 .. promises \subseteq 1 .. promises'
      BY <1>t, <1>s
    <3> QED
      BY <3>4, <3>5
  <2> QED
    BY <2>1, <2>2, InstancesTouched
<1> QED
  BY <1>1, <1>3, <1>4, <1>s DEF PluginTypes, Files

\* Requests and the object they share keep their types; a request that waits
\* waits for a promise.
LEMMA RequestTypesKept ==
  ASSUME OpTypes, OpsMatch, PluginTypes, RequestTypes, Next
  PROVE  RequestTypes'
<1>t. /\ sharedCache \in Exports \union {"empty"} /\ requests \in [Requests -> RequestState]
      /\ \A r \in Requests : /\ requests[r].at \in {"running", "waiting"} => requests[r].instance # 0
                             /\ requests[r].at = "waiting" => requests[r].awaits # 0
      /\ promises \in Nat /\ DO \in DOMAIN Plugins /\ globalScope.results \in Results
  BY PluginNumbers DEF RequestTypes, PluginTypes
<1>s. promises' \in Nat /\ promises' >= promises /\ DOMAIN created \subseteq DOMAIN created'
  BY InstancesStay DEF Staying
<1>r. RequestState \subseteq RequestState'
  BY <1>s, <1>t DEF RequestState, Exports
<1>1. ASSUME NEW r \in Requests, Asks(r)
      PROVE  RequestTypes'
  <2>q. requests[r] \in RequestState
    BY <1>t
  <2>1. CASE dispatchFetch(r)
    <3> DEFINE n == globalScope.results[DO].instance
               at == IF globalScope.listening THEN "running" ELSE "threw"
               x == [requests[r] EXCEPT !.at = at, !.instance = n]
    <3>1. requests' = [requests EXCEPT ![r] = x] /\ sharedCache' = sharedCache
      BY <1>t, <2>1 DEF dispatchFetch, objects
    <3>2. n \in DOMAIN created /\ n # 0
      BY <1>t DEF Results, PluginTypes
    <3>a. at \in {"running", "threw"}
      OBVIOUS
    <3> HIDE DEF n, at
    <3>3. x \in RequestState /\ x.at = at /\ x.at # "waiting" /\ x.instance # 0
      BY <2>q, <3>2, <3>a DEF RequestState
    <3> HIDE DEF x
    <3>4. requests' \in [Requests -> RequestState'] /\ \A q \in Requests : q # r => requests'[q] = requests[q]
      BY <1>t, <1>r, <3>1, <3>3
    <3>5. requests'[r] = x
      BY <1>t, <3>1
    <3> QED
      BY <1>t, <3>1, <3>3, <3>4, <3>5 DEF RequestTypes, Exports
  <2>2. CASE getObject(r)
    <3> DEFINE n == created[requests[r].instance].context
               at == IF n = 0 THEN "asserted" ELSE "waiting"
               x == [requests[r] EXCEPT !.at = at, !.awaits = n]
    <3>1. requests' = [requests EXCEPT ![r] = x] /\ sharedCache' = sharedCache
      BY <1>t, <2>2 DEF getObject, objects
    <3>2. requests[r].instance \in DOMAIN created /\ requests[r].instance # 0
      BY <1>t, <2>q, <2>2 DEF getObject, RequestState
    <3>3. n \in 0 .. promises
      BY <3>2, ContextIs DEF Context
    <3>a. at \in {"asserted", "waiting"} /\ (at = "waiting" => n # 0)
      OBVIOUS
    <3> HIDE DEF n, at
    <3>4. x \in RequestState /\ x.awaits = n /\ x.at = at /\ x.instance = requests[r].instance
      BY <2>q, <3>3, <3>a DEF RequestState
    <3> HIDE DEF x
    <3>5. requests' \in [Requests -> RequestState'] /\ \A q \in Requests : q # r => requests'[q] = requests[q]
      BY <1>t, <1>r, <3>1, <3>4
    <3>6. requests'[r] = x
      BY <1>t, <3>1
    <3> QED
      BY <1>t, <3>1, <3>2, <3>a, <3>4, <3>5, <3>6 DEF RequestTypes, Exports
  <2>3. CASE GotContext(r)
    <3>p. PICK c : c = sharedCache'
      OBVIOUS
    <3> DEFINE x == [NotSent EXCEPT !.at = "served", !.object = c]
    <3>1. requests' = [requests EXCEPT ![r] = x]
          /\ sharedCache' = IF sharedCache = "empty" THEN created[requests[r].instance].constructors ELSE sharedCache
      BY <2>3, <3>p DEF GotContext
    <3>n. x \in [at : {"served"}, instance : {0}, awaits : {0}, object : {c}]
      <4>1. NotSent \in [at : {"outside"}, instance : {0}, awaits : {0}, object : {"empty"}]
        BY DEF NotSent
      <4> QED
        BY <4>1
    <3> HIDE DEF x
    <3>2. requests[r].instance \in DOMAIN created
      BY <1>t, <2>q, <2>3 DEF GotContext, RequestState
    <3>3. sharedCache' \in Exports \union {"empty"}
      BY <1>t, <3>1, <3>2, ContextIs
    <3>4. x \in RequestState /\ x.at = "served"
      BY <1>t, <3>3, <3>p, <3>n DEF RequestState
    <3>5. requests' \in [Requests -> RequestState'] /\ \A q \in Requests : q # r => requests'[q] = requests[q]
      BY <1>t, <1>r, <3>1, <3>4
    <3>6. requests'[r] = x
      BY <1>t, <3>1
    <3> QED
      BY <1>t, <3>3, <3>4, <3>5, <3>6 DEF RequestTypes, Exports
  <2> QED
    BY <1>1, <2>1, <2>2, <2>3 DEF Asks
<1>2. ASSUME UNCHANGED requests, UNCHANGED sharedCache \/ sharedCache' = "empty"
      PROVE  RequestTypes'
  BY <1>2, <1>t, <1>r DEF RequestTypes, Exports
<1>3. ASSUME NEW o \in Ops, Works(o)
      PROVE  UNCHANGED requests /\ (UNCHANGED sharedCache \/ sharedCache' = "empty")
  BY <1>3 DEF Works, Step, readConfig, Dispose, Create, SetUp, BuildAgain, Initialised, BeforeReload,
              NewScope, RunScript, RunAllReloads, ReloadHook, objects
<1>4. ASSUME NEW o \in Ops, NEW kind, NEW place, Arrives(o, kind, place)
      PROVE  UNCHANGED <<requests, sharedCache>>
  BY <1>4 DEF Arrives, objects
<1>5. ASSUME NEW o \in Ops, Locked(o)
      PROVE  UNCHANGED <<requests, sharedCache>>
  BY <1>5 DEF Locked, objects
<1> QED
  BY <1>1, <1>2, <1>3, <1>4, <1>5, NextIs

-----------------------------------------------------------------------------
(***************************************************************************)
(* What the three sorts of steps do to the rest.                           *)
(***************************************************************************)
AtRest == {"idle", "lock", "returned", "threw", "failed"}

\* A step of an op at work leaves requests and the others, who rest.
LEMMA WorksIs ==
  ASSUME OpTypes, OpsMatch, Alone, Line, NEW o \in Ops, Works(o)
  PROVE  /\ AtWork(o) /\ ops[o].at \notin AtRest /\ UNCHANGED requests
         /\ \A p \in Ops : p # o => ops'[p] = ops[p] /\ ops[p].at \in AtRest
         /\ ops' \in [Ops -> OpState]
<1>1. AtWork(o) /\ \E x : Becomes(o, x)
  BY WorkMoves, EndIs DEF Works, GoesOn, Ends
<1>2. ASSUME NEW p \in Ops, p # o
      PROVE  ops'[p] = ops[p] /\ ops[p].at \in AtRest
  <2>1. ops'[p] = ops[p]
    BY <1>1, <1>2, OthersStay
  <2>2. ~ AtWork(p)
    BY <1>1, <1>2, OneAtWork
  <2> QED
    BY <2>1, <2>2 DEF AtWork, Under, At, AtRest
<1>3. UNCHANGED requests
  BY DEF Works, Step, readConfig, Dispose, Create, SetUp, BuildAgain, Initialised, BeforeReload,
         NewScope, RunScript, RunAllReloads, ReloadHook
<1>4. ops[o].at \notin AtRest
  BY <1>1 DEF AtWork, Under, At, AtRest
<1>5. ops' \in [Ops -> OpState]
  BY <1>1, OthersStay
<1> QED
  BY <1>1, <1>2, <1>3, <1>4, <1>5

\* An op that starts changes nothing but itself, the options and the script.
Starts(o) == Locked(o) \/ \E kind, place : Arrives(o, kind, place)
Starting == {"lock", "readConfig", "build", "setup", "beforeReload"}

\* It was not at work before.
LEMMA StartsIs ==
  ASSUME OpTypes, OpsMatch, Line, NEW o \in Ops, Starts(o)
  PROVE  /\ UNCHANGED <<previousOptions, created, instances, setupResults, globalScope, moduleExports,
                        sharedCache, promises, resolved, requests, ended>>
         /\ ops[o].at \in AtRest /\ ops'[o].at \in Starting
         /\ \A p \in Ops : p # o => ops'[p] = ops[p]
<1>1. UNCHANGED <<previousOptions, created, instances, setupResults, globalScope, moduleExports,
                  sharedCache, promises, resolved, requests, ended>>
  BY DEF Starts, Locked, Arrives, config, plugins, script, objects
<1>2. CASE Locked(o)
  <2>1. Becomes(o, LockedOp(o)) /\ ops[o].at = "lock"
    BY <1>2, LockedIs DEF Locked, At
  <2>2. ops[o] \in OpState /\ LockedAt(ops[o].kind) \in Starting
    BY DEF OpTypes, LockedAt, Starting
  <2>3. LockedOp(o).at \in Starting
    BY <2>2 DEF LockedOp, OpState
  <2>4. ops'[o] = LockedOp(o) /\ \A p \in Ops : p # o => ops'[p] = ops[p]
    BY <2>1 DEF Becomes, OpTypes
  <2> QED
    BY <1>1, <2>1, <2>3, <2>4 DEF AtRest
<1>3. CASE \E kind, place : Arrives(o, kind, place)
  <2>1. PICK kind, place : Arrives(o, kind, place)
    BY <1>3
  <2>2. PICK x : Becomes(o, x) /\ x.at = place /\ ~ Under(o)
    BY <2>1, BeginIs DEF Arrives
  <2>3. place \in Starting
    BY <2>1 DEF Arrives, Enters, Beginnings, Starting
  <2>4. ops[o].at \in AtRest
    BY <2>2 DEF Under, AtRest
  <2> QED
    BY <1>1, <2>2, <2>3, <2>4, OthersStay
<1> QED
  BY <1>2, <1>3 DEF Starts

\* A request is dispatched, waits for a context, or gets one.
Sent(r) ==
  /\ requests[r].at = "outside" /\ requests'[r].at \in {"running", "threw"}
  /\ requests'[r].instance = globalScope.results[DO].instance
  /\ UNCHANGED sharedCache
Asked(r) ==
  /\ requests[r].at = "running"
  /\ requests'[r].at = IF Context(requests[r].instance) = 0 THEN "asserted" ELSE "waiting"
  /\ requests'[r].instance = requests[r].instance
  /\ requests'[r].awaits = Context(requests[r].instance)
  /\ UNCHANGED sharedCache
Got(r) ==
  /\ requests[r].at = "waiting" /\ requests[r].awaits \in resolved /\ requests'[r].at = "served"
  /\ sharedCache' = IF sharedCache = "empty" THEN created[requests[r].instance].constructors ELSE sharedCache

\* It changes nothing but itself and the object it shares.
LEMMA AsksIs ==
  ASSUME RequestTypes, NEW r \in Requests, Asks(r)
  PROVE  /\ UNCHANGED <<options, previousOptions, file, created, instances, setupResults, globalScope,
                        moduleExports, promises, resolved, mutex, ops, ended>>
         /\ \A q \in Requests : q # r => requests'[q] = requests[q]
         /\ Sent(r) \/ Asked(r) \/ Got(r)
<1>t. requests \in [Requests -> RequestState] /\ requests[r] \in RequestState
  BY DEF RequestTypes
<1>1. UNCHANGED <<options, previousOptions, file, created, instances, setupResults, globalScope,
                  moduleExports, promises, resolved, mutex, ops, ended>>
  BY DEF Asks, dispatchFetch, getObject, GotContext, config, plugins, script, objects
<1>2. CASE dispatchFetch(r)
  <2> DEFINE at == IF globalScope.listening THEN "running" ELSE "threw"
             instance == globalScope.results[DO].instance
  <2>1. /\ requests' = [requests EXCEPT ![r].at = at, ![r].instance = instance]
        /\ requests[r].at = "outside" /\ UNCHANGED sharedCache
    BY <1>2 DEF dispatchFetch, objects
  <2>2. at \in {"running", "threw"}
    OBVIOUS
  <2> HIDE DEF at, instance
  <2>3. requests'[r].at = at /\ requests'[r].instance = instance
        /\ \A q \in Requests : q # r => requests'[q] = requests[q]
    BY <1>t, <2>1 DEF RequestState
  <2> QED
    BY <1>1, <2>1, <2>2, <2>3 DEF Sent, instance
<1>3. CASE getObject(r)
  <2> DEFINE awaits == created[requests[r].instance].context
             at == IF awaits = 0 THEN "asserted" ELSE "waiting"
  <2>1. /\ requests' = [requests EXCEPT ![r].at = at, ![r].awaits = awaits]
        /\ requests[r].at = "running" /\ UNCHANGED sharedCache
    BY <1>3 DEF getObject, objects
  <2> HIDE DEF awaits, at
  <2>2. requests'[r].at = at /\ requests'[r].awaits = awaits /\ requests'[r].instance = requests[r].instance
        /\ \A q \in Requests : q # r => requests'[q] = requests[q]
    BY <1>t, <2>1 DEF RequestState
  <2> QED
    BY <1>1, <2>1, <2>2 DEF Asked, awaits, at, Context
<1>4. CASE GotContext(r)
  <2>1. PICK c : c = sharedCache'
    OBVIOUS
  <2>2. /\ requests' = [requests EXCEPT ![r] = [NotSent EXCEPT !.at = "served", !.object = c]]
        /\ requests[r].at = "waiting" /\ requests[r].awaits \in resolved
        /\ sharedCache' = IF sharedCache = "empty" THEN created[requests[r].instance].constructors ELSE sharedCache
    BY <1>4, <2>1 DEF GotContext
  <2>3. [NotSent EXCEPT !.at = "served", !.object = c].at = "served"
    BY DEF NotSent
  <2>4. requests'[r].at = "served" /\ \A q \in Requests : q # r => requests'[q] = requests[q]
    BY <1>t, <2>2, <2>3
  <2> QED
    BY <1>1, <2>2, <2>4 DEF Got
<1> QED
  BY <1>2, <1>3, <1>4 DEF Asks

\* A request that can reach an instance has one.
LEMMA RequestIs ==
  ASSUME RequestTypes, NEW r \in Requests, requests[r].at \in {"running", "waiting"}
  PROVE  requests[r].instance \in DOMAIN created
BY DEF RequestTypes, RequestState

\* The sorts of steps again.
LEMMA SortsAre ==
  ASSUME OpTypes, Next
  PROVE  (\E o \in Ops : Works(o) \/ Starts(o)) \/ \E r \in Requests : Asks(r)
BY NextIs DEF Starts

-----------------------------------------------------------------------------
(***************************************************************************)
(* Instances and their contexts.                                           *)
(***************************************************************************)

\* Each instance is in its plugin's place.
LEMMA PlacedKept ==
  ASSUME OpTypes, OpsMatch, PluginTypes, InstancesPlaced, Next
  PROVE  InstancesPlaced'
<1>s. /\ instances \in [DOMAIN Plugins -> DOMAIN created]
      /\ \A m \in DOMAIN created : created'[m].plugin = created[m].plugin
  BY InstancesStay DEF Staying, PluginTypes, Context
<1>1. CASE UNCHANGED instances
  BY <1>1, <1>s DEF InstancesPlaced
<1>2. ASSUME NEW o \in Ops, Create(o)
      PROVE  InstancesPlaced'
  <2> DEFINE new == Len(created) + 1
  <2>1. /\ ops[o].i \in DOMAIN Plugins
        /\ created'[new] = NewInstance(ops[o].i, ops[o].options[ops[o].i])
        /\ instances'[ops[o].i] = new
        /\ \A j \in DOMAIN Plugins : j # ops[o].i => instances'[j] = instances[j]
    BY <1>2, CreateIs
  <2>2. created'[new].plugin = ops[o].i
    BY <2>1 DEF NewInstance
  <2> HIDE DEF new
  <2> QED
    BY <1>s, <2>1, <2>2 DEF InstancesPlaced
<1> QED
  BY <1>1, <1>2, InstancesTouched

\* Every promise stays one instance's.
LEMMA ApartKept ==
  ASSUME OpTypes, OpsMatch, Alone, Line, PluginTypes, RequestTypes, PromisesApart,
         ContextsThere, Next
  PROVE  PromisesApart'
<1>t. promises \in Nat /\ instances[DO] \in DOMAIN created /\ requests \in [Requests -> RequestState]
  BY PluginNumbers DEF PluginTypes, RequestTypes
<1>c. \A m \in DOMAIN created : Context(m) \in 0 .. promises
  BY ContextIs
<1>r. ASSUME NEW r \in Requests, requests[r].at = "waiting"
      PROVE  requests[r].awaits \in 1 .. promises
  BY <1>r, <1>t DEF RequestTypes, RequestState
<1>1. ASSUME NEW o \in Ops, NewContext(instances[DO]), UNCHANGED requests
      PROVE  PromisesApart'
  <2>1. /\ DOMAIN created' = DOMAIN created
        /\ \A m \in DOMAIN created : created'[m].context = IF m = instances[DO] THEN promises + 1 ELSE Context(m)
    BY <1>1, <1>t, NewContextIs DEF Context
  <2>2. \A m, n \in DOMAIN created' : m # n => created'[m].context # created'[n].context \/ created'[m].context = 0
    BY <1>c, <1>t, <2>1 DEF PromisesApart, Context
  <2>3. \A r \in Requests : \A n \in DOMAIN created' :
          requests'[r].at = "waiting" /\ created'[n].context = requests'[r].awaits => n = requests'[r].instance
    BY <1>1, <1>c, <1>r, <1>t, <2>1 DEF PromisesApart, Context
  <2> QED
    BY <2>2, <2>3 DEF PromisesApart, Context
<1>2. ASSUME NEW o \in Ops, Create(o), UNCHANGED requests
      PROVE  PromisesApart'
  <2> DEFINE new == Len(created) + 1
  <2>1. /\ DOMAIN created' = DOMAIN created \union {new} /\ new \notin DOMAIN created
        /\ \A m \in DOMAIN created : created'[m] = created[m]
        /\ created'[new] = NewInstance(ops[o].i, ops[o].options[ops[o].i])
    BY <1>2, CreateIs
  <2>2. created'[new].context = 0 /\ \A m \in DOMAIN created : created'[m].context = Context(m)
    BY <2>1 DEF NewInstance, Context
  <2> HIDE DEF new
  <2>3. \A m, n \in DOMAIN created' : m # n => created'[m].context # created'[n].context \/ created'[m].context = 0
    BY <2>1, <2>2 DEF PromisesApart, Context
  <2>4. \A r \in Requests : \A n \in DOMAIN created' :
          requests'[r].at = "waiting" /\ created'[n].context = requests'[r].awaits => n = requests'[r].instance
    BY <1>2, <1>r, <2>1, <2>2 DEF PromisesApart, Context
  <2> QED
    BY <2>3, <2>4 DEF PromisesApart, Context
<1>3. ASSUME NEW o \in Ops, ReloadHook(o), UNCHANGED requests
      PROVE  PromisesApart'
  <2>1. DOMAIN created' = DOMAIN created /\ \A m \in DOMAIN created : created'[m].context = Context(m)
    BY <1>3, ReloadHookIs DEF Context
  <2> QED
    BY <1>3, <2>1 DEF PromisesApart, Context
<1>4. ASSUME UNCHANGED <<created, requests>>
      PROVE  PromisesApart'
  BY <1>4 DEF PromisesApart, Context
<1>5. ASSUME NEW r \in Requests, Asks(r)
      PROVE  PromisesApart'
  <2>1. /\ UNCHANGED created /\ \A q \in Requests : q # r => requests'[q] = requests[q]
        /\ Sent(r) \/ Asked(r) \/ Got(r)
    BY <1>5, AsksIs
  <2>2. \A m \in DOMAIN created : created'[m].context = Context(m)
    BY <2>1 DEF Context
  <2>3. ASSUME NEW n \in DOMAIN created, requests'[r].at = "waiting", Context(n) = requests'[r].awaits
        PROVE  n = requests'[r].instance
    <3>1. Asked(r)
      BY <2>1, <2>3 DEF Sent, Got
    <3>2. /\ Context(n) = Context(requests[r].instance) /\ requests[r].instance \in DOMAIN created
          /\ Context(requests[r].instance) # 0
      BY <2>3, <3>1, RequestIs DEF Asked, ContextsThere
    <3>3. n = requests[r].instance
      BY <3>2 DEF PromisesApart, Context
    <3> QED
      BY <3>1, <3>3 DEF Asked
  <2> QED
    BY <2>1, <2>2, <2>3 DEF PromisesApart, Context
<1>6. ASSUME NEW o \in Ops, Works(o) \/ Starts(o)
      PROVE  UNCHANGED requests
  BY <1>6, WorksIs, StartsIs
<1> QED
  BY <1>1, <1>2, <1>3, <1>4, <1>5, <1>6, InstancesTouched, SortsAre

\* Contexts that there are stay.
LEMMA ContextStays ==
  ASSUME OpTypes, OpsMatch, PluginTypes, Next, NEW n \in DOMAIN created, Context(n) # 0
  PROVE  created'[n].context # 0 /\ n \in DOMAIN created'
<1>1. promises \in Nat /\ DOMAIN created \subseteq DOMAIN created' /\ (created'[n].context = Context(n) \/ created'[n].context = promises + 1)
  BY InstancesStay DEF Staying, PluginTypes, Context
<1> QED
  BY <1>1 DEF Context

\* Instances that requests can reach still have a context.
LEMMA ThereKept ==
  ASSUME OpTypes, OpsMatch, Alone, Line, PluginTypes, RequestTypes, ContextsThere, Next
  PROVE  ContextsThere'
<1>t. /\ instances \in [DOMAIN Plugins -> DOMAIN created] /\ DO \in DOMAIN Plugins
      /\ instances[DO] \in DOMAIN created /\ requests \in [Requests -> RequestState]
      /\ setupResults \in Results /\ setupResults[DO].instance \in DOMAIN created
      /\ globalScope.results[DO].instance \in DOMAIN created
      /\ promises \in Nat /\ resolved \subseteq 1 .. promises
  BY PluginNumbers DEF PluginTypes, RequestTypes, Results
<1>d. DOMAIN created \subseteq DOMAIN created'
  BY InstancesStay DEF Staying
<1>1. ASSUME NEW r \in Requests
      PROVE  /\ requests'[r].at = "running" => created'[requests'[r].instance].context # 0
             /\ requests'[r].at # "asserted"
  <2>1. CASE UNCHANGED requests
    BY <2>1, RequestIs, ContextStays DEF ContextsThere
  <2>2. ASSUME NEW q \in Requests, Asks(q)
        PROVE  /\ requests'[r].at = "running" => created'[requests'[r].instance].context # 0
               /\ requests'[r].at # "asserted"
    <3>1. /\ UNCHANGED created
          /\ q # r => requests'[r] = requests[r]
          /\ Sent(q) \/ Asked(q) \/ Got(q)
      BY <2>2, AsksIs
    <3>2. \A n \in DOMAIN created : created'[n].context = Context(n)
      BY <3>1 DEF Context
    <3>3. CASE r = q /\ Asked(q)
      <4>1. Context(requests[q].instance) # 0
        BY <3>3 DEF ContextsThere, Asked
      <4> QED
        BY <3>3, <4>1 DEF Asked
    <3>4. CASE r = q /\ ~ Asked(q)
      BY <1>t, <3>1, <3>2, <3>4 DEF ContextsThere, Sent, Got
    <3>5. CASE r # q
      <4>1. requests[r].at = "running" => requests[r].instance \in DOMAIN created
        BY RequestIs
      <4> QED
        BY <3>1, <3>2, <3>5, <4>1 DEF ContextsThere
    <3> QED
      BY <3>3, <3>4, <3>5
  <2> QED
    BY <2>1, <2>2, SortsAre, WorksIs, StartsIs
<1>2. ASSUME NEW o \in Ops, Reloading(o)' \/ Replacing(o)'
      PROVE  created'[instances'[DO]].context # 0 /\ created'[instances'[DO]].context \notin resolved'
  <2>1. CASE UNCHANGED <<created, instances, resolved>> /\ (Reloading(o) \/ Replacing(o))
    BY <2>1 DEF ContextsThere, Context
  <2>2. ASSUME NewContext(instances[DO]), UNCHANGED <<instances, resolved>>
        PROVE  created'[instances'[DO]].context # 0 /\ created'[instances'[DO]].context \notin resolved'
    <3>1. created'[instances[DO]].context = promises + 1
      BY <1>t, <2>2, NewContextIs DEF Context
    <3> QED
      BY <1>t, <2>2, <3>1
  <2>3. ASSUME NEW p \in Ops, Starts(p)
        PROVE  UNCHANGED <<created, instances, resolved>> /\ (Reloading(o) \/ Replacing(o))
    <3>1. /\ UNCHANGED <<created, instances, resolved>> /\ ops'[p].at \in Starting
          /\ p # o => ops'[o] = ops[o]
      BY <2>3, StartsIs
    <3> QED
      BY <1>2, <3>1 DEF Reloading, Replacing, At, Starting
  <2>4. ASSUME NEW r \in Requests, Asks(r)
        PROVE  UNCHANGED <<created, instances, resolved>> /\ (Reloading(o) \/ Replacing(o))
    <3>1. UNCHANGED <<created, instances, resolved, ops>>
      BY <2>4, AsksIs
    <3> QED
      BY <1>2, <3>1 DEF Reloading, Replacing, At
  <2>5. ASSUME NEW p \in Ops, Works(p)
        PROVE  created'[instances'[DO]].context # 0 /\ created'[instances'[DO]].context \notin resolved'
    <3>1. p # o => ops'[o] = ops[o] /\ ops[o].at \in AtRest
      BY <2>5, WorksIs
    <3>2. p = o
      BY <1>2, <3>1 DEF Reloading, Replacing, At, AtRest
    <3>3. CASE Renews(o)
      BY <2>2, <3>3 DEF Renews, Dispose, BeforeReload
    <3>4. CASE NewScope(o) \/ RunScript(o) \/ RunAllReloads(o)
      <4>1. UNCHANGED <<created, instances, resolved>> /\ Reloading(o)
        BY <3>4 DEF NewScope, RunScript, RunAllReloads, plugins, objects, Reloading, At
      <4> QED
        BY <2>1, <4>1
    <3>5. CASE (Dispose(o) /\ ~ Renews(o)) \/ readConfig(o) \/ Create(o) \/ SetUp(o) \/ BuildAgain(o)
               \/ Initialised(o) \/ ReloadHook(o)
      <4>1. ~ (Reloading(o)' \/ Replacing(o)')
        BY <3>5, PlacesAfter DEF Reloading, Replacing, At, Renews
      <4> QED
        BY <1>2, <4>1
    <3> QED
      BY <2>5, <3>2, <3>3, <3>4, <3>5 DEF Works, Step, Renews
  <2> QED
    BY <2>1, <2>3, <2>4, <2>5, SortsAre
<1>3. created'[globalScope'.results[DO].instance].context # 0
  <2>1. CASE globalScope'.results = globalScope.results
    BY <1>t, <2>1, ContextStays DEF ContextsThere
  <2>2. ASSUME NEW o \in Ops, NewScope(o)
        PROVE  created'[globalScope'.results[DO].instance].context # 0
    <3>1. Context(setupResults[DO].instance) # 0
      BY <2>2 DEF ContextsThere, NewScope, At, Reloading
    <3>2. globalScope'.results[DO].instance = setupResults[DO].instance
      BY <2>2 DEF NewScope
    <3> QED
      BY <1>t, <3>1, <3>2, ContextStays
  <2>3. ASSUME NEW o \in Ops, RunScript(o)
        PROVE  globalScope'.results = globalScope.results
    <3>1. UNCHANGED globalScope \/ globalScope' = [globalScope EXCEPT !.listening = @ \/ globalScope.by = o]
      BY <2>3 DEF RunScript, script
    <3>2. globalScope \in [results : Results, by : Files, listening : BOOLEAN]
      BY DEF PluginTypes
    <3> QED
      BY <3>1, <3>2
  <2> QED
    BY <2>1, <2>2, <2>3, ScopeTouched
<1>4. setupResults'[DO].instance = instances'[DO] \/ created'[setupResults'[DO].instance].context # 0
  <2>1. CASE UNCHANGED <<setupResults, instances>>
    BY <1>t, <2>1, ContextStays DEF ContextsThere
  <2>2. ASSUME NEW o \in Ops, SetUp(o), UNCHANGED <<created, instances>>,
               setupResults' = [setupResults EXCEPT ![ops[o].i] =
                 [instance |-> instances[ops[o].i], file |-> IF ops[o].i = Core THEN file ELSE None]]
        PROVE  setupResults'[DO].instance = instances'[DO] \/ created'[setupResults'[DO].instance].context # 0
    <3>1. setupResults'[DO].instance \in {setupResults[DO].instance, instances[DO]}
      BY <1>t, <2>2 DEF Results
    <3>2. created'[setupResults[DO].instance].context = Context(setupResults[DO].instance)
      BY <2>2 DEF Context
    <3> QED
      BY <2>2, <3>1, <3>2 DEF ContextsThere
  <2>3. ASSUME NEW o \in Ops, Create(o), UNCHANGED setupResults
        PROVE  setupResults'[DO].instance = instances'[DO] \/ created'[setupResults'[DO].instance].context # 0
    <3>1. CASE ops[o].i = DO
      <4>1. Replacing(o)
        BY <2>3, <3>1 DEF Replacing, Create
      <4>2. Context(setupResults[DO].instance) # 0
        BY <4>1 DEF ContextsThere
      <4> QED
        BY <1>t, <2>3, <4>2, ContextStays
    <3>2. CASE ops[o].i # DO
      <4>1. instances'[DO] = instances[DO]
        BY <1>t, <2>3, <3>2, CreateIs
      <4> QED
        BY <1>t, <2>3, <4>1, ContextStays DEF ContextsThere
    <3> QED
      BY <3>1, <3>2
  <2>4. ASSUME NEW o \in Ops, Create(o)
        PROVE  UNCHANGED setupResults
    BY <2>4 DEF Create
  <2> QED
    BY <2>1, <2>2, <2>3, <2>4, ResultsTouched, InstancesTouched
<1> QED
  BY <1>1, <1>2, <1>3, <1>4 DEF ContextsThere, Context

\* Hooks run when nobody can go on.
LEMMA MicrotasksRun ==
  ASSUME NEW o \in Ops, Works(o), UNCHANGED requests, NEW r \in Requests, requests'[r].at = "waiting"
  PROVE  requests'[r].awaits \notin resolved
<1>1. Microtasks
  BY DEF Works, Step, readConfig, Dispose, Create, SetUp, BuildAgain, Initialised, BeforeReload,
         NewScope, RunScript, RunAllReloads, ReloadHook
<1> QED
  BY <1>1 DEF Microtasks

\* While a reload goes on no context is resolved.
LEMMA NoneResolved ==
  ASSUME ContextsCurrent, NEW o \in Ops, Reloading(o), NEW n \in DOMAIN created
  PROVE  created[n].context \notin resolved
BY DEF ContextsCurrent, Context

\* Resolved contexts stay current.
LEMMA CurrentKept ==
  ASSUME OpTypes, OpsMatch, Alone, Line, PluginTypes, RequestTypes, Scoped,
         PromisesApart, ContextsThere, ContextsCurrent, Next
  PROVE  ContextsCurrent'
<1>t. /\ instances \in [DOMAIN Plugins -> DOMAIN created] /\ DO \in DOMAIN Plugins
      /\ instances[DO] \in DOMAIN created /\ requests \in [Requests -> RequestState]
      /\ promises \in Nat /\ resolved \subseteq 1 .. promises
  BY PluginNumbers DEF PluginTypes, RequestTypes
<1>1. ASSUME NEW p \in Ops, Starts(p)
      PROVE  ContextsCurrent'
  <2>1. /\ UNCHANGED <<created, instances, moduleExports, sharedCache, resolved, requests>>
        /\ ops'[p].at \in Starting
        /\ \A o \in Ops : p # o => ops'[o] = ops[o]
    BY <1>1, StartsIs
  <2>2. \A o \in Ops : (Reloading(o)' => Reloading(o)) /\ (At(o, "runScript")' => At(o, "runScript"))
    BY <2>1 DEF Reloading, At, Starting
  <2> QED
    BY <2>1, <2>2 DEF ContextsCurrent, Context
<1>2. ASSUME NEW q \in Requests, Asks(q)
      PROVE  ContextsCurrent'
  <2>1. /\ UNCHANGED <<created, instances, moduleExports, resolved, ops>>
        /\ \A r \in Requests : r # q => requests'[r] = requests[r]
        /\ Sent(q) \/ Asked(q) \/ Got(q)
    BY <1>2, AsksIs
  <2>2. ASSUME Got(q)
        PROVE  sharedCache' \in {"empty", moduleExports} /\ \A o \in Ops : ~ At(o, "runScript")
    <3>1. Context(requests[q].instance) \in resolved /\ requests[q].instance \in DOMAIN created
      BY <2>2, RequestIs DEF Got, ContextsCurrent
    <3>2. created[requests[q].instance].constructors = moduleExports /\ \A o \in Ops : ~ Reloading(o)
      BY <3>1 DEF ContextsCurrent
    <3> QED
      BY <2>2, <3>2 DEF Got, ContextsCurrent, Reloading, At
  <2>3. ASSUME NEW r \in Requests, requests'[r].at = "waiting", requests'[r].awaits \in resolved
        PROVE  created[requests'[r].instance].context = requests'[r].awaits
    BY <2>1, <2>3 DEF Sent, Asked, Got, ContextsCurrent, Context
  <2>4. sharedCache' \in {"empty", moduleExports} /\ \A o \in Ops : At(o, "runScript") => sharedCache' = "empty"
    BY <2>1, <2>2 DEF Sent, Asked, ContextsCurrent
  <2> QED
    BY <2>1, <2>3, <2>4 DEF ContextsCurrent, Context, Reloading, At
<1>3. ASSUME NEW p \in Ops, Works(p)
      PROVE  ContextsCurrent'
  <2>1. /\ UNCHANGED requests
        /\ \A o \in Ops : o # p => ops'[o] = ops[o] /\ ops[o].at \in AtRest
    BY <1>3, WorksIs
  <2>2. \A r \in Requests : requests'[r].at = "waiting" => requests'[r].awaits \notin resolved
    BY <1>3, <2>1, MicrotasksRun
  <2>3. \A o \in Ops : o # p => ~ Reloading(o)' /\ ~ At(o, "runScript")'
    BY <2>1 DEF Reloading, At, AtRest
  <2>4. CASE readConfig(p) \/ SetUp(p) \/ BuildAgain(p) \/ Initialised(p) \/ (Dispose(p) /\ ~ Renews(p))
    <3>1. ~ Reloading(p)' /\ ~ At(p, "runScript")'
      BY <2>4, PlacesAfter DEF Reloading, At
    <3>2. UNCHANGED <<created, instances, resolved, moduleExports, sharedCache>>
      BY <2>4 DEF readConfig, SetUp, BuildAgain, Initialised, Dispose, Renews, plugins, script, objects
    <3> QED
      BY <2>2, <2>3, <3>1, <3>2 DEF ContextsCurrent, Context
  <2>5. CASE Renews(p)
    <3>1. /\ NewContext(instances[DO]) /\ UNCHANGED <<instances, resolved, moduleExports, sharedCache>>
          /\ ~ At(p, "runScript")'
      BY <2>5, PlacesAfter, MovesTo DEF Renews, Dispose, BeforeReload, script, At
    <3>2. /\ DOMAIN created' = DOMAIN created
          /\ \A m \in DOMAIN created : created'[m].context = IF m = instances[DO] THEN promises + 1 ELSE created[m].context
      BY <1>t, <3>1, NewContextIs
    <3>3. \A n \in DOMAIN created' : created'[n].context \notin resolved'
      BY <1>t, <3>1, <3>2 DEF ContextsCurrent, Context
    <3> QED
      BY <2>2, <2>3, <3>1, <3>3 DEF ContextsCurrent, Context
  <2>6. CASE Create(p)
    <3> DEFINE new == Len(created) + 1
    <3>1. /\ DOMAIN created' = DOMAIN created \union {new} /\ new \notin DOMAIN created
          /\ \A m \in DOMAIN created : created'[m] = created[m]
          /\ created'[new] = NewInstance(ops[p].i, ops[p].options[ops[p].i])
          /\ ops[p].i # DO => instances'[DO] = instances[DO]
      BY <1>t, <2>6, CreateIs
    <3>2. /\ UNCHANGED <<resolved, moduleExports, sharedCache>> /\ ~ Reloading(p)' /\ ~ At(p, "runScript")'
      BY <2>6, PlacesAfter DEF Create, script, objects, Reloading, At
    <3>3. created'[new].context = 0
      BY <3>1 DEF NewInstance
    <3> HIDE DEF new
    <3>4. ASSUME ops[p].i = DO, NEW n \in DOMAIN created
          PROVE  created[n].context \notin resolved
      <4>1. Context(instances[DO]) \notin resolved
        BY <2>6, <3>4 DEF ContextsThere, Replacing, Create
      <4> QED
        BY <4>1 DEF ContextsCurrent, Context
    <3>5. \A n \in DOMAIN created' : created'[n].context \in resolved =>
            n \in DOMAIN created /\ ops[p].i # DO
      BY <1>t, <3>1, <3>3, <3>4
    <3> QED
      BY <2>2, <2>3, <3>1, <3>2, <3>5 DEF ContextsCurrent, Context
  <2>7. CASE NewScope(p) \/ RunScript(p) \/ RunAllReloads(p)
    <3>1. Reloading(p) /\ UNCHANGED <<created, instances, resolved>>
      BY <2>7 DEF NewScope, RunScript, RunAllReloads, plugins, objects, Reloading, At
    <3>2. \A n \in DOMAIN created' : created'[n].context \notin resolved'
      BY <3>1, NoneResolved
    <3>3. sharedCache' \in {"empty", moduleExports'} /\ (At(p, "runScript")' => sharedCache' = "empty")
      <4>1. CASE NewScope(p)
        BY <4>1 DEF NewScope
      <4>2. CASE RunScript(p)
        <5>1. sharedCache' = sharedCache /\ sharedCache = "empty"
          BY <4>2 DEF RunScript, objects, ContextsCurrent
        <5> QED
          BY <5>1
      <4>3. CASE RunAllReloads(p)
        <5>1. ops'[p].at = "reload" /\ UNCHANGED <<sharedCache, moduleExports>>
          BY <4>3, MovesTo DEF RunAllReloads, script, objects
        <5> QED
          BY <5>1 DEF ContextsCurrent, At
      <4> QED
        BY <2>7, <4>1, <4>2, <4>3
    <3> QED
      BY <2>2, <2>3, <3>1, <3>2, <3>3 DEF ContextsCurrent, Context
  <2>8. CASE ReloadHook(p)
    <3>1. /\ DOMAIN created' = DOMAIN created
          /\ \A m \in DOMAIN created :
               /\ created'[m].context = created[m].context
               /\ created'[m].constructors = IF m = instances[DO] THEN ops[p].exports ELSE created[m].constructors
      BY <2>8, ReloadHookIs
    <3>2. /\ UNCHANGED <<instances, moduleExports, sharedCache>> /\ Reloading(p) /\ At(p, "reload")
          /\ ~ Reloading(p)' /\ ~ At(p, "runScript")'
          /\ resolved' = resolved \/ resolved' = resolved \union {created[instances[DO]].context}
      BY <2>8, PlacesAfter DEF ReloadHook, script, Reloading, At
    <3>3. ops[p].exports = moduleExports /\ created[instances[DO]].context # 0
      BY <3>2 DEF Scoped, ScopeMatches, ContextsThere, Context
    <3>4. \A n \in DOMAIN created : created[n].context \notin resolved
      BY <3>2, NoneResolved
    <3>5. ASSUME NEW n \in DOMAIN created', created'[n].context \in resolved'
          PROVE  n = instances'[DO] /\ created'[n].constructors = moduleExports'
      <4>1. created[n].context = created[instances[DO]].context
        BY <3>1, <3>2, <3>4, <3>5
      <4>2. n = instances[DO]
        BY <1>t, <3>1, <3>3, <3>5, <4>1 DEF PromisesApart, Context
      <4> QED
        BY <1>t, <3>1, <3>2, <3>3, <4>2
    <3>6. ASSUME NEW r \in Requests, requests'[r].at = "waiting", requests'[r].awaits \in resolved'
          PROVE  created'[requests'[r].instance].context = requests'[r].awaits
      <4>1. requests[r].at = "waiting" /\ requests[r].awaits = created[instances[DO]].context
        BY <2>1, <2>2, <3>2, <3>6
      <4>2. requests[r].instance = instances[DO]
        BY <1>t, <4>1 DEF PromisesApart, Context
      <4> QED
        BY <1>t, <2>1, <3>1, <4>1, <4>2
    <3> QED
      BY <2>3, <3>2, <3>5, <3>6 DEF ContextsCurrent, Context
  <2> QED
    BY <1>3, <2>4, <2>5, <2>6, <2>7, <2>8 DEF Works, Step, Renews
<1> QED
  BY <1>1, <1>2, <1>3, SortsAre

\* Who failed stays so.
LEMMA FineBefore ==
  ASSUME OpTypes, OpsMatch, Alone, Line, RequestTypes, Next, NEW how \in {"threw", "failed"},
         \A o \in Ops : ops'[o].at # how
  PROVE  \A o \in Ops : ops[o].at # how
<1>1. ASSUME NEW p \in Ops, Works(p)
      PROVE  \A o \in Ops : ops[o].at # how
  BY <1>1, WorksIs DEF AtRest
<1>2. ASSUME NEW p \in Ops, Locked(p)
      PROVE  \A o \in Ops : ops[o].at # how
  BY <1>2, StartsIs DEF Starts, Locked, At
<1>3. ASSUME NEW p \in Ops, NEW kind, NEW place, Arrives(p, kind, place)
      PROVE  \A o \in Ops : ops[o].at # how
  <2>1. ops[p].at = "idle"
    BY <1>3 DEF Arrives, Enters, Begin, At
  <2> QED
    BY <1>3, <2>1, StartsIs DEF Starts
<1>4. ASSUME NEW r \in Requests, Asks(r)
      PROVE  \A o \in Ops : ops[o].at # how
  BY <1>4, AsksIs
<1> QED
  BY <1>1, <1>2, <1>3, <1>4, NextIs

\* Who waits stays attended.
LEMMA AttendedKept ==
  ASSUME OpTypes, OpsMatch, Alone, Line, PluginTypes, RequestTypes,
         PromisesApart, ContextsThere, ContextsCurrent, Attended, Next
  PROVE  Attended'
<1> SUFFICES ASSUME Fine'
             PROVE  Attended'
  BY DEF Attended
<1>t. /\ instances \in [DOMAIN Plugins -> DOMAIN created] /\ DO \in DOMAIN Plugins
      /\ instances[DO] \in DOMAIN created /\ requests \in [Requests -> RequestState]
      /\ globalScope \in [results : Results, by : Files, listening : BOOLEAN]
      /\ globalScope.results[DO].instance \in DOMAIN created
  BY PluginNumbers DEF PluginTypes, RequestTypes, Results
<1>f. Fine
  BY FineBefore DEF Fine
<1>a. /\ \/ \E o \in Ops : Reloading(o) \/ Replacing(o)
         \/ Context(instances[DO]) \in resolved
         \/ Unreached
      /\ \A r \in Requests :
           requests[r].at = "waiting" /\ requests[r].instance = instances[DO] =>
             \/ requests[r].awaits \in resolved \union {Context(instances[DO])}
             \/ \E o \in Ops : Replacing(o)
  BY <1>f DEF Attended
<1>1. ASSUME NEW p \in Ops, Starts(p)
      PROVE  Attended'
  <2>1. /\ UNCHANGED <<created, instances, globalScope, resolved, requests>>
        /\ ops[p].at \in AtRest
        /\ \A o \in Ops : p # o => ops'[o] = ops[o]
    BY <1>1, StartsIs
  <2>2. \A o \in Ops : (Reloading(o) => Reloading(o)') /\ (Replacing(o) => Replacing(o)')
    BY <2>1 DEF Reloading, Replacing, At, AtRest
  <2> QED
    BY <1>a, <2>1, <2>2 DEF Attended, Context, Unreached
<1>2. ASSUME NEW q \in Requests, Asks(q)
      PROVE  Attended'
  <2>1. /\ UNCHANGED <<created, instances, globalScope, resolved, ops>>
        /\ \A r \in Requests : r # q => requests'[r] = requests[r]
        /\ Sent(q) \/ Asked(q) \/ Got(q)
    BY <1>2, AsksIs
  <2>2. \A o \in Ops : (Reloading(o) => Reloading(o)') /\ (Replacing(o) => Replacing(o)')
    BY <2>1 DEF Reloading, Replacing, At
  <2>3. Unreached => Unreached'
    BY <2>1 DEF Unreached, Sent, Asked, Got
  <2>4. ASSUME NEW r \in Requests, requests'[r].at = "waiting", requests'[r].instance = instances[DO]
        PROVE  \/ requests'[r].awaits \in resolved \union {created[instances[DO]].context}
               \/ \E o \in Ops : Replacing(o)
    BY <1>a, <2>1, <2>4 DEF Sent, Asked, Got, Context
  <2> QED
    BY <1>a, <2>1, <2>2, <2>3, <2>4 DEF Attended, Context
<1>3. ASSUME NEW p \in Ops, Works(p)
      PROVE  Attended'
  <2>1. /\ UNCHANGED requests /\ ops[p].at \notin AtRest
        /\ \A o \in Ops : o # p => ops'[o] = ops[o] /\ ops[o].at \in AtRest
    BY <1>3, WorksIs
  <2>2. \A r \in Requests : requests[r].at = "waiting" => requests[r].awaits \notin resolved
    BY <1>3, <2>1, MicrotasksRun
  <2>3. \A o \in Ops : o # p => ~ Reloading(o) /\ ~ Replacing(o)
    BY <2>1 DEF Reloading, Replacing, At, AtRest
  <2>f. ops'[p].at \notin {"threw", "failed"}
    BY DEF Fine
  <2>4. CASE readConfig(p) \/ SetUp(p) \/ BuildAgain(p) \/ Initialised(p) \/ (Dispose(p) /\ ~ Renews(p))
    <3>1. ~ Reloading(p) /\ ~ Replacing(p)
      BY <2>4 DEF readConfig, SetUp, BuildAgain, Initialised, Dispose, Reloading, Replacing, At
    <3>2. UNCHANGED <<created, instances, globalScope, resolved>>
      BY <2>4 DEF readConfig, SetUp, BuildAgain, Initialised, Dispose, Renews, plugins, script, objects
    <3> QED
      BY <1>a, <2>1, <2>3, <3>1, <3>2 DEF Attended, Context, Unreached
  <2>5. CASE Dispose(p) /\ Renews(p)
    <3>1. Replacing(p)'
      BY <2>5, PlacesAfter DEF Renews, Dispose, BeforeReload, Replacing, At
    <3> QED
      BY <3>1 DEF Attended
  <2>6. CASE BeforeReload(p)
    <3>1. Reloading(p)' /\ ~ Reloading(p) /\ ~ Replacing(p) /\ instances' = instances
      BY <2>6, MovesTo DEF BeforeReload, Reloading, Replacing, At
    <3>2. ASSUME NEW r \in Requests, requests[r].at = "waiting", requests[r].instance = instances[DO]
          PROVE  FALSE
      <4>1. Context(instances[DO]) \in resolved
        BY <1>a, <2>3, <3>1, <3>2 DEF Unreached
      <4>2. requests[r].awaits \in resolved
        BY <1>a, <2>3, <3>1, <3>2, <4>1
      <4> QED
        BY <2>2, <3>2, <4>2
    <3> QED
      BY <2>1, <3>1, <3>2 DEF Attended
  <2>7. CASE Create(p)
    <3> DEFINE new == Len(created) + 1
    <3>1. /\ ops[p].i \in DOMAIN Plugins /\ new \notin DOMAIN created
          /\ \A m \in DOMAIN created : created'[m] = created[m]
          /\ instances'[ops[p].i] = new
          /\ \A j \in DOMAIN Plugins : j # ops[p].i => instances'[j] = instances[j]
      BY <2>7, CreateIs
    <3>2. UNCHANGED <<globalScope, resolved>> /\ ~ Reloading(p)
      BY <2>7 DEF Create, script, objects, Reloading, At
    <3> HIDE DEF new
    <3>3. CASE ops[p].i = DO
      <4>1. \A r \in Requests : requests[r].at \in {"running", "waiting"} => requests[r].instance # new
        BY <3>1, RequestIs
      <4>2. globalScope.results[DO].instance # new
        BY <1>t, <3>1
      <4> QED
        BY <2>1, <3>1, <3>2, <3>3, <4>1, <4>2 DEF Attended, Unreached
    <3>4. CASE ops[p].i # DO
      <4>1. instances'[DO] = instances[DO] /\ created'[instances[DO]] = created[instances[DO]] /\ ~ Replacing(p)
        BY <1>t, <3>1, <3>4 DEF Replacing
      <4> QED
        BY <1>a, <2>1, <2>3, <3>2, <4>1 DEF Attended, Context, Unreached
    <3> QED
      BY <3>3, <3>4
  <2>8. CASE NewScope(p) \/ RunScript(p) \/ RunAllReloads(p)
    <3>1. Reloading(p) /\ ~ Replacing(p) /\ UNCHANGED <<created, instances, resolved>>
      BY <2>8 DEF NewScope, RunScript, RunAllReloads, plugins, objects, Reloading, Replacing, At
    <3>2. Reloading(p)'
      BY <2>f, <2>8, PlacesAfter, MovesTo DEF Reloading
    <3> QED
      BY <1>a, <2>1, <2>3, <3>1, <3>2 DEF Attended, Context
  <2>9. CASE ReloadHook(p)
    <3>1. /\ instances' = instances /\ ~ Replacing(p)
          /\ resolved' = resolved \union {created[instances[DO]].context}
      <4>1. ~ End(p, "threw")
        BY <2>f, EndsAt
      <4> QED
        BY <2>9, <4>1 DEF ReloadHook, Replacing, At
    <3>2. created'[instances[DO]].context = created[instances[DO]].context
      BY <1>t, <2>9, ReloadHookIs
    <3> QED
      BY <1>a, <2>1, <2>3, <3>1, <3>2 DEF Attended, Context
  <2> QED
    BY <1>3, <2>4, <2>5, <2>6, <2>7, <2>8, <2>9 DEF Works, Step, Renews
<1> QED
  BY <1>1, <1>2, <1>3, SortsAre

-----------------------------------------------------------------------------
(***************************************************************************)
(* The scope.                                                              *)
(***************************************************************************)

\* An op that ends "returned" before a reload leaves another under way.
LEMMA OneWaits ==
  ASSUME OpTypes, Line, NEW o \in Ops, AtWork(o), Len(mutex) > 1, Watching(o)
  PROVE  \E p \in Ops : p # o /\ Under(p)
<1>1. mutex \in Seq(Ops) /\ 1 \in DOMAIN mutex /\ 2 \in DOMAIN mutex
  BY DEF OpTypes
<1>2. o = mutex[1] /\ mutex[1] # mutex[2] /\ Under(mutex[2]) /\ mutex[2] \in Ops
  BY <1>1 DEF Line
<1> QED
  BY <1>2

\* The scope is that of the op in #reload, and is complete when that is done.
LEMMA ScopedKept ==
  ASSUME OpTypes, OpsMatch, Alone, Line, PluginTypes, RequestTypes, Scoped, Next
  PROVE  Scoped'
<1>t. /\ instances[DO] \in DOMAIN created
      /\ globalScope \in [results : Results, by : Files, listening : BOOLEAN]
  BY PluginNumbers DEF PluginTypes
<1>1. ASSUME NEW p \in Ops, Starts(p)
      PROVE  Scoped'
  <2>1. /\ UNCHANGED <<setupResults, globalScope, moduleExports>>
        /\ ops'[p].at \in Starting
        /\ \A o \in Ops : p # o => ops'[o] = ops[o]
    BY <1>1, StartsIs
  <2>2. ~ Idle'
    BY <2>1 DEF Idle, Under, Starting
  <2>3. \A o \in Ops : ScopeMatches(o)'
    BY <2>1 DEF ScopeMatches, Scoped, At, Starting
  <2> QED
    BY <2>2, <2>3 DEF Scoped
<1>2. ASSUME NEW q \in Requests, Asks(q)
      PROVE  Scoped'
  <2>1. UNCHANGED <<setupResults, globalScope, moduleExports, created, instances, ops, ended>>
    BY <1>2, AsksIs
  <2> QED
    BY <2>1 DEF Scoped, ScopeMatches, Idle, Under, At
<1>3. ASSUME NEW p \in Ops, Works(p)
      PROVE  Scoped'
  <2>1. /\ AtWork(p) /\ ops[p].at \notin AtRest
        /\ \A o \in Ops : o # p => ops'[o] = ops[o] /\ ops[o].at \in AtRest
    BY <1>3, WorksIs
  <2>2. \A o \in Ops : o # p => ScopeMatches(o)'
    BY <2>1 DEF ScopeMatches, At, AtRest
  <2>3. ASSUME ops'[p].at \notin AtRest
        PROVE  ~ Idle'
    BY <2>3 DEF Idle, Under, AtRest
  <2>e. ASSUME NEW how \in {"threw", "failed"}, End(p, how)
        PROVE  Scoped'
    <3>1. ended' # "returned" /\ ops'[p].at = how
      BY <2>e, EndsAt DEF End
    <3> QED
      BY <2>2, <3>1 DEF Scoped, ScopeMatches, At
  <2>4. CASE readConfig(p) \/ Create(p) \/ SetUp(p) \/ BuildAgain(p) \/ Dispose(p) \/ BeforeReload(p)
    <3>1. CASE End(p, "failed")
      BY <2>e, <3>1
    <3>2. CASE ~ End(p, "failed")
      <4>1. ops'[p].at \in {"create", "dispose", "setup", "initialised", "newScope"}
        BY <2>4, <3>2, PlacesAfter, MovesTo
      <4>2. ~ Idle' /\ ScopeMatches(p)'
        BY <2>3, <4>1 DEF AtRest, ScopeMatches, At
      <4> QED
        BY <2>2, <4>2 DEF Scoped
    <3> QED
      BY <3>1, <3>2
  <2>5. CASE Initialised(p)
    <3>1. ScopeMatches(p)'
      BY <2>5, PlacesAfter DEF ScopeMatches, At
    <3>2. ~ Idle'
      <4>1. CASE ops'[p].at = "beforeReload"
        BY <2>3, <4>1 DEF AtRest
      <4>2. CASE ops'[p].at # "beforeReload"
        <5>1. ops[p].kind \in Watch /\ Len(mutex) > 1
          BY <2>5, <4>2, MovesTo DEF Initialised, NotBegun, OpTypes
        <5>2. PICK o \in Ops : o # p /\ Under(o)
          BY <2>1, <5>1, OneWaits DEF Watching
        <5> QED
          BY <2>1, <5>2 DEF Idle, Under
      <4> QED
        BY <4>1, <4>2
    <3> QED
      BY <2>2, <3>1, <3>2 DEF Scoped
  <2>6. CASE NewScope(p)
    <3>1. ops'[p].at = "runScript" /\ globalScope'.results = setupResults' /\ globalScope'.by = p
      BY <2>6, MovesTo DEF NewScope, plugins
    <3>2. ScopeMatches(p)' /\ ~ Idle'
      BY <2>3, <3>1 DEF ScopeMatches, At, AtRest
    <3> QED
      BY <2>2, <3>2 DEF Scoped
  <2>7. CASE RunScript(p)
    <3>1. CASE End(p, "threw")
      BY <2>e, <3>1
    <3>2. CASE ~ End(p, "threw")
      <4>1. /\ moduleExports' = p /\ globalScope' = [globalScope EXCEPT !.listening = @ \/ globalScope.by = p]
            /\ ops'[p].at = "mounts" /\ setupResults' = setupResults
        BY <2>7, <3>2, MovesTo DEF RunScript, plugins
      <4>2. globalScope.results = setupResults /\ globalScope.by = p
        BY <2>7 DEF Scoped, ScopeMatches, RunScript, At
      <4>3. globalScope'.results = setupResults' /\ globalScope'.listening
        BY <1>t, <4>1, <4>2
      <4>4. ScopeMatches(p)' /\ ~ Idle'
        BY <2>3, <4>1, <4>3 DEF ScopeMatches, At, AtRest
      <4> QED
        BY <2>2, <4>4 DEF Scoped
    <3> QED
      BY <3>1, <3>2
  <2>8. CASE RunAllReloads(p)
    <3>1. /\ ops'[p].at = "reload" /\ ops'[p].exports = moduleExports
          /\ UNCHANGED <<globalScope, moduleExports, setupResults>>
      BY <2>8, MovesTo DEF RunAllReloads, plugins, script
    <3>2. globalScope.results = setupResults /\ globalScope.listening
      BY <2>8 DEF Scoped, ScopeMatches, RunAllReloads, At
    <3>3. ScopeMatches(p)' /\ ~ Idle'
      BY <2>3, <3>1, <3>2 DEF ScopeMatches, At, AtRest
    <3> QED
      BY <2>2, <3>3 DEF Scoped
  <2>9. CASE ReloadHook(p)
    <3>1. CASE End(p, "threw")
      BY <2>e, <3>1
    <3>2. CASE ~ End(p, "threw")
      <4>1. ops'[p].at = "returned" /\ UNCHANGED <<globalScope, moduleExports, setupResults, instances>>
        BY <2>9, <3>2, EndsAt DEF ReloadHook, script
      <4>2. globalScope.results = setupResults /\ globalScope.listening /\ ops[p].exports = moduleExports
        BY <2>9 DEF Scoped, ScopeMatches, ReloadHook, At
      <4>3. created'[instances[DO]].constructors = ops[p].exports
        BY <1>t, <2>9, ReloadHookIs
      <4>4. ScopeMatches(p)'
        BY <4>1 DEF ScopeMatches, At
      <4> QED
        BY <2>2, <4>1, <4>2, <4>3, <4>4 DEF Scoped
    <3> QED
      BY <3>1, <3>2
  <2> QED
    BY <1>3, <2>4, <2>5, <2>6, <2>7, <2>8, <2>9 DEF Works, Step
<1> QED
  BY <1>1, <1>2, <1>3, SortsAre

-----------------------------------------------------------------------------
(***************************************************************************)
(* The configuration.                                                      *)
(***************************************************************************)

\* Plugins left out by the loop over those to be set up need no setup.
LEMMA SetsUpMeans ==
  ASSUME NEW op \in OpState, NEW i \in Nat, NEW p, NEW n, SetsUp(op, i, p, n)
  PROVE  /\ \A j \in DOMAIN Plugins : NeedsSetup(op, j) /\ i < j => WillSetUp(Onward(op, p, n), j)
         /\ op.ran /\ i = 0 => WillReadScript(Onward(op, p, n))
<1> DEFINE x == Onward(op, p, n)
<1>1. x.at = p /\ x.i = n /\ \A j : (NeedsSetup(x, j) <=> NeedsSetup(op, j))
  BY SameWork DEF Onward, OpState
<1>2. DOMAIN Plugins = 1 .. 3 /\ Core = 1
  BY PluginNumbers
<1>3. ASSUME NEW j \in DOMAIN Plugins, NeedsSetup(op, j), i < j
      PROVE  p = "setup" /\ n \in DOMAIN Plugins /\ n <= j
  BY <1>2, <1>3 DEF SetsUp
<1>4. ASSUME NEW j \in DOMAIN Plugins, NeedsSetup(op, j), i < j
      PROVE  WillSetUp(x, j)
  <2> HIDE DEF x
  <2> QED
    BY <1>1, <1>2, <1>3, <1>4 DEF WillSetUp
<1>5. ASSUME op.ran, i = 0
      PROVE  WillReadScript(x)
  <2>1. NeedsSetup(op, Core)
    BY <1>5 DEF NeedsSetup
  <2>2. p = "setup" /\ n = Core
    BY <1>2, <1>3, <1>5, <2>1
  <2> HIDE DEF x
  <2> QED
    BY <1>1, <2>2 DEF WillReadScript
<1> HIDE DEF x
<1> QED
  BY <1>4, <1>5 DEF x

\* Plugins that the loop over those to be created leaves out have not changed,
\* and those before it will be set up.
LEMMA CreatesMeans ==
  ASSUME NEW op \in OpState, NEW i \in Nat, NEW p, NEW n, Creates(op, i, p, n)
  PROVE  /\ p = "dispose" => n \in DOMAIN Plugins /\ i < n
         /\ \A j \in DOMAIN Plugins : i < j /\ ~ (p = "dispose" /\ j >= n) => ~ Changed(op, j)
         /\ op.kind \in Configures =>
              \A j \in DOMAIN Plugins : Changed(op, j) /\ j <= i => WillSetUp(Onward(op, p, n), j)
         /\ op.ran \/ (op.all /\ op.kind \in Configures) => WillReadScript(Onward(op, p, n))
         /\ op.all => \A j \in DOMAIN Plugins : i < j => Pending(Onward(op, p, n), j)
<1> DEFINE x == Onward(op, p, n)
<1>1. x.at = p /\ x.i = n /\ x.ran = op.ran /\ x.all = op.all /\ \A j : (Changed(x, j) <=> Changed(op, j))
  BY SameWork DEF Onward, OpState
<1>2. DOMAIN Plugins = 1 .. 3
  BY PluginNumbers
<1>a. op.all => \A j : Changed(op, j)
  BY DEF Changed
<1>3. CASE p = "dispose"
  <2>1. n \in DOMAIN Plugins /\ i < n /\ \A j \in DOMAIN Plugins : i < j /\ j < n => ~ Changed(op, j)
    BY <1>3 DEF Creates, SetsUp
  <2> HIDE DEF x
  <2>2. \A j \in DOMAIN Plugins : Changed(op, j) /\ j <= i => WillSetUp(x, j)
    BY <1>1, <1>2, <1>3, <2>1 DEF WillSetUp
  <2>3. op.ran \/ op.all => WillReadScript(x)
    BY <1>1, <1>3 DEF WillReadScript
  <2>4. op.all => \A j \in DOMAIN Plugins : i < j => n <= j
    BY <1>2, <1>a, <2>1
  <2>5. op.all => \A j \in DOMAIN Plugins : i < j => Pending(x, j)
    BY <1>1, <1>2, <1>3, <2>1, <2>4 DEF Pending
  <2> QED
    BY <1>2, <1>3, <2>1, <2>2, <2>3, <2>5 DEF x
<1>4. CASE p # "dispose"
  <2>1. (\A j \in DOMAIN Plugins : i < j => ~ Changed(op, j)) /\ SetsUp(op, 0, p, n)
    BY <1>4 DEF Creates
  <2>2. /\ \A j \in DOMAIN Plugins : NeedsSetup(op, j) /\ 0 < j => WillSetUp(x, j)
        /\ op.ran => WillReadScript(x)
    BY <2>1, SetsUpMeans
  <2>r. op.all /\ op.kind \in Configures => WillReadScript(x)
    <3>1. ASSUME op.all, op.kind \in Configures
          PROVE  NeedsSetup(op, 1) /\ p = "setup" /\ n = Core
      <4>1. NeedsSetup(op, 1)
        BY <1>2, <1>a, <3>1 DEF NeedsSetup, Configures
      <4> QED
        BY <1>2, <2>1, <4>1, PluginNumbers DEF SetsUp
    <3> HIDE DEF x
    <3> QED
      BY <1>1, <3>1 DEF WillReadScript
  <2>3. op.kind \in Configures => \A j \in DOMAIN Plugins : Changed(op, j) => NeedsSetup(op, j) /\ 0 < j
    BY <1>2 DEF NeedsSetup, Configures
  <2> HIDE DEF x
  <2> QED
    BY <1>4, <1>a, <2>1, <2>2, <2>r, <2>3 DEF x
<1> QED
  BY <1>3, <1>4

\* The configuration, as far as it depends on who is at work and who waits.
InUse(o, i) ==
  IF Configuring(o) /\ ~ (ops[o].at \in {"dispose", "create"} /\ i >= ops[o].i)
  THEN ops[o].options[i] ELSE previousOptions[i]
Chosen(o) == IF Configuring(o) THEN ops[o].options ELSE previousOptions
Waits(o, kinds) == \E p \in Ops : p # o /\ At(p, "lock") /\ ops[p].kind \in kinds
ConfiguredBy(o) ==
  /\ \A i \in DOMAIN Plugins : created[instances[i]].options = InUse(o, i) \/ Pending(ops[o], i)
  /\ options = Chosen(o) \/ At(o, "readConfig") \/ Waits(o, Configures)
  /\ \A i \in DOMAIN Plugins : setupResults[i].instance = instances[i] \/ WillSetUp(ops[o], i)
  /\ setupResults[Core].file = file \/ WillReadScript(ops[o]) \/ Waits(o, {"scriptChanged"})

\* Those at rest configure nothing and set up nothing.
LEMMA RestIs ==
  ASSUME NEW op, op.at \in AtRest
  PROVE  /\ op.at \notin InInit \union {"readConfig"} /\ \A i : ~ WillSetUp(op, i) /\ ~ Pending(op, i)
         /\ WillReadScript(op) => op.at = "lock" /\ op.kind = "scriptChanged"
BY DEF AtRest, InInit, Pending, WillSetUp, WillReadScript

\* That is how it is when one is at work.
LEMMA ConfiguredAtWork ==
  ASSUME Configured, ~ Failed, NEW o \in Ops, ops[o].at \notin AtRest, \A p \in Ops : p # o => ops[p].at \in AtRest
  PROVE  ConfiguredBy(o)
<1>1. \A p \in Ops : p # o => ~ Configuring(p)
  BY RestIs DEF Configuring
<1>2. /\ \A i \in DOMAIN Plugins : InstanceOptions(i)
      /\ OptionsRead
      /\ \A i \in DOMAIN Plugins :
           setupResults[i].instance = instances[i] \/ \E p \in Ops : WillSetUp(ops[p], i)
      /\ setupResults[Core].file = file \/ \E p \in Ops : WillReadScript(ops[p])
  BY DEF Configured
<1>3. \A i \in DOMAIN Plugins : created[instances[i]].options = InUse(o, i) \/ Pending(ops[o], i)
  BY <1>1, <1>2, RestIs DEF InstanceOptions, InUse
<1>4. options = Chosen(o) \/ At(o, "readConfig") \/ Waits(o, Configures)
  <2>1. WillBeRead => At(o, "readConfig") \/ Waits(o, Configures)
    BY DEF WillBeRead, Waits, At, AtRest
  <2> QED
    BY <1>1, <1>2, <2>1 DEF OptionsRead, Chosen
<1>5. \A i \in DOMAIN Plugins : setupResults[i].instance = instances[i] \/ WillSetUp(ops[o], i)
  BY <1>2, RestIs
<1>6. setupResults[Core].file = file \/ WillReadScript(ops[o]) \/ Waits(o, {"scriptChanged"})
  BY <1>2, RestIs DEF Waits, At
<1> QED
  BY <1>3, <1>4, <1>5, <1>6 DEF ConfiguredBy

\* And the other way round.
LEMMA ConfiguredAfter ==
  ASSUME NEW o \in Ops, \A p \in Ops : p # o => ops'[p].at \in AtRest, ConfiguredBy(o)',
         ops'[o].at # "readConfig"
  PROVE  Configured'
<1>1. \A p \in Ops : p # o => ~ Configuring(p)'
  BY RestIs DEF Configuring
<1>2. \A i \in DOMAIN Plugins : InstanceOptions(i)'
  BY <1>1 DEF ConfiguredBy, InstanceOptions, InUse
<1>3. OptionsRead'
  <2>1. Waits(o, Configures)' => WillBeRead'
    BY DEF WillBeRead, Waits, At
  <2> QED
    BY <1>1, <2>1 DEF ConfiguredBy, OptionsRead, Chosen, At
<1>4. \A i \in DOMAIN Plugins :
        setupResults'[i].instance = instances'[i] \/ \E p \in Ops : WillSetUp(ops'[p], i)
  BY DEF ConfiguredBy
<1>5. setupResults'[Core].file = file' \/ \E p \in Ops : WillReadScript(ops'[p])
  <2>1. Waits(o, {"scriptChanged"})' => \E p \in Ops : WillReadScript(ops'[p])
    BY DEF Waits, At, WillReadScript
  <2> QED
    BY <2>1 DEF ConfiguredBy
<1> QED
  BY <1>2, <1>3, <1>4, <1>5 DEF Configured

\* Who starts keeps it, or has options or the script to read.
LEMMA ConfiguredStarts ==
  ASSUME OpTypes, OpsMatch, Line, Configured, ~ Failed, NEW p \in Ops, Starts(p)
  PROVE  Configured'
<1>1. /\ UNCHANGED <<previousOptions, created, instances, setupResults>>
      /\ ops[p].at \in AtRest /\ ops'[p].at \in Starting
      /\ \A o \in Ops : p # o => ops'[o] = ops[o]
  BY StartsIs
<1>2. /\ \A i \in DOMAIN Plugins : InstanceOptions(i)
      /\ OptionsRead
      /\ \A i \in DOMAIN Plugins :
           setupResults[i].instance = instances[i] \/ \E o \in Ops : WillSetUp(ops[o], i)
      /\ setupResults[Core].file = file \/ \E o \in Ops : WillReadScript(ops[o])
  BY DEF Configured
<1>3. /\ ~ Configuring(p)'
      /\ \/ options' = options /\ (At(p, "lock") /\ ops[p].kind \in Configures => At(p, "readConfig")' /\ ops'[p].kind \in Configures)
         \/ ops'[p].at \in {"lock", "readConfig"} /\ ops'[p].kind \in Configures
      /\ (file' = file /\ (WillReadScript(ops[p]) => WillReadScript(ops'[p]))) \/ WillReadScript(ops'[p])
  <2>1. CASE Locked(p)
    <3>1. ops'[p] = LockedOp(p) /\ ops[p].kind \in Watch /\ ops[p] \in OpState /\ ops[p].at = "lock"
      <4>1. Becomes(p, LockedOp(p)) /\ ops[p].kind \in Watch
        BY <2>1, LockedIs
      <4>2. ops'[p] = LockedOp(p)
        BY <4>1, OthersStay
      <4>3. ops[p] \in OpState /\ ops[p].at = "lock"
        BY <2>1 DEF Locked, At, OpTypes
      <4> QED
        BY <4>1, <4>2, <4>3
    <3>2. UNCHANGED <<options, file>>
      BY <2>1 DEF Locked, config
    <3>3. /\ LockedOp(p).kind = ops[p].kind /\ LockedOp(p).at = LockedAt(ops[p].kind)
          /\ ops[p].kind = "scriptChanged" => LockedOp(p).i = Core
      BY <3>1 DEF LockedOp, OpState
    <3>4. ops'[p].at \in InInit => ops'[p].at = "setup" /\ ops'[p].kind = "scriptChanged"
      BY <3>1, <3>3 DEF LockedAt, InInit, Watch
    <3>5. ~ Configuring(p)'
      BY <3>4 DEF Configuring, Configures
    <3>6. ops[p].kind \in Configures => At(p, "readConfig")' /\ ops'[p].kind \in Configures
      BY <3>1, <3>3 DEF Configures, Watch, LockedAt, At
    <3>7. WillReadScript(ops[p]) => WillReadScript(ops'[p])
      <4>1. WillReadScript(ops[p]) => ops[p].kind = "scriptChanged"
        BY <3>1 DEF WillReadScript
      <4>2. ops[p].kind = "scriptChanged" => ops'[p].at = "setup" /\ ops'[p].i = Core
        BY <3>1, <3>3 DEF LockedAt
      <4> QED
        BY <4>1, <4>2 DEF WillReadScript
    <3> QED
      BY <3>2, <3>5, <3>6, <3>7
  <2>2. CASE \E kind, place : Arrives(p, kind, place)
    <3>1. PICK kind, place : Arrives(p, kind, place)
      BY <2>2
    <3>2. ops'[p].kind = kind /\ ops'[p].at = place
      BY <3>1, BeginIs, OthersStay DEF Arrives
    <3>3. ops[p].at = "idle"
      BY <3>1 DEF Arrives, Enters, Begin, At
    <3>4. /\ kind \in {"setOptions", "configChanged"} => place \in {"lock", "readConfig"} /\ kind \in Configures
          /\ kind = "scriptChanged" => place = "lock"
          /\ place \notin InInit
      BY <3>1 DEF Arrives, Enters, Beginnings, Configures, InInit
    <3>5. (kind \in {"setOptions", "configChanged"} \/ options' = options) /\ (kind = "scriptChanged" \/ file' = file)
      BY <3>1 DEF Arrives
    <3>6. ~ Configuring(p)'
      BY <3>2, <3>4 DEF Configuring
    <3>7. ~ WillReadScript(ops[p]) /\ ~ At(p, "lock")
      BY <3>3 DEF WillReadScript, At
    <3>8. kind = "scriptChanged" => WillReadScript(ops'[p])
      BY <3>2, <3>4 DEF WillReadScript
    <3> QED
      BY <3>2, <3>4, <3>5, <3>6, <3>7, <3>8
  <2> QED
    BY <2>1, <2>2 DEF Starts
<1>4. ~ Configuring(p)
  BY <1>1, RestIs DEF Configuring
<1>5. \A o \in Ops : o # p => (Configuring(o)' <=> Configuring(o))
  BY <1>1 DEF Configuring
<1>6. ASSUME NEW i \in DOMAIN Plugins
      PROVE  InstanceOptions(i)'
  <2>1. InstanceOptions(i)
    BY <1>2
  <2>p. \A o \in Ops : Pending(ops[o], i) => Pending(ops'[o], i)
    BY <1>1, RestIs
  <2>2. (\A o \in Ops : ~ Configuring(o)) <=> (\A o \in Ops : ~ Configuring(o)')
    BY <1>3, <1>4, <1>5
  <2>3. \A o \in Ops : Configuring(o)' => o # p /\ Configuring(o) /\ ops'[o] = ops[o]
    BY <1>1, <1>3, <1>5
  <2> QED
    BY <1>1, <2>1, <2>p, <2>2, <2>3 DEF InstanceOptions
<1>7. OptionsRead'
  <2>1. WillBeRead' \/ (options' = options /\ ~ WillBeRead)
    <3>1. CASE ops'[p].at \in {"lock", "readConfig"} /\ ops'[p].kind \in Configures
      BY <3>1 DEF WillBeRead
    <3>2. CASE options' = options /\ (At(p, "lock") /\ ops[p].kind \in Configures => At(p, "readConfig")' /\ ops'[p].kind \in Configures)
      <4>1. WillBeRead => WillBeRead'
        BY <1>1, <3>2 DEF WillBeRead, At, AtRest
      <4> QED
        BY <3>2, <4>1
    <3> QED
      BY <1>3, <3>1, <3>2
  <2> QED
    BY <1>1, <1>2, <1>3, <1>4, <1>5, <2>1 DEF OptionsRead
<1>8. \A i \in DOMAIN Plugins :
        setupResults'[i].instance = instances'[i] \/ \E o \in Ops : WillSetUp(ops'[o], i)
  <2>1. \A i : ~ WillSetUp(ops[p], i)
    BY <1>1, RestIs
  <2> QED
    BY <1>1, <1>2, <2>1
<1>9. setupResults'[Core].file = file' \/ \E o \in Ops : WillReadScript(ops'[o])
  BY <1>1, <1>2, <1>3
<1> QED
  BY <1>6, <1>7, <1>8, <1>9 DEF Configured

\* The loops of #init keep it.
LEMMA ConfiguredInit ==
  ASSUME OpTypes, OpsMatch, Alone, Line, PreviousSeen, PluginTypes, NEW p \in Ops, Works(p), ConfiguredBy(p), ops'[p].at # "failed",
         readConfig(p) \/ Dispose(p) \/ Create(p) \/ SetUp(p) \/ BuildAgain(p)
  PROVE  ConfiguredBy(p)'
<1>t. /\ instances \in [DOMAIN Plugins -> DOMAIN created] /\ setupResults \in Results
      /\ ops[p] \in OpState /\ OpMatches(ops[p]) /\ DOMAIN Plugins = 1 .. 3 /\ Core = 1 /\ Build = 2
      /\ ops \in [Ops -> OpState]
      /\ At(p, "readConfig") \/ Configuring(p) => ops[p].previous = previousOptions
  BY PluginNumbers DEF PluginTypes, OpTypes, OpsMatch, PreviousSeen
<1>w. \A kinds : Waits(p, kinds) <=> \E o \in Ops : o # p /\ ops'[o].at = "lock" /\ ops'[o].kind \in kinds
  BY WorksIs DEF Waits, At
<1>m. /\ ReadOp(p) \in OpState /\ CreatedOp(p) \in OpState
      /\ BuiltOp(p) \in OpState /\ BuiltOp(p).at = "setup"
  BY OpsMade
<1>e. ~ End(p, "failed")
  BY EndsAt
<1>1. CASE readConfig(p)
  <2> DEFINE op == ReadOp(p)
  <2>1. PICK q, n : Becomes(p, Onward(op, q, n)) /\ Creates(op, 0, q, n)
    BY <1>1, LoopMoves
  <2>2. UNCHANGED <<options, previousOptions, file, created, instances, setupResults>> /\ ops[p].at = "readConfig"
    BY <1>1 DEF readConfig, config, plugins, At
  <2>3. ops'[p] = Onward(op, q, n)
    BY <2>1, OthersStay
  <2>4. /\ op.options = options /\ op.previous = previousOptions /\ op.kind \in Configures
    BY <1>t, <2>2 DEF ReadOp, OpState, OpMatches, At
  <2>5. q \in InInit /\ (q = "dispose" => n \in DOMAIN Plugins)
    BY <2>1 DEF Creates, SetsUp, InInit
  <2>6. /\ ops'[p].at = q /\ ops'[p].i = n /\ ops'[p].kind \in Configures /\ ops'[p].options = options
    BY <1>m, <2>3, <2>4 DEF Onward, OpState
  <2>a. op.all <=> ops[p].all
    BY <1>t DEF ReadOp, OpState
  <2>p. /\ ops[p].all => WillReadScript(ops'[p]) /\ \A j \in DOMAIN Plugins : Pending(ops'[p], j)
        /\ ~ ops[p].all => \A j \in DOMAIN Plugins : ~ Pending(ops[p], j)
    <3>1. op.all => WillReadScript(Onward(op, q, n)) /\ \A j \in DOMAIN Plugins : 0 < j => Pending(Onward(op, q, n), j)
      BY <1>m, <2>1, <2>4, CreatesMeans
    <3> HIDE DEF op
    <3> QED
      BY <1>t, <2>3, <2>a, <3>1 DEF Pending
  <2>7. \A j \in DOMAIN Plugins : 0 < j /\ ~ (q = "dispose" /\ j >= n) => previousOptions[j] = options[j]
    BY <1>m, <2>1, <2>4, CreatesMeans DEF Changed
  <2>8. Configuring(p)' /\ ~ Configuring(p) /\ q # "create"
    BY <2>1, <2>2, <2>5, <2>6 DEF Configuring, InInit, Creates, SetsUp
  <2>9. \A i \in DOMAIN Plugins : created'[instances'[i]].options = InUse(p, i)' \/ Pending(ops'[p], i)
    <3>1. ~ ops[p].all => \A i \in DOMAIN Plugins : created[instances[i]].options = previousOptions[i]
      BY <2>p, <2>8 DEF ConfiguredBy, InUse
    <3> QED
      BY <1>t, <2>2, <2>6, <2>p, <2>7, <2>8, <3>1 DEF InUse
  <2>10. Chosen(p)' = options'
    BY <2>2, <2>6, <2>8 DEF Chosen
  <2>11. \A i \in DOMAIN Plugins : setupResults'[i].instance = instances'[i] \/ WillSetUp(ops'[p], i)
    <3>1. ~ ops[p].all => \A i \in DOMAIN Plugins : setupResults[i].instance = instances[i]
      BY <2>2, <2>p DEF ConfiguredBy, WillSetUp
    <3> QED
      BY <2>2, <2>p, <3>1 DEF WillSetUp
  <2>12. setupResults'[Core].file = file' \/ WillReadScript(ops'[p]) \/ Waits(p, {"scriptChanged"})'
    <3>1. ~ ops[p].all => setupResults[Core].file = file \/ Waits(p, {"scriptChanged"})
      BY <2>2 DEF ConfiguredBy, WillReadScript
    <3> QED
      BY <1>w, <2>2, <2>p, <3>1 DEF Waits, At
  <2> QED
    BY <2>9, <2>10, <2>11, <2>12 DEF ConfiguredBy
<1>2. CASE Dispose(p)
  <2>1. ops' = [ops EXCEPT ![p] = [ops[p] EXCEPT !.at = "create"]]
    BY <1>2, MovesTo
  <2>2. /\ ops'[p].at = "create" /\ ops'[p].i = ops[p].i /\ ops'[p].kind = ops[p].kind /\ ops'[p].ran = ops[p].ran
        /\ ops'[p].options = ops[p].options /\ ops'[p].previous = ops[p].previous /\ ops'[p].all = ops[p].all
    BY <1>t, <2>1 DEF OpState
  <2>3. UNCHANGED <<options, previousOptions, file, instances, setupResults>> /\ ops[p].at = "dispose"
    BY <1>2 DEF Dispose, config, At
  <2>4. \A m \in DOMAIN created : created'[m].options = created[m].options
    <3>1. CASE NewContext(instances[DO])
      BY <1>t, <3>1, NewContextIs, PluginNumbers
    <3>2. CASE UNCHANGED created
      BY <3>2
    <3> QED
      BY <1>2, <3>1, <3>2 DEF Dispose
  <2>5. Configuring(p)' <=> Configuring(p)
    BY <2>2, <2>3 DEF Configuring, InInit
  <2>p. \A i \in DOMAIN Plugins : Pending(ops'[p], i) <=> Pending(ops[p], i)
    BY <2>2, <2>3 DEF Pending
  <2>6. \A i \in DOMAIN Plugins : created'[instances'[i]].options = InUse(p, i)' \/ Pending(ops'[p], i)
    <3>1. \A i \in DOMAIN Plugins : InUse(p, i)' = InUse(p, i)
      BY <2>2, <2>3, <2>5 DEF InUse
    <3> QED
      BY <1>t, <2>3, <2>4, <2>p, <3>1 DEF ConfiguredBy
  <2>7. options' = Chosen(p)' \/ Waits(p, Configures)'
    <3>1. options = Chosen(p) \/ Waits(p, Configures)
      BY <2>3 DEF ConfiguredBy, At
    <3>2. Chosen(p)' = Chosen(p)
      BY <2>2, <2>3, <2>5 DEF Chosen
    <3> QED
      BY <1>w, <2>3, <3>1, <3>2 DEF Waits, At
  <2>8. \A i \in DOMAIN Plugins : WillSetUp(ops'[p], i) <=> WillSetUp(ops[p], i)
    BY <2>2, <2>3, <2>p DEF WillSetUp, Changed
  <2>9. WillReadScript(ops'[p]) <=> WillReadScript(ops[p])
    BY <2>2, <2>3 DEF WillReadScript
  <2>10. Waits(p, {"scriptChanged"})' <=> Waits(p, {"scriptChanged"})
    BY <1>w DEF Waits, At
  <2> QED
    BY <2>3, <2>6, <2>7, <2>8, <2>9, <2>10 DEF ConfiguredBy
<1>3. CASE Create(p)
  <2> DEFINE op == CreatedOp(p)
             i == ops[p].i
             new == Len(created) + 1
  <2>1. PICK q, n : Becomes(p, Onward(op, q, n)) /\ Creates(op, i, q, n)
    BY <1>3, <1>e, LoopMoves
  <2>2. /\ i \in DOMAIN Plugins /\ new \notin DOMAIN created
        /\ \A m \in DOMAIN created : created'[m] = created[m]
        /\ created'[new] = NewInstance(i, ops[p].options[i])
        /\ instances'[i] = new
        /\ \A j \in DOMAIN Plugins : j # i => instances'[j] = instances[j]
    BY <1>3, CreateIs
  <2>3. UNCHANGED <<options, previousOptions, setupResults>> /\ ops[p].at = "create" /\ (i # Build => file' = file)
    BY <1>3, <1>e DEF Create, At
  <2>4. ops'[p] = Onward(op, q, n)
    BY <2>1, OthersStay
  <2>5. /\ op.options = ops[p].options /\ op.previous = previousOptions /\ op.kind = ops[p].kind
        /\ op.kind \in Configures /\ (op.ran <=> ops[p].ran \/ i = Build)
        /\ \A j : Changed(op, j) <=> Changed(ops[p], j)
        /\ Changed(ops[p], i)
    BY <1>t, <2>3 DEF CreatedOp, OpState, OpMatches, Changed, InInit, Configuring
  <2>a. op.all <=> ops[p].all
    BY <1>t DEF CreatedOp, OpState
  <2>6. q \in InInit
    BY <2>1 DEF Creates, SetsUp, InInit
  <2>7. /\ ops'[p].at = q /\ ops'[p].i = n /\ ops'[p].kind \in Configures /\ ops'[p].options = ops[p].options
    BY <1>m, <2>4, <2>5 DEF Onward, OpState
  <2>n. i \in Nat /\ created'[new].options = ops[p].options[i]
    BY <1>t, <2>2 DEF NewInstance
  <2>8. /\ q = "dispose" => n \in DOMAIN Plugins /\ i < n
        /\ \A j \in DOMAIN Plugins : i < j /\ ~ (q = "dispose" /\ j >= n) => ~ Changed(op, j)
        /\ \A j \in DOMAIN Plugins : Changed(op, j) /\ j <= i => WillSetUp(Onward(op, q, n), j)
        /\ op.ran \/ op.all => WillReadScript(Onward(op, q, n))
        /\ op.all => \A j \in DOMAIN Plugins : i < j => Pending(Onward(op, q, n), j)
    BY <1>m, <2>1, <2>5, <2>n, CreatesMeans
  <2> HIDE DEF op, i, new
  <2>p. \A j \in DOMAIN Plugins : Pending(ops[p], j) /\ j # i => i < j /\ Pending(ops'[p], j)
    BY <1>t, <2>2, <2>3, <2>4, <2>a, <2>8 DEF Pending, i
  <2>9. Configuring(p)' /\ Configuring(p) /\ q # "create"
    BY <2>1, <2>3, <2>5, <2>6, <2>7 DEF Configuring, InInit, Creates, SetsUp
  <2>10. ASSUME NEW j \in DOMAIN Plugins
         PROVE  created'[instances'[j]].options = InUse(p, j)' \/ Pending(ops'[p], j)
    <3>1. \/ created[instances[j]].options = IF j >= i THEN previousOptions[j] ELSE ops[p].options[j]
          \/ Pending(ops[p], j)
      BY <2>3, <2>9 DEF ConfiguredBy, InUse, i
    <3>2. InUse(p, j)' = IF q = "dispose" /\ j >= n THEN previousOptions[j] ELSE ops[p].options[j]
      BY <2>3, <2>7, <2>9 DEF InUse
    <3>3. CASE j = i
      BY <1>t, <2>2, <2>8, <2>n, <3>2, <3>3
    <3>4. CASE j < i
      <4>1. ~ Pending(ops[p], j)
        BY <1>t, <2>2, <2>p, <3>4
      <4> QED
        BY <1>t, <2>2, <2>8, <3>1, <3>2, <3>4, <4>1
    <3>5. CASE j > i /\ ~ Pending(ops[p], j)
      <4>1. created'[instances'[j]].options = previousOptions[j]
        BY <1>t, <2>2, <3>1, <3>5
      <4>2. ~ (q = "dispose" /\ j >= n) => previousOptions[j] = ops[p].options[j]
        BY <1>t, <2>2, <2>5, <2>8, <3>5 DEF Changed
      <4> QED
        BY <3>2, <4>1, <4>2
    <3> QED
      BY <1>t, <2>2, <2>p, <3>3, <3>4, <3>5
  <2>11. options' = Chosen(p)' \/ Waits(p, Configures)'
    <3>1. options = ops[p].options \/ Waits(p, Configures)
      BY <2>3, <2>9 DEF ConfiguredBy, At, Chosen
    <3>2. Chosen(p)' = ops[p].options
      BY <2>7, <2>9 DEF Chosen
    <3> QED
      BY <1>w, <2>3, <3>1, <3>2 DEF Waits, At
  <2>12. ASSUME NEW j \in DOMAIN Plugins
         PROVE  setupResults'[j].instance = instances'[j] \/ WillSetUp(ops'[p], j)
    <3>1. WillSetUp(ops[p], j) => Pending(ops[p], j) \/ (Changed(ops[p], j) /\ j < i)
      BY <2>3 DEF WillSetUp, i
    <3>p. Pending(ops'[p], j) => WillSetUp(ops'[p], j)
      BY DEF WillSetUp
    <3>2. CASE j = i
      BY <1>t, <2>4, <2>5, <2>8, <3>2
    <3>3. CASE j # i
      BY <1>t, <2>2, <2>3, <2>4, <2>5, <2>p, <2>8, <3>1, <3>p, <3>3 DEF ConfiguredBy
    <3> QED
      BY <3>2, <3>3
  <2>13. setupResults'[Core].file = file' \/ WillReadScript(ops'[p]) \/ Waits(p, {"scriptChanged"})'
    <3>1. WillReadScript(ops[p]) => ops[p].ran \/ ops[p].all
      BY <2>3 DEF WillReadScript
    <3>2. Waits(p, {"scriptChanged"})' <=> Waits(p, {"scriptChanged"})
      BY <1>w DEF Waits, At
    <3> QED
      BY <2>3, <2>4, <2>5, <2>a, <2>8, <3>1, <3>2 DEF ConfiguredBy
  <2> QED
    BY <2>10, <2>11, <2>12, <2>13 DEF ConfiguredBy
<1>4. CASE SetUp(p)
  <2> DEFINE op == ops[p]
             i == ops[p].i
  <2>1. PICK q, n : Becomes(p, Onward(op, q, n)) /\ SetsUp(op, i, q, n)
    BY <1>4, <1>e, LoopMoves
  <2>2. /\ UNCHANGED <<options, previousOptions, file, created, instances>> /\ ops[p].at = "setup"
        /\ setupResults' = [setupResults EXCEPT ![i] = [instance |-> instances[i], file |-> IF i = Core THEN file ELSE None]]
    BY <1>4, <1>e DEF SetUp, At, config
  <2>3. ops'[p] = Onward(op, q, n)
    BY <2>1, OthersStay
  <2>4. q \in {"setup", "initialised"}
    BY <2>1 DEF SetsUp
  <2>5. /\ ops'[p].at = q /\ ops'[p].kind = ops[p].kind /\ ops'[p].options = ops[p].options
    BY <1>t, <2>3 DEF Onward, OpState
  <2>6. i \in DOMAIN Plugins /\ i \in Nat
    BY <1>t, <2>2 DEF OpMatches
  <2>7. \A j \in DOMAIN Plugins : NeedsSetup(op, j) /\ i < j => WillSetUp(Onward(op, q, n), j)
    BY <1>t, <2>1, <2>6, SetsUpMeans
  <2>p. \A j \in DOMAIN Plugins : ~ Pending(ops[p], j)
    BY <2>2 DEF Pending
  <2>8. (Configuring(p)' <=> Configuring(p)) /\ \A j \in DOMAIN Plugins : InUse(p, j)' = InUse(p, j)
    <3>1. Configuring(p)' <=> Configuring(p)
      BY <2>2, <2>4, <2>5 DEF Configuring, InInit
    <3> QED
      BY <2>2, <2>4, <2>5, <3>1 DEF InUse
  <2>9. options' = Chosen(p)' \/ Waits(p, Configures)'
    <3>1. options = Chosen(p) \/ Waits(p, Configures)
      BY <2>2 DEF ConfiguredBy, At
    <3>2. Chosen(p)' = Chosen(p)
      BY <2>2, <2>5, <2>8 DEF Chosen
    <3> QED
      BY <1>w, <2>2, <3>1, <3>2 DEF Waits, At
  <2>s. /\ setupResults'[i].instance = instances[i] /\ (i = Core => setupResults'[Core].file = file)
        /\ \A j \in DOMAIN Plugins : j # i => setupResults'[j] = setupResults[j]
    BY <1>t, <2>2, <2>6 DEF Results
  <2>10. ASSUME NEW j \in DOMAIN Plugins
         PROVE  setupResults'[j].instance = instances'[j] \/ WillSetUp(ops'[p], j)
    <3>1. WillSetUp(ops[p], j) => NeedsSetup(ops[p], j) /\ j >= i
      BY <2>2, <2>p DEF WillSetUp
    <3>2. CASE j = i
      BY <2>2, <2>s, <3>2
    <3>3. CASE j # i
      <4>1. WillSetUp(ops[p], j) => WillSetUp(ops'[p], j)
        BY <1>t, <2>3, <2>6, <2>7, <3>1, <3>3
      <4> QED
        BY <2>2, <2>s, <3>3, <4>1 DEF ConfiguredBy
    <3> QED
      BY <3>2, <3>3
  <2>11. setupResults'[Core].file = file' \/ Waits(p, {"scriptChanged"})'
    <3>1. CASE i = Core
      BY <2>2, <2>s, <3>1
    <3>2. CASE i # Core
      <4>1. ~ WillReadScript(ops[p])
        BY <2>2, <3>2 DEF WillReadScript
      <4>2. Waits(p, {"scriptChanged"})' <=> Waits(p, {"scriptChanged"})
        BY <1>w DEF Waits, At
      <4> QED
        BY <1>t, <2>2, <2>s, <3>2, <4>1, <4>2 DEF ConfiguredBy
    <3> QED
      BY <3>1, <3>2
  <2> QED
    BY <2>2, <2>p, <2>8, <2>9, <2>10, <2>11 DEF ConfiguredBy
<1>5. CASE BuildAgain(p)
  <2> DEFINE op == BuiltOp(p)
  <2>1. PICK q, n : Becomes(p, Onward(op, q, n)) /\ SetsUp(op, 0, q, n)
    BY <1>5, <1>e, LoopMoves
  <2>2. /\ UNCHANGED <<options, previousOptions, created, instances, setupResults>> /\ ops[p].at = "build"
    BY <1>5 DEF BuildAgain, At, plugins
  <2>3. ops'[p] = Onward(op, q, n)
    BY <2>1, OthersStay
  <2>4. op.kind = "sourceChanged" /\ op.ran /\ ops[p].kind = "sourceChanged"
    BY <1>t, <2>2 DEF BuiltOp, OpState, OpMatches
  <2>5. ops'[p].kind = "sourceChanged"
    BY <1>m, <2>3, <2>4 DEF Onward, OpState
  <2>6. WillReadScript(ops'[p])
    BY <1>m, <2>1, <2>3, <2>4, SetsUpMeans
  <2>7. ~ Configuring(p)' /\ ~ Configuring(p)
    BY <2>4, <2>5 DEF Configuring, Configures
  <2>8. \A j \in DOMAIN Plugins : created'[instances'[j]].options = InUse(p, j)'
    BY <2>2, <2>7 DEF ConfiguredBy, InUse, Pending
  <2>9. options' = Chosen(p)' \/ Waits(p, Configures)'
    <3>1. options = previousOptions \/ Waits(p, Configures)
      BY <2>2, <2>7 DEF ConfiguredBy, At, Chosen
    <3>2. Chosen(p)' = previousOptions
      BY <2>2, <2>7 DEF Chosen
    <3> QED
      BY <1>w, <2>2, <3>1, <3>2 DEF Waits, At
  <2>10. \A j \in DOMAIN Plugins : setupResults'[j].instance = instances'[j]
    BY <2>2 DEF ConfiguredBy, WillSetUp, Pending
  <2> QED
    BY <2>6, <2>8, <2>9, <2>10 DEF ConfiguredBy
<1> QED
  BY <1>1, <1>2, <1>3, <1>4, <1>5

\* #reload keeps it, and so does the end of #init, which remembers the options.
LEMMA ConfiguredReload ==
  ASSUME OpTypes, OpsMatch, Alone, Line, PluginTypes, NEW p \in Ops, Works(p), ConfiguredBy(p),
         \/ Initialised(p) \/ BeforeReload(p) \/ NewScope(p) \/ RunScript(p) \/ RunAllReloads(p) \/ ReloadHook(p)
  PROVE  ConfiguredBy(p)'
<1>t. /\ instances \in [DOMAIN Plugins -> DOMAIN created] /\ DO \in DOMAIN Plugins
      /\ OpMatches(ops[p])
  BY PluginNumbers DEF PluginTypes, OpsMatch
<1>w. \A kinds : Waits(p, kinds) <=> \E o \in Ops : o # p /\ ops'[o].at = "lock" /\ ops'[o].kind \in kinds
  BY WorksIs DEF Waits, At
<1>1. /\ ops'[p].at \in {"beforeReload", "newScope", "runScript", "mounts", "reload", "returned", "threw"}
      /\ UNCHANGED <<options, file, setupResults, instances>>
  BY PlacesAfter, MovesTo DEF Initialised, BeforeReload, NewScope, RunScript, RunAllReloads, ReloadHook,
                              config, plugins
<1>2. \A m \in DOMAIN created : created'[m].options = created[m].options
  <2>1. CASE BeforeReload(p)
    BY <1>t, <2>1, NewContextIs DEF BeforeReload
  <2>2. CASE ReloadHook(p)
    BY <2>2, ReloadHookIs
  <2>3. CASE ~ BeforeReload(p) /\ ~ ReloadHook(p)
    BY <2>3 DEF Initialised, NewScope, RunScript, RunAllReloads, plugins
  <2> QED
    BY <2>1, <2>2, <2>3
<1>3. /\ \A i \in DOMAIN Plugins : InUse(p, i) = previousOptions'[i]
      /\ Chosen(p) = previousOptions'
  <2>1. CASE Initialised(p)
    <3>1. ops[p].at = "initialised" /\ ops[p].kind \in Configures \union Watch
      BY <1>t, <2>1 DEF Initialised, At, OpMatches
    <3>2. CASE ops[p].kind \in Configures
      <4>1. Configuring(p) /\ previousOptions' = ops[p].options
        BY <2>1, <3>1, <3>2 DEF Configuring, InInit, Initialised, Configures
      <4> QED
        BY <3>1, <4>1 DEF InUse, Chosen
    <3>3. CASE ops[p].kind \notin Configures
      <4>1. ~ Configuring(p) /\ previousOptions' = previousOptions
        BY <2>1, <3>1, <3>3 DEF Configuring, Initialised, Configures, Watch
      <4> QED
        BY <4>1 DEF InUse, Chosen
    <3> QED
      BY <3>2, <3>3
  <2>2. CASE ~ Initialised(p)
    <3>1. previousOptions' = previousOptions /\ ops[p].at \notin InInit
      BY <2>2 DEF BeforeReload, NewScope, RunScript, RunAllReloads, ReloadHook, config, At, InInit
    <3> QED
      BY <3>1 DEF InUse, Chosen, Configuring
  <2> QED
    BY <2>1, <2>2
<1>4. ~ Configuring(p)'
  BY <1>1 DEF Configuring, InInit
<1>p. \A i \in DOMAIN Plugins : ~ Pending(ops[p], i)
  BY DEF Initialised, BeforeReload, NewScope, RunScript, RunAllReloads, ReloadHook, At, Pending
<1>5. \A i \in DOMAIN Plugins : created'[instances'[i]].options = InUse(p, i)'
  BY <1>t, <1>1, <1>2, <1>3, <1>4, <1>p DEF ConfiguredBy, InUse
<1>6. options' = Chosen(p)' \/ Waits(p, Configures)'
  <2>1. ~ At(p, "readConfig")
    BY DEF Initialised, BeforeReload, NewScope, RunScript, RunAllReloads, ReloadHook, At
  <2>2. options = Chosen(p) \/ Waits(p, Configures)
    BY <2>1 DEF ConfiguredBy
  <2>3. Chosen(p)' = previousOptions'
    BY <1>4 DEF Chosen
  <2> QED
    BY <1>w, <1>1, <1>3, <2>2, <2>3 DEF Waits, At
<1>7. (\A i \in DOMAIN Plugins : ~ WillSetUp(ops[p], i)) /\ ~ WillReadScript(ops[p])
  BY <1>p DEF Initialised, BeforeReload, NewScope, RunScript, RunAllReloads, ReloadHook, At, WillSetUp, WillReadScript
<1>8. Waits(p, {"scriptChanged"})' <=> Waits(p, {"scriptChanged"})
  BY <1>w DEF Waits, At
<1> QED
  BY <1>1, <1>5, <1>6, <1>7, <1>8 DEF ConfiguredBy

\* Plugins stay those of the options, set up with the script.
LEMMA ConfiguredKept ==
  ASSUME OpTypes, OpsMatch, Alone, Line, PreviousSeen, PluginTypes, RequestTypes, Configured, Next
  PROVE  Configured'
<1> SUFFICES ASSUME ~ Failed'
             PROVE  Configured'
  BY DEF Configured
<1>f. ~ Failed
  BY FineBefore DEF Failed, At
<1>1. ASSUME NEW p \in Ops, Works(p)
      PROVE  Configured'
  <2>1. /\ ops[p].at \notin AtRest
        /\ \A o \in Ops : o # p => ops'[o] = ops[o] /\ ops[o].at \in AtRest
    BY <1>1, WorksIs
  <2>2. ConfiguredBy(p)
    BY <1>f, <2>1, ConfiguredAtWork
  <2>3. ops'[p].at # "failed"
    BY DEF Failed, At
  <2>4. ConfiguredBy(p)'
    BY <1>1, <2>2, <2>3, ConfiguredInit, ConfiguredReload DEF Works, Step
  <2>5. ops'[p].at # "readConfig"
    BY <1>1, PlacesAfter, MovesTo DEF Works, Step
  <2> QED
    BY <2>1, <2>4, <2>5, ConfiguredAfter
<1>2. ASSUME NEW q \in Requests, Asks(q)
      PROVE  Configured'
  <2>1. UNCHANGED <<options, previousOptions, file, created, instances, setupResults, ops>>
    BY <1>2, AsksIs
  <2> QED
    BY <1>f, <2>1 DEF Configured, InstanceOptions, OptionsRead, WillBeRead, Configuring, Failed, At
<1> QED
  BY <1>f, <1>1, <1>2, SortsAre, ConfiguredStarts

\* A reload() that begins alone will create, set up and read everything again:
\* whatever ops did before that overlapped, what it leaves is in order.
LEMMA ReloadRestores ==
  ASSUME OpTypes, NEW o \in Ops, Arrives(o, "reload", "readConfig"), \A p \in Ops : ~ Under(p)
  PROVE  InOrder'
<1>1. PICK x : /\ Becomes(o, x) /\ x.kind = "reload" /\ x.at = "readConfig" /\ x.all = TRUE
               /\ x.previous = previousOptions
  <2>1. Enters(o, "reload", "readConfig")
    BY DEF Arrives
  <2>2. PICK k, p : k = "reload" /\ p = "readConfig"
    OBVIOUS
  <2>3. PICK x : /\ Becomes(o, x) /\ x.kind = k /\ x.at = p /\ x.all = (k = "reload")
                 /\ x.previous = (IF p = "readConfig" THEN previousOptions ELSE None)
    BY <2>1, <2>2, BeginIs
  <2>4. x.all = TRUE
    BY <2>2, <2>3
  <2> QED
    BY <2>2, <2>3, <2>4
<1>2. ops'[o] = x /\ (\A p \in Ops : p # o => ops'[p] = ops[p])
  BY <1>1, OthersStay
<1>3. previousOptions' = previousOptions
  BY DEF Arrives
<1>4. \A p \in Ops : p # o => ops'[p].at \in {"idle", "returned", "threw", "failed"}
  BY <1>2 DEF Under
<1>5. Alone'
  BY <1>4 DEF Alone, Under
<1>6. PreviousSeen'
  BY <1>1, <1>2, <1>3, <1>4 DEF PreviousSeen, Configuring, InInit, At
<1>7. Pending(ops[o], 1)' /\ \A i : Pending(ops[o], i)'
  BY <1>1, <1>2 DEF Pending
<1>8. Configured'
  <2>1. \A i \in DOMAIN Plugins : InstanceOptions(i)'
    BY <1>7 DEF InstanceOptions
  <2>2. OptionsRead'
    BY <1>1, <1>2 DEF OptionsRead, WillBeRead, Configures
  <2>3. \A i \in DOMAIN Plugins : WillSetUp(ops[o], i)'
    BY <1>7 DEF WillSetUp
  <2>4. WillReadScript(ops[o])'
    BY <1>1, <1>2 DEF WillReadScript
  <2> QED
    BY <2>1, <2>2, <2>3, <2>4 DEF Configured
<1>9. Scoped'
  <2>1. ~ Idle'
    BY <1>1, <1>2 DEF Idle, Under
  <2>2. \A p \in Ops : ops'[p].at \in {"idle", "returned", "threw", "failed", "readConfig"}
    BY <1>1, <1>2, <1>4
  <2>3. \A p \in Ops : ScopeMatches(p)'
    BY <2>2 DEF ScopeMatches, At
  <2> QED
    BY <2>1, <2>3 DEF Scoped
<1> QED
  BY <1>5, <1>6, <1>8, <1>9 DEF InOrder

-----------------------------------------------------------------------------
(***************************************************************************)
(* The theorems.                                                           *)
(***************************************************************************)

\* The invariant holds after the first initialisation.
LEMMA InitInvariant ==
  ASSUME Init
  PROVE  IInv
<1>p. DOMAIN Plugins = 1 .. 3 /\ Core = 1 /\ Build = 2 /\ DO = 3 /\ Len(Plugins) = 3
  BY PluginNumbers DEF Plugins
<1>o. options \in AllOptions
  BY DEF Init, AllOptions
<1>i. /\ instances = [i \in 1 .. 3 |-> i] /\ resolved = {1} /\ promises = 1 /\ previousOptions = options
      /\ file = None /\ globalScope.results = setupResults /\ globalScope.listening
      /\ moduleExports = "initial" /\ sharedCache = "empty" /\ mutex = << >> /\ ended = "returned"
      /\ globalScope = [results |-> setupResults, by |-> None, listening |-> TRUE]
      /\ setupResults = [i \in 1 .. 3 |-> [instance |-> i, file |-> None]]
      /\ overlapped = FALSE /\ orderly = TRUE
  BY <1>p DEF Init
<1>c. /\ DOMAIN created = 1 .. 3 /\ created \in [1 .. 3 -> InstanceState]
      /\ \A i \in 1 .. 3 : created[i].plugin = i /\ created[i].options = options[i]
      /\ created[1].context = 0 /\ created[2].context = 0 /\ created[3].context = 1
      /\ created[3].constructors = "initial"
  <2>1. ASSUME NEW i \in 1 .. 3
        PROVE  /\ NewInstance(i, options[i]) \in InstanceState
               /\ NewInstance(i, options[i]).plugin = i /\ NewInstance(i, options[i]).options = options[i]
               /\ NewInstance(i, options[i]).context = 0
    BY <1>p, <1>o, <1>i DEF NewInstance, InstanceState, AllOptions, Exports
  <2> DEFINE third == [NewInstance(3, options[3]) EXCEPT !.context = 1, !.constructors = "initial"]
  <2>2. /\ third \in InstanceState /\ third.plugin = 3 /\ third.options = options[3]
        /\ third.context = 1 /\ third.constructors = "initial"
    <3>1. ASSUME NEW x \in InstanceState, NEW y, y = [x EXCEPT !.context = 1, !.constructors = "initial"]
          PROVE  /\ y \in InstanceState /\ y.plugin = x.plugin /\ y.options = x.options
                 /\ y.context = 1 /\ y.constructors = "initial"
      <4>1. 1 \in 0 .. promises /\ "initial" \in Exports
        BY <1>i DEF Exports
      <4> QED
        BY <3>1, <4>1 DEF InstanceState
    <3>2. NewInstance(3, options[3]) \in InstanceState /\ NewInstance(3, options[3]).plugin = 3
          /\ NewInstance(3, options[3]).options = options[3]
      BY <2>1
    <3> QED
      BY <3>1, <3>2
  <2>3. created = [i \in 1 .. 3 |-> IF i # 3 THEN NewInstance(i, options[i])
                                    ELSE [NewInstance(i, options[i]) EXCEPT !.context = 1, !.constructors = "initial"]]
    BY <1>p DEF Init
  <2>4. created[3] = third /\ created[1] = NewInstance(1, options[1]) /\ created[2] = NewInstance(2, options[2])
    BY <2>3
  <2>5. \A i \in 1 .. 3 : i = 1 \/ i = 2 \/ i = 3
    OBVIOUS
  <2>6. created = [i \in 1 .. 3 |-> created[i]]
    BY <2>3
  <2> HIDE DEF third
  <2>7. \A i \in 1 .. 3 : created[i] \in InstanceState
    BY <2>1, <2>2, <2>4, <2>5
  <2>8. created \in [1 .. 3 -> InstanceState]
    BY <2>6, <2>7
  <2>9. DOMAIN created = 1 .. 3
    BY <2>6
  <2> QED
    BY <2>1, <2>2, <2>4, <2>5, <2>8, <2>9
<1>n. \A o \in Ops : ops[o] = NotBegun /\ ops[o].at = "idle"
  BY DEF Init, NotBegun
<1>r. requests = [r \in Requests |-> NotSent] /\ \A r \in Requests : requests[r].at = "outside"
  BY DEF Init, NotSent
<1>1. OpTypes
  <2>1. NotBegun \in OpState
    BY DEF NotBegun, OpState, Places, Exports
  <2>2. ops = [o \in Ops |-> NotBegun]
    BY DEF Init
  <2>3. ops \in [Ops -> OpState]
    BY <2>1, <2>2
  <2>4. overlapped \in BOOLEAN /\ orderly \in BOOLEAN
    BY <1>i
  <2>5. mutex \in Seq(Ops) /\ file \in Files /\ moduleExports \in Exports
    BY <1>i DEF Files, Exports
  <2>6. ended \in {"returned", "threw", "failed"} /\ previousOptions \in AllOptions
    BY <1>o, <1>i
  <2> QED
    BY <1>o, <2>3, <2>4, <2>5, <2>6, Zenon DEF OpTypes
<1>2. PluginTypes
  <2>1. created \in Seq(InstanceState)
    BY <1>c, 3 \in Nat, SeqDef
  <2>2. setupResults \in Results
    BY <1>p, <1>c, <1>i DEF Results, Files
  <2> QED
    BY <1>p, <1>c, <1>i, <2>1, <2>2 DEF PluginTypes, Files
<1>3. RequestTypes
  <2>1. NotSent \in RequestState
    BY <1>i DEF NotSent, RequestState, Exports
  <2> QED
    BY <1>i, <1>r, <2>1 DEF RequestTypes
<1>4. Alone /\ Line /\ PreviousSeen
  BY <1>i, <1>n DEF Alone, Line, PreviousSeen, Configuring, InInit, Under, AtWork, At
<1>5. OpsMatch
  BY <1>n DEF OpsMatch, OpMatches, InInit
<1>6. InstancesPlaced
  BY <1>p, <1>c, <1>i DEF InstancesPlaced
<1>7. Configured
  <2>1. \A o \in Ops : ~ Configuring(o)
    BY <1>n DEF Configuring, InInit
  <2> QED
    BY <1>p, <1>c, <1>i, <2>1 DEF Configured, InstanceOptions, OptionsRead
<1>8. Scoped
  BY <1>p, <1>c, <1>i, <1>n DEF Scoped, ScopeMatches, At
<1>9. PromisesApart
  <2>1. \A m, n \in DOMAIN created : m # n => Context(m) # Context(n) \/ Context(m) = 0
    <3>1. \A i \in DOMAIN created : Context(i) = IF i = 3 THEN 1 ELSE 0
      <4>1. \A i \in 1 .. 3 : i = 1 \/ i = 2 \/ i = 3
        OBVIOUS
      <4> QED
        BY <1>c, <4>1 DEF Context
    <3> QED
      BY <3>1
  <2> QED
    BY <1>r, <2>1 DEF PromisesApart
<1>10. ContextsThere
  BY <1>p, <1>c, <1>i, <1>n, <1>r DEF ContextsThere, Context, Reloading, Replacing, At
<1>11. ContextsCurrent
  <2>1. ASSUME NEW m \in DOMAIN created, Context(m) \in resolved
        PROVE  m = 3
    <3>1. m = 1 \/ m = 2 \/ m = 3
      BY <1>c
    <3> QED
      BY <1>c, <1>i, <2>1, <3>1 DEF Context
  <2> QED
    BY <1>p, <1>c, <1>i, <1>n, <1>r, <2>1 DEF ContextsCurrent, Reloading, At
<1>12. Attended
  BY <1>p, <1>c, <1>i, <1>r DEF Attended, Context
<1>13. InOrder /\ Promised
  BY <1>4, <1>7, <1>8, <1>9, <1>10, <1>11, <1>12 DEF InOrder, Promised
<1> QED
  BY <1>i, <1>1, <1>2, <1>3, <1>4, <1>5, <1>6, <1>13, TypesSplit DEF IInv

\* What holds of ops that are in order goes on to hold, and comes back.
LEMMA OrderKept ==
  ASSUME IInv, Next, orderly'
  PROVE  InOrder'
<1>t. OpTypes /\ PluginTypes /\ RequestTypes /\ Line /\ OpsMatch
  BY TypesSplit DEF IInv
<1>1. CASE orderly
  <2>1. Alone /\ PreviousSeen /\ Configured /\ Scoped
    BY <1>1 DEF IInv, InOrder
  <2>2. Alone'
    BY <1>t, <2>1, TurnsKept
  <2>3. PreviousSeen' /\ Configured' /\ Scoped'
    BY <1>t, <2>1, SeenKept, ConfiguredKept, ScopedKept
  <2> QED
    BY <2>2, <2>3 DEF InOrder
<1>2. CASE ~ orderly
  <2>1. PICK o \in Ops : Arrives(o, "reload", "readConfig") /\ \A p \in Ops : ~ Under(p)
    BY <1>t, <1>2, OverlapsMove
  <2> QED
    BY <1>t, <2>1, ReloadRestores
<1> QED
  BY <1>1, <1>2

\* Every step keeps the invariant.
LEMMA StepInvariant ==
  ASSUME IInv, [Next]_vars
  PROVE  IInv'
<1>t. OpTypes /\ PluginTypes /\ RequestTypes /\ Line /\ OpsMatch /\ InstancesPlaced
  BY TypesSplit DEF IInv
<1>1. CASE Next
  <2>1. OpTypes' /\ PluginTypes' /\ RequestTypes'
    BY <1>t, <1>1, OpTypesKept, PluginTypesKept, RequestTypesKept
  <2>2. TypeOK'
    BY <2>1 DEF TypeOK, OpTypes, PluginTypes, RequestTypes, OpState, Places, InstanceState, RequestState
  <2>3. Line' /\ OpsMatch' /\ InstancesPlaced'
    BY <1>t, <1>1, TurnsKept, MatchesKept, PlacedKept
  <2>4. orderly' => InOrder'
    BY <1>1, OrderKept
  <2>5. ASSUME ~ overlapped'
        PROVE  orderly' /\ Promised'
    <3>1. ~ overlapped
      BY <1>t, <1>1, <2>5, OverlapsMove
    <3>2. orderly /\ InOrder /\ Promised
      BY <3>1 DEF IInv
    <3>3. orderly'
      BY <1>t, <1>1, <2>5, <3>2, OverlapsMove
    <3>4. Alone /\ Scoped /\ PromisesApart /\ ContextsThere /\ ContextsCurrent /\ Attended
      BY <3>2 DEF InOrder, Promised
    <3>5. PromisesApart' /\ ContextsThere' /\ ContextsCurrent' /\ Attended'
      BY <1>t, <1>1, <3>4, ApartKept, ThereKept, CurrentKept, AttendedKept
    <3> QED
      BY <3>3, <3>5 DEF Promised
  <2> QED
    BY <2>2, <2>3, <2>4, <2>5 DEF IInv
<1>2. CASE UNCHANGED vars
  <2>1. UNCHANGED <<options, previousOptions, file, created, instances, setupResults, globalScope, moduleExports,
                    sharedCache, promises, resolved, mutex, ops, requests, ended, overlapped, orderly>>
    BY <1>2 DEF vars, config, plugins, script, objects, overlaps
  <2>2. TypeOK'
    BY <2>1 DEF IInv, TypeOK, Results
  <2>3. Line' /\ OpsMatch' /\ InstancesPlaced'
    BY <1>t, <2>1 DEF Line, OpsMatch, OpMatches, Changed, InstancesPlaced, Under, Watching, AtWork, At
  <2>4. ASSUME InOrder
        PROVE  InOrder'
    <3>1. Alone' /\ PreviousSeen'
      BY <2>1, <2>4 DEF InOrder, Alone, PreviousSeen, Configuring, Under, Watching, At
    <3>2. Configured'
      BY <2>1, <2>4 DEF InOrder, Configured, InstanceOptions, OptionsRead, WillBeRead, Configuring, Failed, At
    <3>3. Scoped'
      BY <2>1, <2>4 DEF InOrder, Scoped, ScopeMatches, Idle, Under, At
    <3> QED
      BY <3>1, <3>2, <3>3 DEF InOrder
  <2>5. ASSUME Promised
        PROVE  Promised'
    BY <2>1, <2>5 DEF Promised, PromisesApart, ContextsThere, ContextsCurrent, Attended, Context, Reloading,
                      Replacing, At, Fine, Unreached
  <2> QED
    BY <2>1, <2>2, <2>3, <2>4, <2>5 DEF IInv
<1> QED
  BY <1>1, <1>2

\* The invariant holds for any ops, requests and settings, whatever fails and
\* whatever ops overlap.
THEOREM InductiveInvariant == Spec => []IInv
<1>1. Init => IInv
  BY InitInvariant
<1>2. IInv /\ [Next]_vars => IInv'
  BY StepInvariant
<1> QED
  BY <1>1, <1>2, PTL DEF Spec

\* The core's state has its types, whatever ops overlap: instances, setup
\* results and what requests are bound to are always of plugins there have
\* been, and a request that got past the assertion of getObject waits for a
\* promise.
THEOREM TypeCorrect == Spec => []TypeOK
<1>1. IInv => TypeOK
  BY DEF IInv
<1> QED
  BY <1>1, InductiveInvariant, PTL

\* Once all calls and events have been dealt with, without a hook failing, and
\* the last of them succeeded, the plugins are those of the options, set up as
\* they are now, and the worker runs the last version of the script: if none
\* overlapped but callbacks of the watcher, and if others did, once reload()
\* has been called alone.
THEOREM LastConfigurationInForce == Spec => []ConfigurationInForce
<1>1. ASSUME IInv, Idle, orderly, ended = "returned", \A o \in Ops : ~ At(o, "failed")
      PROVE  /\ \A i \in DOMAIN Plugins : /\ created[instances[i]].plugin = i
                                         /\ created[instances[i]].options = options[i]
                                         /\ setupResults[i].instance = instances[i]
             /\ setupResults[Core].file = file
             /\ globalScope.results = setupResults /\ globalScope.listening
             /\ created[instances[DO]].constructors = moduleExports
  <2>1. \A o \in Ops : ops[o].at \in {"idle", "returned", "threw", "failed"}
    BY <1>1 DEF Idle, Under
  <2>2. /\ \A o \in Ops : /\ ~ Configuring(o) /\ ~ WillReadScript(ops[o])
                          /\ \A i : ~ WillSetUp(ops[o], i) /\ ~ Pending(ops[o], i)
        /\ ~ WillBeRead
    BY <2>1 DEF Configuring, InInit, WillReadScript, WillSetUp, WillBeRead, Pending
  <2>3. /\ \A i \in DOMAIN Plugins : InstanceOptions(i)
        /\ OptionsRead
        /\ \A i \in DOMAIN Plugins :
             setupResults[i].instance = instances[i] \/ \E o \in Ops : WillSetUp(ops[o], i)
        /\ setupResults[Core].file = file \/ \E o \in Ops : WillReadScript(ops[o])
    BY <1>1 DEF IInv, InOrder, Configured, Failed
  <2>4. \A i \in DOMAIN Plugins : created[instances[i]].options = options[i]
    BY <2>2, <2>3 DEF InstanceOptions, OptionsRead
  <2> QED
    BY <1>1, <2>2, <2>3, <2>4 DEF IInv, InOrder, InstancesPlaced, Scoped
<1>2. IInv => ConfigurationInForce
  BY <1>1 DEF ConfigurationInForce
<1> QED
  BY <1>2, InductiveInvariant, PTL

\* As long as no ops have overlapped but callbacks of the watcher, the object
\* that requests share is of the class that is exported now, whatever failed.
THEOREM ObjectsUpToDate == Spec => []UpToDate
<1>1. IInv => UpToDate
  BY DEF IInv, Promised, ContextsCurrent, UpToDate, OfLastClass
<1> QED
  BY <1>1, InductiveInvariant, PTL

\* As long as no ops have overlapped but callbacks of the watcher, no request
\* waits for a context that no reload will resolve, if no reload fails and its
\* plugin is not replaced, and beforeReload() always comes before getObject().
THEOREM NobodyIsStranded == Spec => []NobodyStranded
<1>1. ASSUME IInv, ~ overlapped, NEW r \in Requests
      PROVE  requests[r].at # "asserted"
  BY <1>1 DEF IInv, Promised, ContextsThere
<1>2. ASSUME IInv, ~ overlapped, Idle, \A o \in Ops : ops[o].at \notin {"threw", "failed"},
             NEW r \in Requests, requests[r].at = "waiting", requests[r].instance = instances[DO]
      PROVE  requests[r].awaits \in resolved
  <2>1. \A o \in Ops : ~ Reloading(o) /\ ~ Replacing(o)
    BY <1>2 DEF Idle, Under, Reloading, Replacing, At
  <2>2. Attended
    BY <1>2 DEF IInv, Promised
  <2>3. Context(instances[DO]) \in resolved
    BY <1>2, <2>1, <2>2 DEF Attended, Fine, Unreached
  <2> QED
    BY <1>2, <2>1, <2>2, <2>3 DEF Attended, Fine
<1>3. IInv => NobodyStranded
  BY <1>1, <1>2 DEF NobodyStranded
<1> QED
  BY <1>3, InductiveInvariant, PTL

=============================================================================
