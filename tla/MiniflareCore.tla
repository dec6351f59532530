---------------------------- MODULE MiniflareCore ----------------------------
(***************************************************************************)
(* packages/core/src/index.ts: a worker after its first initialisation.    *)
(* Its options change, its files are edited, it is reloaded, and a mount   *)
(* of it reloads, while requests use Durable Objects                       *)
(* (packages/durable-objects/src/plugin.ts).                               *)
(*                                                                         *)
(* Three plugins stand for all: CorePlugin, whose setup reads the script,  *)
(* BuildPlugin, whose beforeSetup writes it, and DurableObjectsPlugin,     *)
(* which alone has the hooks beforeReload and reload here.  A step is one  *)
(* hook, or what runs between two awaits of the core.                      *)
(***************************************************************************)
EXTENDS Naturals, SequencesExt

CONSTANTS
  Ops,            \* calls and events that change the worker; each comes once
  Requests,       \* requests; each uses the one Durable Object once
  Settings,       \* the options of a plugin
  Offered,        \* the options of all plugins that the user may choose
  MayFail,        \* what may throw: "hook", "script"
  None

Plugins == <<"CorePlugin", "BuildPlugin", "DurableObjectsPlugin">>
Core == 1
Build == 2
DO == 3

VARIABLES
  options,          \* #overrides merged with the wrangler config file
  previousOptions,  \* #previousOptions
  file,             \* the script's version: who built or edited it last
  created,          \* all plugin instances so far: plugin, options, and of
                    \*   DurableObjectsPlugin #contextPromise (0: undefined)
                    \*   and #constructors, which are those of a script run
  instances,        \* #instances, by the place of the plugin
  setupResults,     \* #setupResults: the instance and the script it read
  globalScope,      \* #globalScope: the results it is built from, by which op,
                    \*   and whether the script has added its listeners
  moduleExports,    \* #moduleExports: those of the script run by an op, or None
  sharedCache,      \* the object in #sharedCache: whose class it is, or None
  promises,         \* how many context promises there are
  resolved,         \* those that are resolved
  mutex,            \* #watcherCallbackMutex: its holder and those that wait
  ops,              \* kind, place in the code, place in a loop over plugins,
                    \*   options and previous of #init, ranBeforeSetup, and
                    \*   exports of #runAllReloads
  requests,         \* place, the plugin instance its binding leads to, the
                    \*   promise it awaits, the object it got
  ended,            \* history: how the last op that ended did
  overlapped,       \* history: whether ops that the mutex does not order were
                    \*   ever under way at once
  orderly           \* history: whether none were since the worker started, or
                    \*   since the last reload() that began alone

config == <<options, previousOptions, file>>
plugins == <<created, instances, setupResults>>
script == <<globalScope, moduleExports>>
objects == <<sharedCache, promises, resolved>>
overlaps == <<overlapped, orderly>>
vars == <<config, plugins, script, objects, mutex, ops, requests, ended, overlaps>>

AllOptions == [DOMAIN Plugins -> Settings]
ASSUME OfferedAreOptions == Offered \subseteq AllOptions

NewInstance(i, o) == [plugin |-> i, options |-> o, context |-> 0, constructors |-> None]

NotBegun ==
  [kind |-> None, at |-> "idle", i |-> 0, options |-> None, previous |-> None,
   all |-> FALSE, ran |-> FALSE, exports |-> None]

NotSent == [at |-> "outside", instance |-> 0, awaits |-> 0, object |-> "empty"]

Init ==
  /\ options \in {[i \in DOMAIN Plugins |-> s] : s \in Settings}
  /\ previousOptions = options
  /\ file = None
  /\ created = [i \in DOMAIN Plugins |->
                  IF i # DO THEN NewInstance(i, options[i])
                  ELSE [NewInstance(i, options[i]) EXCEPT !.context = 1, !.constructors = "initial"]]
  /\ instances = [i \in DOMAIN Plugins |-> i]
  /\ setupResults = [i \in DOMAIN Plugins |-> [instance |-> i, file |-> None]]
  /\ globalScope = [results |-> setupResults, by |-> None, listening |-> TRUE]
  /\ moduleExports = "initial"
  /\ sharedCache = "empty"
  /\ promises = 1
  /\ resolved = {1}
  /\ mutex = << >>
  /\ ops = [o \in Ops |-> NotBegun]
  /\ requests = [r \in Requests |-> NotSent]
  /\ ended = "returned"
  /\ overlapped = FALSE /\ orderly = TRUE

At(o, place) == ops[o].at = place
Under(o) == ops[o].at \notin {"idle", "returned", "threw", "failed"}
Watch == {"configChanged", "sourceChanged", "scriptChanged"}

\* What an await of a resolved promise continues with runs before any hook.
Microtasks == \A r \in Requests : requests[r].at = "waiting" => requests[r].awaits \notin resolved

-----------------------------------------------------------------------------
(***************************************************************************)
(* Calls and events.  Callbacks of the watcher take turns; nothing keeps   *)
(* setOptions(), reload() and the reload of a mount from coming in         *)
(* between, nor an edit while one of these goes on.                        *)
(***************************************************************************)
Overlaps(kind) == \E p \in Ops : Under(p) /\ ~(kind \in Watch /\ ops[p].kind \in Watch)

Begin(o, kind, place) ==
  /\ At(o, "idle") /\ Microtasks
  /\ overlapped' = (overlapped \/ Overlaps(kind))
  /\ orderly' = (~Overlaps(kind) /\ (orderly \/ kind = "reload"))
  /\ ops' = [ops EXCEPT ![o].kind = kind, ![o].at = place, ![o].all = (kind = "reload"),
                        ![o].previous = IF place = "readConfig" THEN previousOptions ELSE None]

setOptions(o, new) ==
  /\ Begin(o, "setOptions", "readConfig")
  /\ options' = new
  /\ UNCHANGED <<previousOptions, file, plugins, script, objects, mutex, requests, ended>>

reload(o) ==
  /\ Begin(o, "reload", "readConfig")
  /\ UNCHANGED <<config, plugins, script, objects, mutex, requests, ended>>

\* A mount dispatches "reload": the parent updates its router and reloads.
mountReloaded(o) ==
  /\ Begin(o, "mountReloaded", "beforeReload")
  /\ UNCHANGED <<config, plugins, script, objects, mutex, requests, ended>>

\* The user edits the config, the script's source or the script.
watcherCallback(o, kind, new) ==
  /\ Begin(o, kind, "lock")
  /\ options' = IF kind = "configChanged" THEN new ELSE options
  /\ file' = IF kind = "scriptChanged" THEN o ELSE file
  /\ mutex' = Append(mutex, o)
  /\ UNCHANGED <<previousOptions, plugins, script, objects, requests, ended>>

\* The first in line starts: a changed config is read again, a changed source
\* is built, a changed script is read.
Locked(o) ==
  /\ At(o, "lock") /\ Head(mutex) = o /\ Microtasks
  /\ ops' = [ops EXCEPT
               ![o].previous = IF ops[o].kind = "configChanged" THEN previousOptions ELSE None,
               ![o].at = CASE ops[o].kind = "configChanged" -> "readConfig"
                           [] ops[o].kind = "sourceChanged" -> "build"
                           [] ops[o].kind = "scriptChanged" -> "setup",
               ![o].i = IF ops[o].kind = "scriptChanged" THEN Core ELSE 0]
  /\ UNCHANGED <<config, plugins, script, objects, mutex, requests, ended, overlaps>>

\* The op returns or throws, and the next in line may start.
End(o, how) ==
  /\ ops' = [ops EXCEPT ![o] = [NotBegun EXCEPT !.at = how]]
  /\ ended' = how
  /\ mutex' = IF ops[o].kind \in Watch THEN Tail(mutex) ELSE mutex

-----------------------------------------------------------------------------
(***************************************************************************)
(* #init                                                                   *)
(***************************************************************************)
Changed(op, i) == op.all \/ op.previous[i] # op.options[i]

\* Mutant of NeedsSetup: the script is not read again when it has been built.
NeedsSetupChanged(op, i) == op.kind \notin {"sourceChanged", "scriptChanged"} /\ Changed(op, i)

\* Plugins that are new, and the one with the script if something was built.
NeedsSetup(op, i) ==
  \/ op.kind \notin {"sourceChanged", "scriptChanged"} /\ Changed(op, i)
  \/ op.ran /\ i = Core

\* The first plugin after place i that is in S, or the end of the loop.
GoOn(op, i, S, next) ==
  LET later == {j \in S : j > i}
  IN  IF later # {} THEN [op EXCEPT !.i = Min(later)]
      ELSE [op EXCEPT !.i = 0, !.at = next]

\* The loop over the plugins to be created again, then that over the plugins
\* to be set up.
ToCreate(op, i) ==
  LET op2 == GoOn([op EXCEPT !.at = "dispose"], i, {j \in DOMAIN Plugins : Changed(op, j)}, "setup")
  IN  IF op2.at = "dispose" THEN op2
      ELSE GoOn(op2, 0, {j \in DOMAIN Plugins : NeedsSetup(op2, j)}, "initialised")

ToSetUp(op, i) == GoOn(op, i, {j \in DOMAIN Plugins : NeedsSetup(op, j)}, "initialised")

readConfig(o) ==
  /\ At(o, "readConfig") /\ Microtasks
  /\ ops' = [ops EXCEPT ![o] = ToCreate([ops[o] EXCEPT !.options = options, !.ran = FALSE], 0)]
  /\ UNCHANGED <<config, plugins, script, objects, mutex, requests, ended, overlaps>>

\* DurableObjectsPlugin.beforeReload: a new context promise.
NewContext(n) ==
  /\ promises' = promises + 1
  /\ created' = [created EXCEPT ![n].context = promises + 1]

\* dispose() of the old instance.
Dispose(o) ==
  /\ At(o, "dispose") /\ Microtasks
  /\ ops' = [ops EXCEPT ![o].at = "create"]
  /\ IF ops[o].i = DO THEN NewContext(instances[DO]) ELSE UNCHANGED <<created, promises>>
  /\ UNCHANGED <<config, instances, setupResults, script, sharedCache, resolved, mutex, requests,
                 ended, overlaps>>

\* A new instance, and its beforeSetup().
Create(o) ==
  LET i == ops[o].i
  IN
  /\ At(o, "create") /\ Microtasks
  /\ created' = Append(created, NewInstance(i, ops[o].options[i]))
  /\ instances' = [instances EXCEPT ![i] = Len(created) + 1]
  /\ \/ /\ ops' = [ops EXCEPT ![o] = ToCreate([ops[o] EXCEPT !.ran = @ \/ i = Build], i)]
        /\ file' = IF i = Build THEN o ELSE file
        /\ UNCHANGED <<mutex, ended>>
     \/ "hook" \in MayFail /\ i = Build /\ End(o, "failed") /\ UNCHANGED file
  /\ UNCHANGED <<options, previousOptions, setupResults, script, objects, requests, overlaps>>

\* setup() of an instance.
SetUp(o) ==
  LET i == ops[o].i
  IN
  /\ At(o, "setup") /\ Microtasks
  /\ \/ /\ setupResults' = [setupResults EXCEPT ![i] =
                              [instance |-> instances[i], file |-> IF i = Core THEN file ELSE None]]
        /\ ops' = [ops EXCEPT ![o] = ToSetUp(@, i)]
        /\ UNCHANGED <<mutex, ended>>
     \/ "hook" \in MayFail /\ End(o, "failed") /\ UNCHANGED setupResults
  /\ UNCHANGED <<config, created, instances, script, objects, requests, overlaps>>

\* A changed source: beforeSetup() again, then setup() of what has the script.
BuildAgain(o) ==
  /\ At(o, "build") /\ Microtasks
  /\ \/ /\ file' = o
        /\ ops' = [ops EXCEPT ![o] = ToSetUp([@ EXCEPT !.ran = TRUE, !.at = "setup"], 0)]
        /\ UNCHANGED <<mutex, ended>>
     \/ "hook" \in MayFail /\ End(o, "failed") /\ UNCHANGED file
  /\ UNCHANGED <<options, previousOptions, plugins, script, objects, requests, overlaps>>

\* The options are remembered; a callback of the watcher reloads only if no
\* other waits for its turn.
Initialised(o) ==
  /\ At(o, "initialised") /\ Microtasks
  /\ previousOptions' = IF ops[o].kind \in {"sourceChanged", "scriptChanged"} THEN previousOptions
                        ELSE ops[o].options
  /\ IF ops[o].kind \in Watch /\ Len(mutex) > 1
     THEN End(o, "returned")
     ELSE /\ ops' = [ops EXCEPT ![o] = [NotBegun EXCEPT !.kind = ops[o].kind, !.at = "beforeReload"]]
          /\ UNCHANGED <<mutex, ended>>
  /\ UNCHANGED <<options, file, plugins, script, objects, requests, overlaps>>

-----------------------------------------------------------------------------
(***************************************************************************)
(* #reload                                                                 *)
(***************************************************************************)

BeforeReload(o) ==
  /\ At(o, "beforeReload") /\ Microtasks
  /\ NewContext(instances[DO])
  /\ ops' = [ops EXCEPT ![o].at = "newScope"]
  /\ UNCHANGED <<config, instances, setupResults, script, sharedCache, resolved, mutex, requests,
                 ended, overlaps>>

\* Mutant of NewScope: the shared cache is kept.
NewScopeKeepsCache(o) ==
  /\ At(o, "newScope") /\ Microtasks
  /\ globalScope' = [results |-> setupResults, by |-> o, listening |-> FALSE]
  /\ moduleExports' = None
  /\ ops' = [ops EXCEPT ![o].at = "runScript"]
  /\ UNCHANGED <<config, plugins, objects, mutex, requests, ended, overlaps>>

\* The shared cache is cleared, and a global scope made for the script.
NewScope(o) ==
  /\ At(o, "newScope") /\ Microtasks
  /\ sharedCache' = "empty"
  /\ globalScope' = [results |-> setupResults, by |-> o, listening |-> FALSE]
  /\ moduleExports' = None
  /\ ops' = [ops EXCEPT ![o].at = "runScript"]
  /\ UNCHANGED <<config, plugins, promises, resolved, mutex, requests, ended, overlaps>>

RunScript(o) ==
  /\ At(o, "runScript") /\ Microtasks
  /\ \/ /\ moduleExports' = o
        /\ globalScope' = [globalScope EXCEPT !.listening = @ \/ globalScope.by = o]
        /\ ops' = [ops EXCEPT ![o].at = "mounts"]
        /\ UNCHANGED <<mutex, ended>>
     \/ "script" \in MayFail /\ End(o, "threw") /\ UNCHANGED script
  /\ UNCHANGED <<config, plugins, objects, requests, overlaps>>

\* The mounts' exports have been collected: #runAllReloads starts.
RunAllReloads(o) ==
  /\ At(o, "mounts") /\ Microtasks
  /\ ops' = [ops EXCEPT ![o].at = "reload", ![o].exports = moduleExports]
  /\ UNCHANGED <<config, plugins, script, objects, mutex, requests, ended, overlaps>>

\* Mutant of ReloadHook: contexts are resolved for a new instance only.
ReloadHookForgets(o) ==
  LET n == instances[DO]
  IN
  /\ At(o, "reload") /\ Microtasks
  /\ created' = [created EXCEPT ![n].constructors = ops[o].exports]
  /\ End(o, "returned")
  /\ resolved' = IF created[n].constructors = None THEN resolved \union {created[n].context}
                 ELSE resolved
  /\ UNCHANGED <<config, instances, setupResults, script, sharedCache, promises, requests, overlaps>>

\* DurableObjectsPlugin.reload, which throws if the class is not exported, or
\* beforeReload() has not been called.
ReloadHook(o) ==
  LET n == instances[DO]
  IN
  /\ At(o, "reload") /\ Microtasks
  /\ created' = [created EXCEPT ![n].constructors = ops[o].exports]
  /\ IF ops[o].exports = None \/ created[n].context = 0
     THEN End(o, "threw") /\ UNCHANGED resolved
     ELSE End(o, "returned") /\ resolved' = resolved \union {created[n].context}
  /\ UNCHANGED <<config, instances, setupResults, script, sharedCache, promises, requests, overlaps>>

-----------------------------------------------------------------------------
(***************************************************************************)
(* Requests.                                                               *)
(***************************************************************************)

\* A request is dispatched to the scope there is, and keeps its bindings.
dispatchFetch(r) ==
  /\ requests[r].at = "outside"
  /\ requests' = [requests EXCEPT
                    ![r].at = IF globalScope.listening THEN "running" ELSE "threw",
                    ![r].instance = globalScope.results[DO].instance]
  /\ UNCHANGED <<config, plugins, script, objects, mutex, ops, ended, overlaps>>

\* getObject waits for constructors and bindings: it asserts that
\* "beforeReload() must be called before getObject()".
getObject(r) ==
  LET context == created[requests[r].instance].context
  IN
  /\ requests[r].at = "running"
  /\ requests' = [requests EXCEPT ![r].at = IF context = 0 THEN "asserted" ELSE "waiting",
                                  ![r].awaits = context]
  /\ UNCHANGED <<config, plugins, script, objects, mutex, ops, ended, overlaps>>

\* It returns the object that is there, or makes one.
GotContext(r) ==
  /\ requests[r].at = "waiting" /\ requests[r].awaits \in resolved
  /\ sharedCache' = IF sharedCache = "empty" THEN created[requests[r].instance].constructors
                    ELSE sharedCache
  /\ requests' = [requests EXCEPT ![r] = [NotSent EXCEPT !.at = "served", !.object = sharedCache']]
  /\ UNCHANGED <<config, plugins, script, promises, resolved, mutex, ops, ended, overlaps>>

-----------------------------------------------------------------------------
Step(o) ==
  \/ Locked(o) \/ readConfig(o) \/ Dispose(o) \/ Create(o) \/ SetUp(o) \/ BuildAgain(o)
  \/ Initialised(o) \/ BeforeReload(o) \/ NewScope(o) \/ RunScript(o) \/ RunAllReloads(o)
  \/ ReloadHook(o)

Next ==
  \/ \E o \in Ops :
       \/ reload(o) \/ mountReloaded(o)
       \/ \E new \in Offered :
            setOptions(o, new) \/ watcherCallback(o, "configChanged", new)
       \/ \E kind \in Watch \ {"configChanged"} : watcherCallback(o, kind, options)
  \/ \E o \in Ops : Step(o)
  \/ \E r \in Requests : dispatchFetch(r) \/ getObject(r) \/ GotContext(r)

Spec == Init /\ [][Next]_vars

-----------------------------------------------------------------------------
(***************************************************************************)
(* Properties.                                                             *)
(***************************************************************************)
Idle == \A o \in Ops : ~Under(o)
Exports == Ops \union {"initial", None}
Files == Ops \union {None}
Results == [DOMAIN Plugins -> [instance : DOMAIN created, file : Files]]

\* Type correctness.
TypeOK ==
  /\ options \in AllOptions /\ previousOptions \in AllOptions /\ file \in Files
  /\ created \in Seq([plugin : DOMAIN Plugins, options : Settings, context : 0..promises,
                      constructors : Exports])
  /\ instances \in [DOMAIN Plugins -> DOMAIN created]
  /\ setupResults \in Results
  /\ globalScope \in [results : Results, by : Files, listening : BOOLEAN]
  /\ moduleExports \in Exports
  /\ sharedCache \in Exports \union {"empty"}
  /\ promises \in Nat /\ resolved \subseteq 1..promises
  /\ mutex \in Seq(Ops)
  /\ ops \in [Ops -> [kind : Watch \union {"setOptions", "reload", "mountReloaded", None},
                      at : {"idle", "lock", "readConfig", "dispose", "create", "setup", "build",
                            "initialised", "beforeReload", "newScope", "runScript", "mounts",
                            "reload", "returned", "threw", "failed"},
                      i : DOMAIN Plugins \union {0}, options : AllOptions \union {None},
                      previous : AllOptions \union {None}, all : BOOLEAN, ran : BOOLEAN, exports : Exports]]
  /\ requests \in [Requests -> [at : {"outside", "running", "waiting", "served", "threw", "asserted"},
                                instance : DOMAIN created \union {0}, awaits : 0..promises,
                                object : Exports \union {"empty"}]]
  /\ \A r \in Requests : /\ requests[r].at \in {"running", "waiting"} => requests[r].instance # 0
                         /\ requests[r].at = "waiting" => requests[r].awaits # 0
  /\ ended \in {"returned", "threw", "failed"} /\ overlapped \in BOOLEAN /\ orderly \in BOOLEAN

\* "Recreating any plugins with changed options": once every call and event
\* has been dealt with and the last of them succeeded, the plugins are those
\* of the options, set up as they are now, and the worker runs the last
\* version of the script with their bindings.  That is so whatever callbacks
\* of the watcher wait for each other; where other ops were under way at once,
\* it is so again once reload() has been called by itself.
ConfigurationInForce ==
  Idle /\ orderly /\ ended = "returned" /\ (\A o \in Ops : ~At(o, "failed")) =>
    /\ \A i \in DOMAIN Plugins : /\ created[instances[i]].plugin = i
                                /\ created[instances[i]].options = options[i]
                                /\ setupResults[i].instance = instances[i]
    /\ setupResults[Core].file = file
    /\ globalScope.results = setupResults /\ globalScope.listening
    /\ created[instances[DO]].constructors = moduleExports

\* The object that requests share, once reloads have ended, is of the last
\* class.
OfLastClass == Idle /\ ended = "returned" => sharedCache \in {"empty", moduleExports}

\* That is so, whatever failed before, as long as no ops overlapped but
\* callbacks of the watcher.
UpToDate == ~overlapped => OfLastClass

\* "This ensures [...] that we're using up-to-date Durable Object classes from
\* mounts" claims it of all.
MountsUpToDate == OfLastClass

\* No request waits for a context that no reload will resolve, as long as no
\* reload fails, its plugin is not replaced and ops do not overlap; and in
\* any case, without overlaps, beforeReload() comes before getObject().
NobodyStranded ==
  ~overlapped =>
    \A r \in Requests :
      /\ requests[r].at # "asserted"
      /\ Idle /\ (\A o \in Ops : ops[o].at \notin {"threw", "failed"}) =>
           (requests[r].at = "waiting" /\ requests[r].instance = instances[DO] =>
             requests[r].awaits \in resolved)
=============================================================================
