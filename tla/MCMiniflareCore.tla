--------------------------- MODULE MCMiniflareCore ---------------------------
(***************************************************************************)
(* Three calls or events in any order, one after the other or overlapping  *)
(* (an edit, its undoing and one that waits for its turn; a mount's reload *)
(* during setOptions(), and reload() after both), and a request that may   *)
(* come at any moment.  Which op and which request is which makes no       *)
(* difference.                                                             *)
(***************************************************************************)
EXTENDS MiniflareCore, FiniteSets

\* BuildPlugin changes alone, CorePlugin and DurableObjectsPlugin together.
MCOffered == {o \in AllOptions : o[Core] = o[DO]}

\* States on the way to one that the invariants say something of.  Once ops
\* have overlapped they will for ever have: UpToDate and NobodyStranded then
\* say nothing any more, and ConfigurationInForce only if no op has failed and
\* a reload() begins by itself, which takes an op that has not begun yet.
\* Nothing that ops do depends on requests.
Telling ==
  overlapped =>
    /\ \A r \in Requests : requests[r].at = "outside"
    /\ \A o \in Ops : ~At(o, "failed")
    /\ orderly \/ \E o \in Ops : At(o, "idle")

Symmetry == Permutations(Ops) \union Permutations(Settings)
-----------------------------------------------------------------------------
(***************************************************************************)
(* Mounts: a parent with or without a name of its own, a mount "a" given   *)
(* as options and a mount "b" given as a path.                             *)
(***************************************************************************)
Route(host) ==
  <<[target |-> "", protocol |-> None, hostname |-> <<host>>, path |-> <<"/", "*">>, query |-> FALSE]>>
Url(host) == [protocol |-> "http", hostname |-> <<host>>, path |-> <<"/">>]

M == INSTANCE CoreMounts WITH
  Keys <- {"name", "routes", "script", "watch", "mounts", "rootPath", "wranglerConfigPath", "kvPersist"},
  Files <- [q |-> [routes |-> Route("hostB"), name |-> "b"]]

Maybe(key, values) == {M!NoMounts} \union {key :> v : v \in values}
Together(S, T) == {f @@ g : f \in S, g \in T}
Persists == {M!Persist("relative", "data", None), M!Persist("true", None, None)}

EntriesA ==
  {[name |-> "a", raw |-> [options |-> ("rootPath" :> "p") @@ ("routes" :> Route("hostA")) @@ o]] :
     o \in Together(Maybe("name", {"a", "other"}), Maybe("script", {"throws"})) \union Maybe("mounts", {<< >>})}
EntryB == [name |-> "b", raw |-> [path |-> "q"]]
Mounts == {<< >>, <<EntryB>>} \union {<<e>> : e \in EntriesA} \union {<<e, EntryB>> : e \in EntriesA}
Parents ==
  {("rootPath" :> "p") @@ ("routes" :> Route("hostP")) @@ o :
     o \in Together(Together(Maybe("name", {"parent"}), Maybe("kvPersist", Persists)), {"mounts" :> m : m \in Mounts})}
Fresh(o) == M!InitMounts(M!Started(o))

\* Options that withdraw none of those set before: an option a mount was given
\* once stays when it is not given any more (core/src/index.ts:1015).
Withdrawn(first, second, n) ==
  LET Given(o) == UNION {IF e.name = n /\ "options" \in DOMAIN e.raw THEN DOMAIN e.raw.options ELSE {} : e \in ToSet(o["mounts"])}
  IN  Given(first) \ Given(second)

\* "We want mounted workers to share the same underlying storage": mounts
\* open the store of their parent, also when it changes its mind, unless it
\* withdraws its choice.
ASSUME MountsShareStorage ==
  \A first \in Parents : \A second \in Parents :
    LET worker == M!Update(Fresh(first), second)
    IN  worker.error = None =>
          \A n \in DOMAIN worker.mounts :
            M!Opens(worker.mounts[n], "kv", "kvPersist", "NS") = M!Opens(worker.set, "kv", "kvPersist", "NS")

\* Options that fail (a script that throws, a name that differs, mounts in a
\* mount) leave nothing behind once they are replaced: the mounts and the
\* routes are those of a worker that starts with the new options.
ASSUME UpdatesConverge ==
  \A first \in Parents : \A second \in Parents :
    LET worker == M!Update(Fresh(first), second)
        fresh == Fresh(second @@ first)
    IN  fresh.error = None /\ (\A n \in DOMAIN fresh.mounts : Withdrawn(first, second, n) = {}) =>
          /\ worker.error = None
          /\ worker.mounts = fresh.mounts
          /\ \A h \in {"hostP", "hostA", "hostB"} : M!MatchMount(worker, Url(h)) = M!MatchMount(fresh, Url(h))

\* A request goes to the mount whose route it matches, and to the worker itself
\* if that is its own; a worker without a name has no routes, as far as its
\* mounts are concerned.
ASSUME RequestsReachMounts ==
  \A o \in Parents :
    LET worker == Fresh(o)
        Reached(host) == M!MatchMount(worker, Url(host))
    IN  worker.error = None =>
          /\ Reached("hostP") = None
          /\ Reached("hostA") = (IF "a" \in DOMAIN worker.mounts THEN "a" ELSE None)
          /\ Reached("hostB") = (IF "b" \in DOMAIN worker.mounts THEN "b" ELSE None)

-----------------------------------------------------------------------------
(***************************************************************************)
(* The watcher of a path and the CRON scheduler, after every history of    *)
(* five steps.                                                             *)
(***************************************************************************)
PW == INSTANCE PathWatcher

Histories(begun, Steps(_)) ==
  LET after[n \in 0 .. 5] == IF n = 0 THEN begun ELSE UNION {Steps(s) : s \in after[n - 1]} IN after[5]

Lookups(s) == {PW!Deliver(s), PW!Poll(s), PW!Debounced(s)}
Settled(s) ==
  PW!Debounced(FoldLeft(LAMBDA t, i : IF t.events # << >> THEN PW!Deliver(t) ELSE PW!Poll(t), s, [i \in 1 .. 10 |-> i]))
Begun ==
  {[PW!start(s) EXCEPT !.seen = s.changes, !.saw = PW!Exists(s)] :
     s \in UNION {{PW!Initial(p)} \union PW!Creations(PW!Initial(p)) : p \in BOOLEAN}}

\* The user has been called since the path changed last, or knows of nothing
\* and there is nothing.
UpToDateUser(s) == s.seen = s.changes \/ (~s.saw /\ ~PW!Exists(s))

\* The path is watched as what it is, and all directories there are.
Follows(s) ==
  /\ s.mode = (IF ~PW!Exists(s) THEN "create" ELSE IF PW!Root \in DOMAIN s.ids THEN "dir" ELSE "poll")
  /\ s.mode = "dir" => IF s.platform THEN s.watchers[PW!Root] = s.ids[PW!Root] ELSE s.watchers = s.ids

\* Nothing changes unnoticed: whatever the path becomes, once all events have
\* been dealt with the user has been called and the path is still followed,
\* if nothing is created anew before its removal has been noticed.
ASSUME ChangesAreSeen ==
  LET Calm(s) == PW!Others(s) \union Lookups(s) \union (IF s = Settled(s) THEN PW!Creations(s) ELSE {})
  IN  \A s \in Histories(Begun, Calm) : UpToDateUser(Settled(s)) /\ Follows(Settled(s))

\* Without that, the user misses a change only when the watches are stale or,
\* between two polls for a creation, something came and went.
ASSUME ChangesAreSeenOrStale ==
  LET Hasty(s) == PW!Others(s) \union Lookups(s) \union PW!Creations(s)
  IN  \A s \in Histories(Begun, Hasty) :
        LET t == Settled(s) IN UpToDateUser(t) \/ ~Follows(t) \/ t.mode = "create"

CS == INSTANCE CronScheduler

\* The core's steps: new crons are set up and, unless one is invalid, the
\* worker is reloaded; or it is reloaded with what it has.
CronSteps(s) ==
  {LET t == CS!Setup(s, crons, {"daily", "hourly"}) IN IF t.failed THEN t ELSE CS!ReloadEvent(t) :
     crons \in {<< >>, <<"daily">>, <<"daily", "hourly">>, <<"hourly", "invalid">>}}
  \union {CS!ReloadEvent(s), CS!GoOn(s)}
  \union (IF s.listening THEN {CS!Dispose(s)}
          ELSE IF s.previousValidatedCrons = None THEN {CS!StartScheduler(s)} ELSE {})

\* Timers run for the expressions of the last reload, each once, and none is
\* left after dispose(), however calls overlap.
ASSUME TimersFollowReloads ==
  \A s \in Histories({CS!Initial}, CronSteps) :
    LET t == CS!GoOn(CS!GoOn(CS!GoOn(CS!GoOn(CS!GoOn(s)))))
        crons == IF t.listening THEN t.previousValidatedCrons.crons ELSE << >>
    IN  /\ {h.cron : h \in t.timers} = ToSet(crons)
        /\ Cardinality(t.timers) = Len(crons)
        /\ t.listening /\ ~t.failed => t.previousValidatedCrons = t.validatedCrons
-----------------------------------------------------------------------------
(***************************************************************************)
(* Plugins: a few options, each set or not, and files with two contents.   *)
(***************************************************************************)
P == INSTANCE Plugins

Features ==
  {[enableFlag |-> "old_on", disableFlag |-> "old_off", defaultAsOf |-> 1],
   [enableFlag |-> "new_on", disableFlag |-> None, defaultAsOf |-> 2],
   [enableFlag |-> "flag", disableFlag |-> None, defaultAsOf |-> None]}
FlagSequences == SeqOf({"old_on", "old_off", "new_on", "flag"}, 2)

\* An update that says nothing has changed is right: what is enabled is always
\* what the date and the flags in force enable.
ASSUME UpdatedFlagsAreInForce ==
  \A d \in 0 .. 2, e \in 0 .. 2 : \A f \in FlagSequences, g \in FlagSequences :
    LET c == P!Compatibility(Features, d, f)
        u == P!UpdateCompatibility(Features, c, e, g)
    IN  /\ u.compat.enabled = P!Enabled(Features, e, g)
        /\ u.compat.enabled # c.enabled => u.changed

Given(keys) == UNION {[S -> {"one", "two"}] : S \in SUBSET keys}
FileSets ==
  UNION {[S -> {"code", "other"}] : S \in SUBSET {"one", "two"}}
PackageSets == {M!NoMounts} \union {p :> (m :> f) : p \in {"package.json", "pkg"}, m \in {"main", "module"}, f \in {"two"}}
SameOn(paths, f, g) ==
  \A p \in paths : /\ p \in DOMAIN f <=> p \in DOMAIN g
                   /\ p \in DOMAIN f => f[p] = g[p]

\* Whatever file makes setup() return another script is among those it asks
\* to watch, unless it has failed.
ASSUME ScriptIsWatched ==
  LET files == {f @@ p : f \in FileSets, p \in PackageSets}
      opts == {o @@ p : o \in Given({"scriptPath"}), p \in Maybe("packagePath", {"default", "pkg"})}
  IN  \A o \in opts : \A f \in files : \A g \in files :
        LET result == P!CoreSetup(o, f)
        IN  "error" \notin DOMAIN result /\ SameOn(result.watch, f, g) => P!CoreSetup(o, g) = result

\* Bindings too; and the later kind wins, the user's own above all.
ASSUME BindingsAreWatched ==
  LET kinds == {"textBlobBindings", "dataBlobBindings"}
      files == {f @@ e : f \in FileSets, e \in {M!NoMounts, ".env" :> ("A" :> "env"), ".env" :> ("B" :> "env")}}
      opts == {o @@ e @@ b : o \in UNION {[S -> {[A |-> "one"], [B |-> "two"]}] : S \in SUBSET kinds},
                                e \in Maybe("envPath", {"default"}), b \in Maybe("bindings", {[A |-> "user"]})}
  IN  \A o \in opts : \A f \in files :
        LET result == P!BindingsSetup(o, f)
        IN  "error" \notin DOMAIN result =>
              /\ \A g \in files : SameOn(result.watch, f, g) => P!BindingsSetup(o, g) = result
              /\ "bindings" \in DOMAIN o => result.bindings["A"] = "user"
              /\ \A k \in kinds \intersect DOMAIN o : DOMAIN o[k] \subseteq DOMAIN result.bindings

\* A service binding's fetch gets a mounted worker, and sooner or later all
\* do, if every beforeReload() is followed by a reload(): that is not so for
\* a worker that is mounted, whose beforeReload() is called twice.
ASSUME ServicesAreReached ==
  LET Steps(s) ==
        (IF s.mounts = None /\ s.promise > 0 THEN {P!GotServiceFetch(P!ReloadServices(s, {"a"}, m)) : m \in {{"a"}, {"a", "b"}}}
         ELSE {P!BeforeReload(s)})
        \union (IF s.promise > 0 /\ Len(s.fetches) < 3 THEN {P!GotServiceFetch(P!GetServiceFetch(s, "a"))} ELSE {})
  IN  \A s \in Histories({P!NoServices}, Steps) :
        \A i \in DOMAIN s.fetches : IF s.mounts = None THEN s.fetches[i].got # FALSE ELSE s.fetches[i].got = TRUE
=============================================================================
