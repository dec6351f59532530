------------------------------- MODULE Plugins -------------------------------
(***************************************************************************)
(* What plugins make of their options: the order of the plugins            *)
(* (packages/core/src/index.ts), compatibility flags                       *)
(* (packages/shared/src/compat.ts), module rules and the script of         *)
(* CorePlugin, bindings and service bindings of BindingsPlugin             *)
(* (packages/core/src/plugins).                                            *)
(*                                                                         *)
(* Options and bindings are functions from the names of those that are     *)
(* there; files are a function from paths to contents.                     *)
(***************************************************************************)
EXTENDS Naturals, SequencesExt, TLC

CONSTANT None

Option(options, key) == IF key \in DOMAIN options THEN options[key] ELSE None

-----------------------------------------------------------------------------
\* getPluginEntries: CorePlugin first, so that others can override built-ins,
\* and BindingsPlugin last, so that the user can override all.
PluginEntries(plugins) ==
  LET Are(name) == SelectSeq(plugins, LAMBDA p : p = name)
  IN  Are("CorePlugin")
      \o SelectSeq(plugins, LAMBDA p : p \notin {"CorePlugin", "BindingsPlugin"})
      \o Are("BindingsPlugin")

\* assignOptions: an instance has all options of its plugin, set or not.
AssignOptions(keys, options) == [k \in keys |-> Option(options, k)]

-----------------------------------------------------------------------------
(***************************************************************************)
(* Compatibility: a feature is enabled by its flag, or by a date unless    *)
(* its other flag disables it.  Dates are numbers.                         *)
(***************************************************************************)
Enabled(features, date, flags) ==
  {f.enableFlag : f \in {g \in features :
     /\ g.disableFlag = None \/ g.disableFlag \notin ToSet(flags)
     /\ g.enableFlag \in ToSet(flags) \/ (g.defaultAsOf # None /\ g.defaultAsOf <= date)}}

Compatibility(features, date, flags) ==
  [date |-> date, flags |-> flags, enabled |-> Enabled(features, date, flags)]

\* update(): whether something changed, and what there is now.
UpdateCompatibility(features, c, date, flags) ==
  IF c.date = date /\ c.flags = flags THEN [changed |-> FALSE, compat |-> c]
  ELSE [changed |-> TRUE, compat |-> Compatibility(features, date, flags)]

-----------------------------------------------------------------------------
(***************************************************************************)
(* CorePlugin.                                                             *)
(***************************************************************************)
DefaultModuleRules ==
  << [type |-> "ESModule", include |-> {"mjs"}, fallthrough |-> FALSE],
     [type |-> "CommonJS", include |-> {"js", "cjs"}, fallthrough |-> FALSE] >>

\* The rules that count: those of the user and then the defaults, up to the one
\* that ends its type.
ProcessedModuleRules(rules) ==
  FoldLeft(LAMBDA acc, rule :
             IF rule.type \in acc.finalised THEN acc
             ELSE [rules |-> Append(acc.rules, rule),
                   finalised |-> IF rule.fallthrough THEN acc.finalised ELSE acc.finalised \union {rule.type}],
           [rules |-> << >>, finalised |-> {}], rules \o DefaultModuleRules).rules

\* setup(): the script as a string, at a path, or at the path package.json
\* gives, and what to watch.  Only a default package.json may be missing.
CoreSetup(options, files) ==
  LET default == Option(options, "packagePath") = "default"
      packagePath == IF default THEN "package.json" ELSE Option(options, "packagePath")
      looks == Option(options, "scriptPath") = None /\ packagePath # None
      found == looks /\ packagePath \in DOMAIN files
      scriptPath ==
        IF Option(options, "scriptPath") # None THEN options["scriptPath"]
        ELSE IF found THEN Option(files[packagePath], IF Option(options, "modules") = TRUE THEN "module" ELSE "main")
        ELSE None
      watch == (IF looks THEN {packagePath} ELSE {}) \union (IF scriptPath # None THEN {scriptPath} ELSE {})
  IN  CASE Option(options, "script") # None -> [script |-> options["script"], watch |-> {}]
        [] Option(options, "script") = None /\ looks /\ ~found /\ ~default -> [error |-> "ENOENT"]
        [] Option(options, "script") = None /\ (looks => found \/ default) /\ scriptPath # None
           /\ scriptPath \notin DOMAIN files -> [error |-> "ENOENT"]
        [] OTHER -> [script |-> IF scriptPath = None THEN None ELSE files[scriptPath], watch |-> watch]

-----------------------------------------------------------------------------
(***************************************************************************)
(* BindingsPlugin.                                                         *)
(***************************************************************************)

\* The constructor: the default .env file, and service bindings by name.
EnvPath(options) ==
  IF Option(options, "envPathDefaultFallback") = TRUE /\ Option(options, "envPath") = None THEN "default"
  ELSE Option(options, "envPath")

\* setup(): bindings, those of later kinds over those of earlier ones; a file
\* that is missing is an error, but for a default .env.
FileKinds == <<"wasmBindings", "textBlobBindings", "dataBlobBindings">>

BindingsSetup(options, files) ==
  LET env == EnvPath(options)
      envPath == IF env = "default" THEN ".env" ELSE env
      missing == \/ env \notin {None, "default"} /\ env \notin DOMAIN files
                 \/ \E i \in DOMAIN FileKinds :
                      LET paths == Option(options, FileKinds[i])
                      IN  paths # None /\ \E n \in DOMAIN paths : paths[n] \notin DOMAIN files
      Given(key) == IF Option(options, key) = None THEN << >> ELSE options[key]
      Read(key) == [n \in DOMAIN Given(key) |-> files[Given(key)[n]]]
      dotenv == IF envPath \in DOMAIN files THEN files[envPath] ELSE << >>
  IN  IF missing THEN [error |-> "ENOENT"]
      ELSE [bindings |-> Given("bindings") @@ Given("serviceBindings")
                         @@ Read("dataBlobBindings") @@ Read("textBlobBindings") @@ Read("wasmBindings")
                         @@ dotenv @@ Given("wranglerBindings"),
            watch |-> (IF env = None THEN {} ELSE {envPath})
                      \union UNION {Range(Given(FileKinds[i])) : i \in DOMAIN FileKinds}]

(***************************************************************************)
(* Service bindings between reloads: the promise fetches wait for, and the *)
(* mounts they then look in.  Promises are numbered.                       *)
(***************************************************************************)
NoServices == [promise |-> 0, resolved |-> {}, mounts |-> None, fetches |-> << >>, threw |-> FALSE]

BeforeReload(s) == [s EXCEPT !.mounts = None, !.promise = @ + 1]

\* reload(): every service that is bound must be mounted.
ReloadServices(s, services, mounts) ==
  IF services \subseteq mounts THEN [s EXCEPT !.mounts = mounts, !.resolved = @ \union {s.promise}]
  ELSE [s EXCEPT !.threw = TRUE]

\* #getServiceFetch: a fetch waits, and then gets the mount (TRUE) or runs into
\* the assertion (FALSE).
GetServiceFetch(s, service) ==
  [s EXCEPT !.fetches = Append(@, [service |-> service, waits |-> s.promise, got |-> None])]

GotServiceFetch(s) ==
  LET Goes(f) == f.got = None /\ f.waits \in s.resolved
      Got(f) == IF Goes(f) THEN [f EXCEPT !.got = s.mounts # None /\ f.service \in s.mounts] ELSE f
  IN  [s EXCEPT !.fetches = [i \in DOMAIN s.fetches |-> Got(s.fetches[i])]]
=============================================================================
