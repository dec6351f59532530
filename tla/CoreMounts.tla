------------------------------ MODULE CoreMounts ------------------------------
(***************************************************************************)
(* packages/core/src/index.ts: how options are put together, and the       *)
(* workers mounted on another one: #init from "Update mounts" on,          *)
(* #updateRouter and #matchMount.                                          *)
(*                                                                         *)
(* Options are a function from the names of those that are set; what a     *)
(* wrangler.toml sets is one too.  A worker is the options it was given so *)
(* far (#previousSetOptions), its mounts and its routes.                   *)
(***************************************************************************)
EXTENDS Naturals, SequencesExt, TLC

CONSTANTS Keys, Files, None

\* Files: what the wrangler.toml of a root path sets.
R == INSTANCE Router

Get(options, key) == IF key \in DOMAIN options THEN options[key] ELSE None

-----------------------------------------------------------------------------
(***************************************************************************)
(* Options.                                                                *)
(***************************************************************************)
SplitPluginOptions(options) == Restrict(options, Keys \intersect DOMAIN options)

\* An option that is set, even to undefined, overrides the file's.
SplitWranglerConfig(overrides, config) ==
  [k \in Keys |-> IF k \in DOMAIN overrides THEN overrides[k] ELSE Get(config, k)]

\* What #init works with.
Options(set) ==
  LET overrides == SplitPluginOptions(set)
  IN  IF Get(set, "wranglerConfigPath") = None THEN overrides
      ELSE SplitWranglerConfig(overrides, Files[Get(set, "rootPath")])

\* setOptions: options that were set and are not given now stay.
SetOptions(previous, options) == options @@ previous

\* Where data is persisted: nowhere, in the default place, in a URL, or in a
\* path, relative to a root.
Persist(kind, at, root) == [kind |-> kind, at |-> at, root |-> root]
Undefined == Persist("undefined", None, None)

ResolveStoragePersist(root, persist) ==
  IF persist.kind = "relative" THEN Persist("absolute", persist.at, root) ELSE persist

\* PluginStorageFactory.storage: the store of a namespace.
Storage(plugin, namespace, persist) ==
  CASE persist.kind \in {"undefined", "false"} -> <<"memory", plugin, namespace>>
    [] persist.kind = "true" -> <<"default", plugin, namespace>>
    [] OTHER -> <<persist, namespace>>

\* The store a worker's plugin opens for a namespace.
Opens(set, plugin, key, namespace) ==
  LET persist == Get(Options(set), key)
  IN  Storage(plugin, namespace,
              ResolveStoragePersist(Get(set, "rootPath"), IF persist = None THEN Undefined ELSE persist))

-----------------------------------------------------------------------------
(***************************************************************************)
(* Mounts.                                                                 *)
(***************************************************************************)
Copied == {"kvPersist", "cachePersist", "durableObjectsPersist"}

\* What mounts get from their parent: whether it watches, and where it persists.
DefaultMountOptions(options, watching) ==
  LET defined == {k \in Copied : Get(options, k) # None}
  IN  [k \in defined |-> ResolveStoragePersist(Get(options, "rootPath"), options[k])]
      @@ ("watch" :> watching)

\* A mount is given as a path, and configured by the files there, or as options.
MountOptions(default, raw) ==
  IF "path" \in DOMAIN raw
  THEN ("rootPath" :> raw.path) @@ ("wranglerConfigPath" :> "true") @@ default
  ELSE raw.options @@ default

\* A worker whose script throws fails to start, and to be set other options.
Broken(set) == Get(Options(set), "script") = "throws"

\* The entries of the option mounts, one after the other, up to an error: those
\* before it are updated.  One that fails at its start is not kept.
UpdateMount(acc, entry, default) ==
  LET set == MountOptions(default, entry.raw)
      exists == entry.name \in DOMAIN acc.mounts
      updated == IF exists THEN SetOptions(acc.mounts[entry.name], set) ELSE set
  IN  CASE acc.error # None -> acc
        [] acc.error = None /\ entry.name = "" -> [acc EXCEPT !.error = "ERR_MOUNT_NO_NAME"]
        [] acc.error = None /\ entry.name # "" /\ "mounts" \in DOMAIN set ->
             [acc EXCEPT !.error = "ERR_MOUNT_NESTED"]
        [] OTHER ->
             [mounts |-> IF Broken(updated) /\ ~exists THEN acc.mounts
                         ELSE (entry.name :> updated) @@ acc.mounts,
              error |-> IF ~Broken(updated) THEN None ELSE IF exists THEN "ERR_SCRIPT" ELSE "ERR_MOUNT"]

\* #updateRouter: the parent's routes if it has a name, then those of the
\* mounts in their order; a mount must have no other name than it is given.
Named(name, routes) == [i \in DOMAIN routes |-> [routes[i] EXCEPT !.target = name]]
RoutesOf(name, options) ==
  IF Get(options, "routes") = None THEN << >> ELSE Named(name, Get(options, "routes"))

UpdateRouter(worker) ==
  LET options == Options(worker.set)
      order == worker.order
      mismatch == \E n \in DOMAIN worker.mounts :
                    Get(Options(worker.mounts[n]), "name") \notin {None, n}
      all == (IF Get(options, "name") = None THEN << >> ELSE RoutesOf(Get(options, "name"), options))
             \o FlattenSeq([i \in DOMAIN order |-> RoutesOf(order[i], Options(worker.mounts[order[i]]))])
      router == R!Update(all)
  IN  IF mismatch THEN [worker EXCEPT !.error = "ERR_MOUNT_NAME_MISMATCH"]
      ELSE IF router = None THEN [worker EXCEPT !.error = "ERR_ROUTE"]
      ELSE [worker EXCEPT !.router = router]

NoMounts == [x \in {} |-> x]
\* A worker that was never initialised; the first time decides about #watching.
Started(set) ==
  [set |-> set, watching |-> Get(Options(set), "watch"),
   mounts |-> NoMounts, order |-> << >>, router |-> << >>, error |-> None]

\* #init from "Update mounts" on: mounts that are not in the options any more
\* are disposed of, whether there are any others or not.
InitMounts(worker) ==
  LET options == Options(worker.set)
      entries == IF Get(options, "mounts") = None THEN << >> ELSE Get(options, "mounts")
      names == {entries[i].name : i \in DOMAIN entries}
      acc == FoldLeft(LAMBDA a, e : UpdateMount(a, e, DefaultMountOptions(options, worker.watching)),
                      [mounts |-> worker.mounts, error |-> None], entries)
      order == SelectSeq(worker.order, LAMBDA n : n \in DOMAIN acc.mounts)
               \o SelectSeq([i \in DOMAIN entries |-> entries[i].name],
                            LAMBDA n : n \in DOMAIN acc.mounts /\ n \notin ToSet(worker.order))
      updated == [worker EXCEPT !.mounts = acc.mounts, !.order = order, !.error = acc.error]
  IN  IF acc.error # None THEN updated
      ELSE UpdateRouter([updated EXCEPT !.mounts = Restrict(@, names),
                                        !.order = SelectSeq(@, LAMBDA n : n \in names)])

\* A worker is set other options.
Update(worker, options) == InitMounts([worker EXCEPT !.set = SetOptions(@, options)])

\* #matchMount: the mount that gets a request, or None for the worker itself.
MatchMount(worker, url) ==
  LET target == R!Match(worker.router, url)
  IN  IF worker.mounts = NoMounts \/ target = None \/ target = Get(Options(worker.set), "name")
      THEN None
      ELSE target
=============================================================================
