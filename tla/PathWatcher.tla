----------------------------- MODULE PathWatcher -----------------------------
(***************************************************************************)
(* packages/watcher/src/index.ts: the watcher of one path, as steps of a   *)
(* record: the path, which may be missing, a file or a directory with a    *)
(* subdirectory, as other programs change it; what the operating system    *)
(* was asked to watch; the events it has not delivered yet; the debounce   *)
(* timer, how many changes there had been when the user was called, and    *)
(* whether there was something to see then.                                *)
(*                                                                         *)
(* A directory is known by the change that made it: fs.watch() follows a   *)
(* directory and not its name.  fs.watchFile() compares the time of the    *)
(* last change with that of its previous look, the first of which is taken *)
(* to be immediate.  Events that repeat a time (the spurious ones, dropped *)
(* at 117) are left out: each change here has a time of its own.           *)
(***************************************************************************)
EXTENDS Naturals, SequencesExt

Root == "root"
Sub == "root/sub"

\* Nothing is there and nothing is watched.  ids: the directories, by path;
\* platform: whether fs.watch() can watch a tree, which it cannot on Linux.
Initial(platform) ==
  [platform |-> platform, changes |-> 0, mtime |-> 0, file |-> FALSE, ids |-> << >>,
   mode |-> "none", last |-> 0, watchers |-> << >>, events |-> << >>,
   pending |-> FALSE, seen |-> 0, saw |-> FALSE]

Exists(s) == s.file \/ Root \in DOMAIN s.ids
Without(f, S) == Restrict(f, DOMAIN f \ S)

-----------------------------------------------------------------------------
(***************************************************************************)
(* PathWatcher.                                                            *)
(***************************************************************************)

\* The callback made by watch(): the timer starts again.
Callback(s) == [s EXCEPT !.pending = TRUE]

dispose(s) == [s EXCEPT !.mode = "none", !.watchers = << >>, !.events = << >>]

WatchFile(s, mode) == [s EXCEPT !.mode = mode, !.last = s.mtime]

startCreateWatcher(s) == WatchFile(s, "create")
startPollingWatcher(s) == WatchFile(s, "poll")

\* walkDirs with walkCallback: directories that are not watched yet.
Walk(s, dirs) ==
  [s EXCEPT !.watchers = [d \in DOMAIN @ \union dirs |-> IF d \in DOMAIN @ THEN @[d] ELSE s.ids[d]]]

\* startPlatformRecursiveWatcher where there is one, else startRecursiveWatcher;
\* both with startDeletedWatcher.
startRecursiveWatcher(s) == WatchFile(Walk(s, IF s.platform THEN {Root} ELSE DOMAIN s.ids), "dir")

start(s) ==
  IF ~Exists(s) THEN startCreateWatcher(s)
  ELSE IF s.file THEN startPollingWatcher(s)
  ELSE startRecursiveWatcher(s)

\* The listener of watchFile, in the three ways it is used.
Listener(s) ==
  CASE s.mode = "create" -> IF Exists(s) THEN start(dispose(Callback(s))) ELSE s
    [] s.mode = "poll" -> IF Exists(s) THEN Callback(s) ELSE startCreateWatcher(dispose(Callback(s)))
    [] s.mode = "dir" -> IF Exists(s) THEN s ELSE startCreateWatcher(dispose(Callback(s)))

\* watchFile() looks, and calls the listener when the time is another.
Poll(s) == IF s.mode = "none" \/ s.last = s.mtime THEN s ELSE Listener([s EXCEPT !.last = s.mtime])

\* listener: an event of the platform's recursive watcher.
listener(s) ==
  IF Exists(s) THEN Callback(s) ELSE startCreateWatcher(dispose(Callback(s)))

\* update: an event in a directory, about a name in it.  A directory is watched,
\* with those below it; what is gone is not watched any more.
update(s, dir, name) ==
  IF dir \notin DOMAIN s.ids THEN start(dispose(Callback(s)))
  ELSE LET t == listener(s)
       IN  IF name = Sub /\ Sub \in DOMAIN s.ids THEN Walk(t, {Sub})
           ELSE [t EXCEPT !.watchers = Without(@, {name}),
                          !.events = SelectSeq(@, LAMBDA e : e.dir # name)]

\* The next event is delivered.
Deliver(s) ==
  IF s.events = << >> THEN s
  ELSE LET e == Head(s.events)
           t == [s EXCEPT !.events = Tail(@)]
       IN  IF s.platform THEN listener(t) ELSE update(t, e.dir, e.name)

\* The timer fires and the user, called, looks at the path as it is.
Debounced(s) == IF s.pending THEN [s EXCEPT !.pending = FALSE, !.seen = s.changes, !.saw = Exists(s)] ELSE s

\* unwatch() and dispose() of the Watcher; a timer that runs goes on.
unwatch(s) == dispose(s)

-----------------------------------------------------------------------------
(***************************************************************************)
(* The path, as other programs change it, and the events that makes.       *)
(***************************************************************************)

\* An event in a directory that is the one watched, or below it.
Live(s, dir) ==
  LET d == IF s.platform THEN Root ELSE dir
  IN  d \in DOMAIN s.watchers /\ d \in DOMAIN s.ids /\ s.watchers[d] = s.ids[d]

Events(s, seq) == [s EXCEPT !.events = @ \o SelectSeq(seq, LAMBDA e : Live(s, e.dir))]
In(dir, name) == [dir |-> dir, name |-> name]
Other(dir) == In(dir, "other")

Change(s) == [s EXCEPT !.changes = @ + 1, !.mtime = s.changes + 1]
Inside(s) == [s EXCEPT !.changes = @ + 1]  \* the root itself is left as it is

WithDirs(s, dirs) == [s EXCEPT !.ids = [d \in DOMAIN @ \union dirs |-> IF d \in DOMAIN @ THEN @[d] ELSE s.changes]]

\* All that may come next: a file or a directory, empty or not, is put where
\* nothing was; things are written, made and removed in it; it is removed.
Creations(s) ==
  IF ~Exists(s)
  THEN {[Change(s) EXCEPT !.file = TRUE], WithDirs(Change(s), {Root}), WithDirs(Change(s), {Root, Sub})}
  ELSE IF Root \in DOMAIN s.ids /\ Sub \notin DOMAIN s.ids
  THEN {WithDirs(Change(Events(s, <<In(Root, Sub)>>)), {Sub})}
  ELSE {}

Others(s) ==
  (IF s.file THEN {Change(s)} ELSE {})
  \union (IF Root \in DOMAIN s.ids THEN {Inside(Events(s, <<Other(Root)>>))} ELSE {})
  \union (IF Sub \in DOMAIN s.ids
          THEN {Inside(Events(s, <<Other(Sub)>>)),
                [Change(Events(s, <<Other(Sub), In(Root, Sub)>>)) EXCEPT !.ids = Without(@, {Sub})]}
          ELSE {})
  \union (IF Exists(s)
          THEN LET gone == IF Sub \in DOMAIN s.ids THEN <<Other(Sub), In(Root, Sub), Other(Root)>>
                           ELSE <<Other(Root)>>
               IN  {[Events(s, gone) EXCEPT !.changes = @ + 1, !.mtime = 0, !.file = FALSE, !.ids = << >>]}
          ELSE {})
=============================================================================
