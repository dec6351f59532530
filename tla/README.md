# Miniflare in TLA+

Miniflare simulates the Cloudflare Workers runtime: Durable Objects with transactional
storage and alarms, queues, R2, KV, D1, caches, WebSockets, an HTTP server in front and storage
back ends behind, all on one Node.js event loop. There are no threads, but nearly everything is
asynchronous: at every `await` another request, timer or reload may run. These modules model
the parts where the order of such steps matters as state machines, and the parts that compute
an answer from their inputs as operators. TLC checks both on small instances, and TLAPS
proves what holds for every instance.
Source paths below are relative to `src/packages/`.

## 1. Inventory

| Component | State | Operations | What is hard |
|---|---|---|---|
| Storage lock (`durable-objects/src/rwmutex.ts`) | read lock count, write flag, two queues of resolve functions | `runWithRead`, `runWithWrite`, `unlock` | hand-over from one holder to the next; starvation |
| Durable Object storage (`durable-objects/src/storage.ts`, `shadow.ts`) | inner storage, shadow copies, shadow alarm, write sets of recent commits, key sets of deletes, pending flushes | `get put delete deleteAll list transaction getAlarm setAlarm deleteAlarm sync` | coalesced writes, optimistic transactions against non-transactional writes, a flush of several inner operations that can reject half-way |
| Alarms (`durable-objects/src/alarms.ts`, with `plugin.ts`, `namespace.ts`) | map of alarms, a timer for the near ones, periodic check, persistent store | `setupStore setupAlarms setAlarm deleteAlarm flushAlarms dispose` | timers against the check, restarts, handlers that set alarms, gates |
| Namespace and instances (`durable-objects/src/namespace.ts`, `plugin.ts`) | shared map of objects, one instance and one storage each, in-flight requests | `getObject`, `getStorage`, `fetch`, `reload`, `dispose` | objects created and replaced while requests run |
| Gates (`shared/src/sync/gate.ts`, `mutex.ts`) | lock count of each nested input gate, waiters; output gate promises | `waitForOpen runWithClosed #lock #unlock` | nested gates, waiters that lock again before the next is woken |
| Queue broker (`queues/src/broker.ts`, `plugin.ts`) | messages, pending flush, timer, consumer, attempts | `send sendBatch [kSetConsumer] #ensurePendingFlush #flush` | overlapping flushes, retries, dead letters, reloads |
| R2 (`r2/src/bucket.ts`, `multipart.ts`) | objects, upload states, parts, part pointers | `put get delete list createMultipartUpload uploadPart complete abort` | read-modify-write over an asynchronous storage without a lock |
| WebSockets (`web-sockets/src/websocket.ts`, `fetch.ts`, `plugin.ts`) | accepted, coupled, queue, open and close flags of a pair | `accept send close coupleWebSocket upgradingFetch`, reload | messages before accept, closing from both sides, output gates |
| Core (`core/src/index.ts`) | plugin instances, mounts, router, worker scopes, watcher | `#init #reload setOptions reload dispatch* dispose` | these overlap at every hook of every plugin; options that mounts inherit |
| Plugins (`core/src/plugins/core.ts`, `bindings.ts`, `shared/src/plugin.ts`, `compat.ts`) | options, compatibility date and flags, service bindings | `setup beforeReload reload` | options that change without a set up, services that wait for a reload |
| Scheduler (`scheduler/src`) | cron tasks per mount | setup, reload, dispose | tasks of a worker that is being replaced |
| Watcher (`watcher/src/index.ts`) | a watcher per path, pending debounce timer | watch, unwatch, events | paths that come, go and change kind |
| HTTP server (`http-server/src/index.ts`) | requests under way, upgrades | request listener, `writeResponse`, upgrade | errors half way, encodings and lengths |
| Events and bodies (`core/src/standards`, `shared/src/event.ts`, `context.ts`) | events with their `waitUntil` promises, depths, streams | dispatch, `respondWith`, `waitUntil`, fetch, clone, read | nesting, promises added late, chunks and lengths |
| Router (`core/src/router.ts`) | routes by specificity | update, match | order of routes |
| KV, cache, D1 (`kv/src`, `cache/src`, `d1/src`) | stored values with expirations; that of SQLite | get, put, list, match, delete, run, batch, exec | expiry arithmetic, boundaries, limits, splitting of SQL |
| Back ends (`storage-memory`, `storage-file`, `storage-redis`) | key-value maps; two files per key; Redis keys | get, getRange, put, delete, list | two file operations per put, expiry while reading, pagination |
| HTMLRewriter, sites, script runner, build, CLI, test environments | | | parsing, compiling, adapters; not modelled |

How they interact. A request enters through `core`'s dispatch, is routed to a mount, and may
call a Durable Object's stub. The stub waits for the object's *input gate*, so that no event
is delivered while storage operations run, and its response waits for the *output gate*, so
that nobody learns of writes that are not yet flushed. The storage runs its operations under
the *lock*, writes to the *shadow* and flushes to the *inner* storage, which a storage back end
implements. `setAlarm` reaches the process-wide *alarm store* through a bridge when it is
flushed; the alarm store calls the object's `alarm()` back through the plugin, which every
reload replaces. A reload also resets the *queue consumers*, which flush timers use when
they fire.

What makes each correct:

* lock: a writer runs alone; nobody waits without a holder; queued writers are not overtaken;
* storage: each operation takes effect in one step (strict serializability of the calls);
  what has returned is durable; `sync()` waits for everything before it; the flush and its
  failures are invisible to readers; every call returns;
* alarms: no alarm is missed, early, run without being scheduled or lost over a restart;
* queues: a message is in exactly one place; it is tried `maxRetries + 1` times and then moved
  or dropped; it settles in the end;
* gates: events are not delivered while a gate or one of its ancestors is locked, and every
  waiter is woken; R2: a completed object's parts exist; core: a request sees one complete
  configuration, mounts share their parent's storage, changes of files are noticed;
* WebSockets: messages arrive in order, once, and before the close; an end has one owner;
* dispatch: what `waitUntil` is given is waited for, recursion ends, clients are answered;
  bodies arrive whole and with their lengths;
* back ends: what was put is read, whatever a crash left before; a list has what exists; an
  expiration takes effect at its second.

`PROJECT.json` lists every hazard found at its line, with the properties that cover it or
the reason why none does.

## 2. Plan

| Step | Modules | Runs | Theorems |
|---|---|---|---|
| proved | `RWLock`, `ReadWriteMutex` | `lock_alarms_queues` | its four invariants; it implements `RWLock` |
| proved | `SerialStore`, `DurableObjectStorage` (uses the lock) | `do_transactions`, `do_calls`, `do_alarm` | its three invariants, `SyncIsDurable`; it implements `SerialStore` |
| proved | `AlarmStore` | `lock_alarms_queues`, `alarms_overlap` | its three invariants |
| proved | `QueueDelivery`, `QueueBroker` | `lock_alarms_queues` | its two invariants; it implements `QueueDelivery` |
| proved | `InputGate` | `gates` | its three invariants |
| proved | `WebSocket` | `websocket` | its two invariants |
| proved | `WorkerDispatch`, with `HttpMessages`, `Router` | `dispatch_files` | its two invariants |
| proved | `MiniflareCore`, with `CoreMounts`, `Plugins`, `PathWatcher`, `CronScheduler` | `core`, `core_mounts` | its three invariants |
| proved | `R2Multipart`, with `R2Objects` | `r2`, `r2_abort` | its three invariants |
| proved | `FileStorage`, with `StorageReads`, `RedisStorage`, `KVNamespace`, `Cache`, `D1Database` | `dispatch_files` | its two invariants |
| later | alarms of the storage and of the alarm store composed; two storages of one object over a reload | | |

The storage of Durable Objects came first because every one depends on it and because its claim,
optimistic concurrency control mixed with plain writes over one asynchronous flush, is the
strongest that the code makes. "Proved" means the safety properties that the run checks; liveness
stays with the runs, and what the operators of the modules after "with" compute is checked by
assumptions. The theorems about a module `M` are in `MProofs`, those about the three modules that
keep things on disk or in a store, `AlarmStore`, `R2Multipart` and `FileStorage`, in
`PersistenceProofs`.

## 3. Modules

### ReadWriteMutex (and RWLock)

`ReadWriteMutex` is `rwmutex.ts`: the counter, the flag, the two queues, and for each client
(one call of `runWithRead` or `runWithWrite`) the phase it is in. `readLock` and `writeLock`
run to the first `await`; `finishRead` and `finishWrite` are the `finally` blocks with
`unlock`. A waiter holds the lock from the moment its promise is resolved: nobody can
take it between the resolve and the microtask that resumes the waiter, because the flag or
the counter is set at the resolve. `RWLock` is what the lock promises: only the phases, a
request that enters or waits, a release after which the lock is passed on.

### DurableObjectStorage (and SerialStore)

One step is what runs between two awaits. Calls are the processes; `pc` says at which `await`
a call is. The lock is the module above (`Mutex == INSTANCE ReadWriteMutex WITH Clients <-
Calls`), so its queues and hand-overs interleave with everything else. A write is three steps
and more: the shadow write with its write set under the lock (`PutShadow`, `DeleteShadow`,
`AlarmShadow`), a yield that lets other writes join the same flush, and the flush under the lock
again (`FlushStart` to `FlushEnd`), one step per inner operation, but for the alarm, whose put and
call of the bridge are one step with what follows: nobody reads in between, as the write lock is
held. `deleteAll` and the commit of
a transaction flush without giving up the lock. A transaction notes `txnCount`, reads keys one
`await` at a time (`TxnGet`, `ReadInner`), makes its writes, waits for the lock and is
validated (`Conflicts`) against `txnWriteSets`, a window of `TxnWriteSetsMaxSize` commits; it
commits or begins again. `FlushRejects` is an inner operation that rejects after doing any
part of its work, the bridge that rejects after the alarm has been written, or the alarm store that
throws for a time that is not positive.

The value a call writes is the call's name. This makes values unique, so that a value read says
whose write was read. What a transaction writes is chosen when its closure ends (its writes are
invisible until it commits), and it reads a key once (a second read of the same key
that differs would make the transaction fail validation).

`SerialStore` is the promise: a map; every operation takes effect on it in one step, at
some moment between call and return; a delete replies with how many keys existed. The
mapping takes as the map what a reader sees, shadow copies over inner storage; so
flushing, failing to flush, and retrying must be stutters.

### AlarmStore

The map, the timers, the check, the persistent store with the operations still in flight on
each key, and the alarms whose callback has not reached the object. All times are
relative to now: 0 is due, `Tick` brings everything nearer, and is disabled while a timer is
due (time does not pass over a timer). `Interval` and `Overlap` stand for 30 and 1 seconds.
`flushAlarms` is modelled step by step, because it iterates over a map that handlers change; a
handler that throws ends it (`FlushThrows`). `RunHandler` is `kAlarm`: gates open, local alarm
deleted, handler runs.

Operations of the store on one key overlap: a timer deletes its alarm without awaiting the store,
which may still be writing it, and a handler may set the next alarm at once. With files a put or
a delete is several awaited calls (`FileStorage` has them). `storing` therefore counts the operations on a
key that are under way and keeps what they write. One that overlaps no other leaves its value; of
several the last to end leaves one of their values, what was there, nothing, or a value without its
metadata, which is read back as time 0 (`Outcomes`). Calls that come from the storage of an
object hold its write lock until their own operation has ended (`bridge`). `Dispose` leaves operations of
the store and code of objects under way; such code goes on with the common store (`StaleStore`).
`ProcessEnds` may come in the middle of any operation. `disputed` is the history that the properties need:
the keys whose last operation overlapped another one, or was followed by one of stale code.

### QueueBroker (and QueueDelivery)

Every queue's messages, consumer, pending flush, timer and the batches whose handler runs, with
timers that were overwritten in `#timeout` without being cleared counted as `orphans`: they
still fire. `Send`, `SetConsumer`, `Reload`, `TimerFires` (the first half of `#flush`) and
`FlushDone` (the second half, for any subset of messages to retry) interleave. A reload takes
the consumers away and beforeReload sets them again. `QueueDelivery` is the promise:
each message is unsent, waiting in a queue, being delivered, acknowledged or dropped, and
it moves to the dead letter queue after exactly `maxRetries + 1` attempts.

### InputGate

Every gate has its count, its queue of waiters and the path of gates up to the object's own
one. Events are whatever JavaScript waits for a gate: a request, an alarm, the answer of a
`fetch`. `Call` is `runWithClosed` up to its `await`, for a storage operation that is awaited
(`io`) or not (`background`), or for `blockConcurrencyWhile` (`block`), whose closure is more of
the event's own code under a child gate. `Return` is its `finally`, which leaves the unlocking to
`setImmediate`; `StartUnlock` and `ResumeUnlock` are `#unlock` up to and from its
`await` of the next `setImmediate`, parents included. `immediates` is the queue of these
callbacks: the code relies on its order, and on the fact that promises resolved in one callback
run before the next. `OneAtATime` is about events of the same gate: an event that was registered
under a block's child gate and comes in after the block has ended finds that gate open, whatever
the outer gate does.

### R2Multipart

One key of a bucket, the index keys of its uploads and their part keys, in a storage whose
steps are single operations on single keys. `complete` is five groups of them: the state, the
parts' metadata (`HeadPart`), the metadata of what is about to be replaced (`HeadExisting`),
object and index in either order (`PutObject`, `PutIndex`), and the parts that have become
redundant (`ListParts`, `DeletePart`). `put` and `delete` share the last group. `get` reads its
parts when the stream is pulled (`PullPart`), long after it read the pointers. Nothing keeps any two
calls apart; `complete` and `abort` of one upload may both have seen it pending. Two histories say
what came to pass: `contested`, the uploads that two calls were finishing at once, and
`overlapped`, for the property about calls that do not overlap. A part's value is the call
that put it, which is also its etag.

### MiniflareCore

A worker after its first initialisation. `#init` and `#reload` are walked hook by hook: `readConfig`,
then for each plugin with changed options `Dispose` and `Create` (with `beforeSetup`), then
`SetUp` for those and for the plugin with the script if something was built, `Initialised`; then
`BeforeReload`, `NewScope` (which clears the shared cache), `RunScript`, `RunAllReloads` and
`ReloadHook`. Three plugins stand for all: the one with the script, the one that builds it, and
`DurableObjectsPlugin` with its context promise. An op is a call of `setOptions` or `reload`, an
edit that the watcher reports, or a mount that has reloaded. Callbacks of the watcher take turns
under `#watcherCallbackMutex`, and leave the reload to the next if one waits. `Create`, `SetUp`,
`BuildAgain` and `RunScript` may throw. A request takes the scope there is, keeps the plugin
instance its binding was made from, and waits in `getObject` for that instance's context.
`Microtasks` says that what follows an `await` of a resolved promise runs before the next hook.

Only the callbacks of the watcher wait for each other. `setOptions`, `reload` and the reload of a
mount begin at any moment (`Begin`), also between two hooks of another op, and so do edits while one of
them goes on; each op then works on the same instances, results, scope and promises. Two histories say
which ops met: `overlapped`, whether ops that the mutex does not order were ever under way at once,
and `orderly`, whether none were since the worker started, or since the last `reload()` that began
while nothing else was under way. `reload()` sets up every plugin again, so that it repairs what
overlapping ops have left, whatever that was: `ConfigurationInForce` holds again from there on. The cache
of objects and requests that wait are not repaired, and the properties about these are of
workers whose ops have not overlapped; section 6 says what goes wrong otherwise, and `core_mounts` shows it.

### CoreMounts, Plugins, PathWatcher, CronScheduler

These are pure: a worker, a path or a scheduler is a record, a step of it an operator, and
`MCMiniflareCore` states assumptions over all histories of up to five steps, which TLC
evaluates before the run. `CoreMounts` is what `#init` does with mounts: the options they
inherit, the stores they open, their routes, and which worker a request goes to. `Plugins`
is options and their assignment, the compatibility date and flags, the paths that the core and
bindings plugins ask to be watched, and service bindings that wait for a reload.
`PathWatcher` is one watched path: it may be missing, a file or a directory with a subdirectory, and
the watcher changes over between polling for its creation, polling a file and `fs.watch` of each
directory, all with events that arrive late. `CronScheduler` is the timers of cron expressions over
overlapping reloads, each of which waits for a library to load.

### WebSocket

A pair in one of its five uses: both ends in code; one end returned in a response; one coupled with
the connection of `fetch`, or that one returned in turn; `new WebSocket()`. Each end has
its flags and `#dispatchQueue`. `Dispatch` is `kQueuingDispatchToPair` before its output
gate, `QueuingDispatchToPair` what follows when the gate of the sender's context opens: within a
context in order, between contexts in any. A connection of the `ws` package is external; it emits
frames and closes as its documentation says (`PeerSends`, `OnMessage`, `OnClose`), and may fail
while it is connecting (`Failed`, `Rejected`). `ReloadServer` and `ReloadPlugin` close
connections from the other side of a pair. `sent`, `dispatched` and `byCode`, the ends that code has
called `accept()` on, are histories. Code may send and close on an end that it has returned or that is
coupled, as in the source.

### WorkerDispatch, HttpMessages, Router

`WorkerDispatch` is an event from the listener of the HTTP server to its answer. A call is an event
of a worker: a request, an upgrade, a scheduled event, or one made by the code of another call,
through the network (`loop`), a service binding or a Durable Object, with the depths that the
request context counts. `DispatchFetch` is `respondWith`, `passThroughOnException` and the
throwing or returning of handlers, `Respond` what the promise then settles to, `WaitUntilAll` one
turn of `waitUntilAll`. Code is whatever the API allows. `answer` is what the client of the server
gets: the head, the body, an error page, or an upgrade.

`HttpMessages` is what becomes of headers, the body's length and encoding, and the protocol of a
request on their way in and out, and of its body as a sequence of chunks, through
conversion to a byte stream, gates, `clone`, `tee`, `FixedLengthStream`, `readAtLeast` and multipart
forms. `Router` is the parsing and order of routes. Both are checked by assumptions of
`MCWorkerDispatch` against what they are for: a body is whole, a length is that of what follows, a
request goes to the most specific route.

### FileStorage and the other back ends

`FileStorage` takes one step per call of the file system: `put` makes directories (`MakeDir`), truncates
(`Open`), writes (`WriteValue`), and truncates and writes, or removes, the metadata file; a read looks at
both files and removes them if they have expired; `list` walks, stats and reads one entry at a time,
and then deletes what has expired, side by side: a deletion that meets a directory fails the list while
the others go on. A write to a file that has been unlinked since it was opened is lost (`lost`). A value
that two puts write at once is one of theirs: that their bytes may mix is not modelled.
`Crash` kills all callers between any two steps. `Above` gives the directories that the path of a key
runs through, any tree; a key whose path is a directory of another's, which
the file system allows once, is part of the instance. `want`, `alone` and `must` are histories: what
the last undisturbed operation left, whether anything has touched the key since, and which keys have
been there since a list began. Its names begin with `Files`, those of `R2Multipart` with `Multipart`,
and `None` is that of `Nothing`, because one module of proofs is about both.

`StorageReads` is `listPaginate` with its filters, delimiters and cursors, and the two parsers of
ranges; it declares the only RECURSIVE operators besides `R2Objects`. `RedisStorage`,
`KVNamespace`, `Cache` and `D1Database` are the operations with their refusals, limits and expirations, and
how SQL is split. They are functions of a storage; `MCFileStorage` states what they promise over
bounded inputs.

### R2Objects

Conditions, puts that are refused, `get` and `head` with ranges over an object or its parts, and
listing, as operators over a bucket at one moment. `MCR2Multipart` states that parts read are the bytes put,
that lists are whole, and where the limits of bucket and upload differ.

## 4. What the runs show

| Run | Instance | Shows |
|---|---|---|
| `lock_alarms_queues` | lock: 4 clients that call again and again | exclusion, bookkeeping, no stranded waiter, writers' progress, refinement of `RWLock` |
| | alarms: 1 object, alarms 0 to 3 units ahead, a check every 2, 2 sets, any number of restarts, disposals, deletes and flushes, at most one operation left under way by a disposal | no alarm missed, no stale timers, the store agrees with the map after an operation that overlapped no other, alarms run, flushes return |
| | queues: a queue and its dead letter queue, 3 messages, batches of 2 and 1, 1 retry, 1 reload | messages neither lost nor doubled, a flush is always to come, refinement of `QueueDelivery`, everything settles |
| `do_transactions` | 3 calls, 2 keys, window of 1, any subset of the keys present | serializability of transactions, deletes and gets; stable copies during a flush; `sync` |
| `do_calls` | 2 calls of all eight kinds, 1 key, one valid and one invalid alarm time, failing inner storage | serializability also with failures; durability; assertions of the code; every call returns |
| `do_alarm` | setAlarm and a transaction | **violation**: a pending alarm is lost |
| `alarms_overlap` | 1 object | **violation**: a deletion that nobody awaits overlaps the put of its alarm |
| `gates` | 3 events, 2 calls with the gate closed | one critical section at a time, inner gates first, counts in order, every waiter let in |
| `r2` | 4 calls, 2 uploads, 2 part numbers, all overlaps | pointers are never dangling and readers of the current object are served, but for uploads that two calls were finishing at once; no garbage; assumptions about conditions, ranges, parts and lists |
| `r2_abort` | 3 calls on 1 upload | **violation**: `abort` deletes parts that the object points to |
| `core` | 3 changes of a worker with three plugins and two settings each, overlapping or not, failing hooks and scripts, 1 request | the last configuration in force as a whole, also after overlaps that a `reload()` followed; without overlaps no outdated object and no request left waiting; assumptions about mounts, watcher, scheduler, plugins |
| `core_mounts` | 2 reloads of mounts | **violation**: an object of an outdated class stays in the shared cache |
| `websocket` | 5 uses of a pair, 2 contexts, 2 messages, 2 connections, reloads | order of messages and closes, one owner of an end, connection or code, the closing handshake completes |
| `dispatch_files` | dispatch: up to 5 nested calls, limits of 2, 2 promises | `waitUntil` is waited for, recursion is bounded, every client is answered; assumptions about routes, headers, lengths, bodies |
| | files: 2 callers, 2 keys, one in the other's directory, 2 values, 3 operations, 2 moments | an undisturbed operation repairs what crashes and overlaps left, lists are complete; assumptions about listing, ranges, Redis, KV, cache, D1 |

Two runs are of several parts that share no state and need few states each. A behaviour is of one part (the
variable `part`), and the others stay as they began; in these initial states no action that is assumed
to be fair is enabled, but for a queue that is to get its consumer, whose fairness the run therefore asks
only of the behaviours of queues. `AtRest` lets the alarms and queues stop, so that deadlock is checked
of the lock alone.

The assumptions of an MC module are properties of operators: TLC evaluates each for every input of
the named sets before it explores states, and stops if one is false.

Every module of a state machine has a type invariant, `TypeOK`. It is part of the run for the
lock, and proved where there is a module of proofs; for the others it holds on the instances above
and is not part of the runs, which spend their time on what could be wrong.

Every property of a passing run is shown to depend on the code by a mutant, a variant of one
definition with a plausible bug (they stand before the definition, "Mutant of ..."), under which
TLC finds the property violated.

Four disagreements between the code and its tests, comments or assertions are runs of their own
(`findings` in `PROJECT.json`):

* `do_alarm`: a commit overwrites the storage's pending alarm with its own untouched one, so that an
  alarm is lost although `setAlarm` and `sync` have resolved;
* `alarms_overlap`: the timer deletes an alarm while its put is in flight, and the store keeps
  what the map has forgotten, or loses the alarm that the handler has set again;
* `r2_abort`: `abort` and `complete` of one upload both see it pending, and `abort` deletes the parts
  that the completed object points to, which the comment at `multipart.ts:384` means to avoid;
* `core_mounts`: two reloads of mounts interleave, the reload hook of the first resolves the context
  of the second with the classes it found, and an object of such a class stays in the cache that
  the comment at `core/src/index.ts:596` wants up to date.

All end in wrong data without an error. Others that were met on the way are in section 6, and at their
lines in the hazards.

### Bounds, and why they are enough

* Lock: 4 clients give a holder, a queued reader, and two queued writers (order) or several
  readers. The theorems hold for any number.
* Storage: a conflict needs two calls; write skew, a read through a flush or a lost validation
  needs two keys and three calls (one that starts, one that commits between, one whose flush
  overlaps). The window of write sets is 1, so that two commits during one transaction
  already push a set out of it. Calls are used once: a retried transaction is an attempt of the
  same call, so the state space is finite except for retries, which need another's commit.
  Calls of all kinds on two keys with three calls are beyond TLC here; `do_calls`
  takes all pairs of kinds instead. Calls and keys are symmetric in `do_transactions`, where no
  liveness is checked.
* Alarms: times 0, 1 (before the next check), 2 (in the overlap) and 3 (beyond it) are the
  classes that the two comparisons tell apart. `MaxSets` bounds `setAlarm` for the liveness
  properties too: an alarm that is moved away for ever never runs, in the code as well. It counts the
  calls of stale code too. `MaxLeft` is how many operations per key a disposal may leave under way:
  one is enough for the next owner of the store to overlap it. One object: objects share only the
  check, which comes for all of them, and the loop of `flushAlarms`, which a handler that sets its own
  alarm again keeps going as well. The theorems are about any number.
* Queues: with batches of 2 and 3 messages a full batch can be under way while a partial one
  gathers, and a retry can fill it up. Attempts are bounded by the code itself. `MaxReloads`
  bounds reloads: a queue whose consumer is taken away for ever delivers nothing.
* Gates: two calls give a block with an operation inside, two blocks nested, and two operations
  side by side; three events give two that wait and one that runs, so that a waiter that was let
  in can close the gate again before the other.
* R2: four calls are two uploads of a part and two that complete, abort or replace, or one of
  these that a reader overlaps. Two part numbers give a part that a completion does not use.
  Two uploads give an object that replaces another.
* Core: three ops give an edit, another that waits for its turn, and its undoing; two that overlap and a
  `reload()` that repairs; or a mount's reload in between. Two settings per plugin let options change and
  change back; `BuildPlugin`'s change alone, those of the other two together. The script's version and
  the exports are named by the op that made them, so a stale one shows. Ops and settings are
  symmetric; no liveness is checked here. `Telling` stops TLC where ops have overlapped and no
  property can tell any more: when a request is under way, a hook of `#init` has failed, or no op is
  left that could repair. All three properties hold in the states it cuts off because their
  hypotheses, `orderly` or `~overlapped`, are false there and in all that follows. The theorems need no
  such bound.
* WebSockets: two messages show an order, two contexts that they may overtake each other, two
  connections that an end is taken twice. A connection is opened once.
* Dispatch: calls are numbered in the order they are made, and only the last one makes another, as calls
  share nothing but what they are nested in. Five calls are one more than two limits of 2 let run.
  One call uses `waitUntil`, twice: the second promise is added while the first is awaited.
* Storage: an operation that is undisturbed after two that overlap needs three; expirations are
  now, later or never. The keys are one path and one below it, which has every case of two paths.
* Assumptions: sequences of up to three chunks, parts or statements, every set of up to
  five or so keys, routes or headers, numbers on both sides of each limit, and histories of five
  steps. Each `MC` module says which at the assumption.

### Fairness

Weak fairness only, and only of what Node.js does by itself: promises of the storage settle,
timers fire, time passes, handlers and closures return, a reload that took the consumers away
sets them again. Nothing makes a client call, set an alarm, send a message, stop or reload.
For transactions the fairness is of the call's next step as a whole; that one returns although
it may retry holds because each retry is caused by another call's commit, and calls are finite
in number. Timers of unequal delay may fire in any order in `QueueBroker`. Strong fairness is used
once, in `InputGate`: a `blockConcurrencyWhile` closure that keeps coming back from other I/O
settles in the end. Gates cannot promise anything for a closure that never does.

In `WebSocket` it is the output gates that open and the `ws` package that reports what
happens, and in `WorkerDispatch` the program's own steps and the code of a worker that settles
what it has promised: a handler that never settles has its client wait for ever.

Deadlock is checked for the lock. The others may stop: all calls have returned, no
alarm is set, no messages are left.

## 5. Proofs

Each of these modules has an inductive invariant `IInv`, three facts about it (`InitInvariant`,
`StepInvariant` and `InductiveInvariant`, which is `Spec => []IInv`), and theorems that take one
property each out of it. In `PersistenceProofs` the three invariants are `AlarmInvariant`,
`MultipartInvariant` and `FilesInvariant`, and `AlarmInvariantHolds` and its like the facts.
The parts of the invariants hold in the instances of the runs. The assumptions
on the constants are those that the modules state and TLC evaluates: sets of calls, keys,
queues, messages, promises are finite where something counts them, the markers for "nothing" are
no values, paths are a tree, and bounds are numbers. Bounds that the runs need (of reloads, sets,
operations) are in the guards, for any value. No theorem has a hypothesis on which calls overlap: what holds
only without an overlap says so in the property, by a history of what has come to pass.

Every safety property that a passing run checks is the statement of a theorem, and every abstract
specification is implemented by theorem.

| Module | Theorems |
|---|---|
| `ReadWriteMutexProofs` | `TypeCorrect`, `BookkeepingCorrect`, `WritersExclusive`, `WaitersAttended`, `Refinement` |
| `DurableObjectStorageProofs` | `TypeCorrect`, `CopiesAreStable`, `ReturnedWritesAreDurable`, `SyncWaitsForWrites`, `AssertionsNeverFail`, `CallsAreSerial` |
| `PersistenceProofs` | alarms: `AlarmTypes`, `NoAlarmIsLate`, `NoTimerWithoutAlarm`, `RestartFindsAlarms` |
| | uploads: `MultipartTypes`, `PointedPartsAlwaysExist`, `ReadersAlwaysServed`, `NoGarbageLeft` |
| | files: `FilesTypesHold`, `UndisturbedKeysHold`, `ListsAreComplete` |
| `QueueBrokerProofs` | `TypeCorrect`, `MessagesInOnePlace`, `FlushesToCome`, `QueuesDeliver` |
| `InputGateProofs` | `TypeCorrect`, `LocksMatch`, `EventsOneAtATime`, `InnerGatesFirst` |
| `WebSocketProofs` | `TypeCorrect`, `EventsInOrder`, `OneOwnerEach` |
| `WorkerDispatchProofs` | `TypeCorrect`, `NothingUnderWay`, `RecursionEnds` |
| `MiniflareCoreProofs` | `TypeCorrect`, `LastConfigurationInForce`, `ObjectsUpToDate`, `NobodyIsStranded` |

### The lock

`Exclusion` is not inductive: `unlock` decides by the counter and the queues, which only mean
what they should as long as they agree with what the clients do. `Bookkeeping` says that they
do: the counter is the number of clients in `reading`, the flag is set when one is in
`writing`, the queues hold exactly those that wait, the writers' once each. Under it the proof has
two layers. Every step of the code is a step of `RWLock` (`StepRefines`, with `UnlockReleases`
for the three branches of `unlock`); and every step of `RWLock` keeps `Exclusion` and
`NoStrandedWaiter` (`AbstractStep`). That `Bookkeeping` itself is kept rests on counting
(`CounterCounts`, `UnlockCounts`: one element leaves or joins a finite set) and on the queue's
order (`QueueHoldsWriters`, `UnlockQueues`). TLC checks all parts of `IInv` in the run.

### The storage of a Durable Object

The lock's theorems are used through an instance (`Lock == INSTANCE ReadWriteMutexProofs WITH
Clients <- Calls`): each step of the storage is a step of the lock or leaves it alone (`LockUsed`),
so the lock's invariant carries over (`LockSteps`), and with it that a writer is alone
(`WriterAlone`). The storage's own steps are of three sorts (`StepKinds`): quiet ones, writes,
and those of a flush; the last two hold the lock.

`CopiesStableDuringFlush` is part of `FlushMatches`: while a call flushes, the copies are the
entries it has collected, because nobody else writes. `FlushesToCome` says that copies are
never left behind: there is a call past its write that has yet to flush, unless a flush
failed; `PendingCounted`, that `#pendingFlushes` counts such calls, for `sync`. `WritesMatch` and
`CallsPlaced` relate a call's place, kind and pending writes; a copy belongs to a call that
has not returned or is durable. `DeletesMatch` and `NoneMissed` follow the key sets of deletes, which are
counted when a flush removes the keys: key sets are disjoint, have their copies, and their
results are kept until the call picks them up.

The theorem that ties these together is `CallsAreSerial`, that the storage implements
`SerialStore`. `ReadsMatch` is what it needs of transactions: whatever a transaction has read is what readers
see now, or will be `Noticed` by the validation, because a write set recorded since the
transaction began contains the key, or is no longer in the window (then validation fails
whatever it contained). It also covers the gap in which a key has no copy and its value
is on its way from the inner storage. A write takes effect in the store at its shadow step
(`WriteApplies`), a transaction at its commit, where `ReadsValid` says that what it read is
still so. Flushes do not change what readers see (`FlushesHidden`), which includes flushes that fail at any
point, because the copies stay; they only lose replies of deletes (`RejectsReply`), as
the abstract store allows. Replies of deletes are the rest of the work (`Replies` to `DeleteReply`):
a delete replies with what it counted, what its key set will find in the inner storage, or
what a flush has found for it, and the sum stays the same over every step.

### Alarms

A due alarm is found because of `CoveredInTime`: it has a timer that is not later, or the next
check comes before it. Most handlers change the map, the timers and the store through
`#deleteAlarm`, so that `ForgetKeepsAgreement` does most of the work. `StoreFollowsMap` is
about states with nothing in flight; what is inductive is `StoreOnItsWay`: for a key that is not
disputed, either nothing is in flight and the store holds what the map holds, or one operation that is
alone will leave just that. Operations that overlap may leave anything of `Outcomes`, and the next one that is alone
makes good for them. That this is all one can have is the run `alarms_overlap`.

### Queues

`NoneLostNoneTwice` becomes inductive when it is said of every queue and batch which messages it holds, none
twice (`Distinct`, `InOnePlace`). `FlushToCome` needs `FlushNoted`: what `#pendingFlush` says is
backed by a timer, an orphaned timer, or a batch under way that will forget it, and without a consumer
nothing is noted. `QueuesDeliver` maps each message to its place in `QueueDelivery`; the steps
that flush, requeue and dead-letter are shown to move messages as it promises, each with its attempts.

### Gates

A call that has not returned holds its gate and all gates outside; one that is
unlocking holds the outer ones that are left (`GatesNest`, `HeldNest`). A gate's count is the
number of its holders (`LocksCounted`, which is what `LocksAccounted` rests on), every call that
still holds something after returning has one callback to come (`CallbacksMatch`), and waiters, awaits
and calls of a gate belong together (`QueuesMatch`, `AwaitsMatch`, `OneCaller`, `RunsAlone`).
`InnerFirst` follows from `DrainsHold` and `WaitersNext`: whoever waits at an open gate is about to be let
in by a call that still holds all gates outside it.

### WebSockets

`InOrder` is about three queues of an end; the proof is about the events of one context
in a sequence (`Of`), and how appending, removing the first, and taking everything change it.
`Of` is a recursive function; what it computes is proved by the least-number principle on
sets of lengths, since induction over a predicate is beyond the provers. `OneOwner` needs
`Coupling` (an end is marked as coupled if a connection listens, except while that is being opened),
`Fresh` (nothing has happened to the ends of a connection that is being opened) and `CodeOwns` (an end
that code has accepted is marked as accepted, and no connection listens to it).

### Dispatch

`RecursionBounded` counts a chain of nested calls. Calls are numbered, so the chain of the n-th
is 1 to n (`NestedInOrder`); `DepthsCount` says that n is at most what the two depths have
counted, and that a call that is too deep has thrown. `WaitedForAll` needs `PromisesKnown`: an event
knows the promises that were given, nothing is awaited too early, and what has been awaited for
good is fulfilled, also when promises were added meanwhile. Most handlers are a move of one call
(`MovedInvariant`).

### Core

The theorems hold for any number of ops and requests, any settings, whatever hooks and scripts
fail, and whichever ops overlap. `OfferedAreOptions` says that what `setOptions` is called with is options.

The invariant has three layers. Types, the queue of the mutex (`Line`) and what can be said of one op by
its place (`OpsMatch`, `InstancesPlaced`) always hold. `InOrder` holds while `orderly`, and `Promised` while
nothing has overlapped. `InOrder` starts from `Alone`: the ops under way are one, or callbacks
of the watcher in the order of the mutex, of which the first is at work. So a step of one op finds
no other between two hooks, and the rest can say what the worker is like by the place of
that op (`SortsAre` sorts the steps). `ReloadRestores` is where `InOrder` comes back: a `reload()` that
begins alone has every plugin set up again, so that nothing that was left behind is claimed to be
right before it has been dealt with; `OrderKept` takes it through the steps that follow. Four things are kept:

* `Configured`, for `ConfigurationInForce`: the instance of each plugin has the options read last,
  or those before if the loop of `#init` has not come to it yet; options that differ from those read
  will be read by an op that waits; an instance that has no result yet, and a script that has not
  been read, will be set up by the op at work or by one that waits. That is what makes it right for
  callbacks to leave the reload to the next in line. `#init` loops over the plugins that have
  changed, which the lemmas `SetsUpMeans` and `CreatesMeans` turn into "everything between the last
  plugin and the next has not changed". All of this is given up after a hook of `#init` has failed
  (`Failed`), as the code does, and after ops have overlapped.
* `Scoped`: from `newScope` on, the scope is that of the results, and it is the script of this op
  that runs in it.
* `ContextsCurrent`, for `UpToDate`: a context promise that is resolved is that of the instance in
  use, with the classes in use, and a reload begins with a new promise. So the cached object is
  current in every state, not only in idle ones, although a request may get at its context long
  after it asked. `PromisesApart` is why a request that waits does not mix up two instances'
  promises.
* `Attended`, for `NobodyStranded`: who waits for the instance in use waits for the promise that the
  reload under way will resolve, unless no request has reached the instance yet. `ContextsThere`,
  that instances requests can reach have had `beforeReload()`, is the code's own comment on
  `getObject()`.

### Multipart uploads

The theorems hold for any number of calls, uploads and parts, and all overlaps. An upload that two calls
are completing or aborting at once becomes `contested` and stays so; what the parts of the invariant
say of finishers, indices and pointers is said of all other uploads (`Clear`). A contested upload
does not spoil the others: the calls that clean up after it delete its own parts only.

`PointedPartsExist` is about what may be deleted while nobody holds a lock. `CallsMatch` says what each
call can delete (`Deletes`): all parts of an upload it aborts or whose object it has replaced, or those it did not
use of one that it completes. `OneFinisher`, `IndexFollows` and `OneCompleter` then follow the index
key of an upload: of all calls that ever try to complete it, one gets past the check of its parts,
so an object that points to an upload points to the parts that this one has used
(`ObjectsCompleted`). `PartsFound` says that the parts a completion has found stay until the
object points to them. Last, `FoundReplaced`: a call that cleans up after an object it has found
does so when that object is gone from the key, and it cannot come back, because its upload is
completed only once. That is also why a reader misses a part only if what it reads was replaced
(`ReadersServed`).

`NoGarbage` is a property of calls that do not overlap, and `LittleLeft` is what one of them knows at
each of its steps (`Knows`) and which part has yet to be dealt with by it (`Deals`): every part
belongs to a pending upload, is pointed to, or is on the list of the call at work.

### Files

The theorems hold for any callers, keys, directories, expirations and crashes; no hypothesis
restricts overlaps, as both properties speak of what was not disturbed. Every step
of an operation is of one form (`Runs`): other operations go on as they were, and only files of the
operation's own keys change. Most parts of the invariant are kept by that alone.

For `AloneHolds`, `OverlapsMarked` and `MetWritersDisturb` say that the history is right: two operations at a key, one of them a
writer, are both marked, and the key is then not taken for undisturbed until a writer that met nobody has
ended. `UndisturbedHolds` is the property for the states in between, in which readers that delete
an expired value have removed one of its files; `ReadersExpire` says that such a
reader has seen an expiration that was indeed over, and `WritersFind` that a writer that met
nobody finds its first file as it left it when it writes the second. `DroppersFind`, that whoever is
about to remove the metadata of an undisturbed key finds its value gone, had to be added: nothing else keeps it
from leaving a value without its expiration.

For `ListComplete`, `ListsProceed` says of a running list that each key it must return is among
those it has read, or it is at that key, or the key or a directory above it is still to be visited. A visit
of a directory hands over to the next entry on the key's path, which exists by
`AboveIsTree` and `FilesInDirectories`, that a file is no directory and lies in directories.

### Only model-checked

* Liveness (`WriterProgress`, `CallsReturn`, `AlarmRuns`, `FlushReturns`, `EveryMessageSettles`, `EventsLetIn`,
  `HandshakeCompletes`, `Answered`): the provers do not treat fairness.
* What the recursive operators of `StorageReads` and `R2Objects` compute, and the assumptions of the `MC`
  modules: induction over data is beyond the provers.

## 6. What is not modelled, and what the models exclude

Not modelled: HTMLRewriter, sites, the script runner, the build, the command line and the adapters
for test frameworks, which parse, compile or call a library and keep no state from call to call.
Within the modelled components:

* storage: `list()` (and with it phantoms: only the keys returned join the read set), values of
  alarms that transactions and `getAlarm` read, the lock inside one transaction, transactions that
  read a key twice or read their own writes, limits on keys and sizes (which throw before anything changes), cloning of values, and the gates, which
  restrict the order of calls further than the model does;
* alarms: two `flushAlarms()` at once. Of code that outlives its plugin only what it does to the common store
  is modelled, not the timers of its own `AlarmStore`, which may run an alarm in a disposed instance;
  a callback that has fired and not yet deleted the local alarm does nothing more to the map of
  the disposed store, which is empty. The alarm in the storage (`DurableObjectStorage`) and in the alarm
  store are separate models: `scheduled` stands for the latter;
* queues: `retry()` called after the handler returned, a consumer whose limits change from one
  reload to the next, the error for two consumers of one queue. `sendBatch` is a row of
  sends without a step between them; the model allows steps between;
* gates: `allowConcurrency`, the output gate, and the child gate of a storage operation, at which
  nobody waits;
* R2: several keys in one `delete`, and in `R2Multipart` calls that fail before they change anything;
* core: the first `#init`, `dispose()`, the second during which a change of the script is ignored
  after a build, and what overlapping calls of `setOptions` do to mounts;
* WebSockets: codes and reasons, and the request context in which listeners run;
* events and bodies: crypto, dates, encodings, timers, the `cf` object, undici itself;
* back ends: what inner storages of Durable Objects do (a map with atomic reads of one key, whose
  failures are partial writes), sanitising of paths, SQLite, and the stacked storage of tests.

Some behaviour of the code is in the models and excluded from the properties that hold, because
nothing in the repository says what should happen or because a run of its own shows it:

* `AlarmStore`: an alarm that is moved beyond the next check keeps its first timer and runs at the
  old time (`alarms.ts:105`), where a comment at line 47 speaks of a changed time. What overlapping
  operations leave in the store is in `alarms_overlap`;
* `R2Multipart`: uploads that two calls finish at once (`r2_abort`);
* `MiniflareCore`: ops that overlap without a `reload()` after them. An edit or a call during `setOptions` can
  leave instances of older options in force; the reload of a mount between other hooks leaves outdated
  objects (`core_mounts`). If `setOptions` replaces the plugin of the objects while the reload of a mount is past its
  `beforeReload()` hooks, requests meet an instance without a context, and the assertion of
  `getObject()` fails (`"asserted"` in `NobodyStranded`, which excludes overlaps). The second of two reloads replaces
  the promise a request waits for, and the request waits for ever.
  A failed `#init` leaves replaced instances behind, which a change back of the options does not
  repair, and a request that waits when a script throws, or for an instance that is replaced, waits
  for ever: `NobodyStranded` leaves these out and does not catch them;
* `CoreMounts`: options withdrawn from a mount stay in force (`index.ts:574`, `1015`); R2 and D1
  persistence is not handed to mounts (501 to 533);
* `Plugins`: a service's `fetch` that waits is stranded when a reload fails, and in a mounted worker
  (`bindings.ts:430`);
* `PathWatcher`: a directory that is removed and made again before its events are dealt with
  (`watcher/src/index.ts:221`), a file replaced by a directory between two polls (95);
* `WebSocket`: a fetched socket that nobody accepted makes the plugin's reload throw (`plugin.ts:52`);
* `WorkerDispatch`, `HttpMessages`: an error after the head is written, whose client waits for ever
  and is left out of `Answered` (`http-server/src/index.ts:297`), the length of an encoded response with live reload (193), a falsy chunk
  that is no buffer stalls its reader (`http.ts:251`), files in base 64 are decoded chunk by chunk (333);
* `FileStorage`: a read of an expired value deletes one that is put meanwhile (`local.ts:66`), a list
  fails when an entry vanishes (`storage-file/src/helpers.ts:88`) and ends early when its cursor's key is deleted;
* `RedisStorage`: a put without metadata keeps the old one (`storage-redis/src/index.ts:283`), and
  ranges of values without metadata are one byte too long (214);
* `StorageReads`: `bytes=-0` returns everything (`range.ts:63`);
* `R2Objects`: full pages after a `startAfter` that is no key lose entries (`bucket.ts:751`), a key of the
  greatest length can be uploaded in parts and not read (155);
* `D1Database`: a parameter like `$1` takes the semicolon after it along (`splitter.ts:62`), errors of
  `exec()` always name the first line, and `dump()` returns an error as the dump.
