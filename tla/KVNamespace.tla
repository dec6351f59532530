----------------------------- MODULE KVNamespace -----------------------------
(***************************************************************************)
(* A KV namespace (packages/kv): what is refused, when a value expires and *)
(* what a read answers.  A call counts against the limit on subrequests of *)
(* the request it is made in (shared/src/context.ts) before anything else  *)
(* is looked at.  The namespace is a function of its keys to a value, an   *)
(* expiration and metadata; storages are in FileStorage, RedisStorage and  *)
(* StorageReads.                                                           *)
(*                                                                         *)
(* Limits are parameters.  A number that an option does not parse as is    *)
(* NaN, which every comparison is false of.                                *)
(***************************************************************************)
EXTENDS Integers, Sequences, FiniteSets, SequencesExt

CONSTANTS
  None, NaN,
  MIN_CACHE_TTL, MIN_EXPIRATION, MAX_EXPIRATION, MAX_LIST_KEYS,
  MAX_KEY_SIZE, MAX_VALUE_SIZE, MAX_METADATA_SIZE,
  Dot, DotDot         \* the keys "." and ".."

LOCAL Reads == INSTANCE StorageReads

Types == {"text", "json", "arrayBuffer", "stream"}
TypeError == [kind |-> "TypeError"]
Failed(status) == [kind |-> "error", status |-> status]

Below(x, y) == x # NaN /\ y # NaN /\ x < y

------------------------------------------------------------------------------
\* A request context counts its calls, including the one that is too many.
\* A limit of None, when the limit is lifted, is FALSE in the code.
Increment(ctx) == [ctx EXCEPT !.subrequests = @ + 1]
TooMany(ctx) == ctx.limit # None /\ ctx.subrequests > ctx.limit

\* What every call begins with; None when it may go on.
Refused(ctx, blockGlobalAsyncIO, key) ==
  IF ctx = None /\ blockGlobalAsyncIO THEN [kind |-> "outside a request"]
  ELSE IF ctx # None /\ TooMany(Increment(ctx)) THEN [kind |-> "too many"]
  ELSE IF key = None \/ key \in {<<>>, Dot, DotDot} THEN TypeError
  ELSE IF Len(key) > MAX_KEY_SIZE THEN Failed(414) ELSE None

Live(namespace, key, now) ==
  /\ key \in DOMAIN namespace
  /\ namespace[key].expiration # None => namespace[key].expiration > now

\* get() and getWithMetadata(): a missing key is null of both.
Get(namespace, key, options, now) ==
  LET Converted(value) == IF options.type = "json" /\ ~value.json THEN [kind |-> "SyntaxError"]
                          ELSE [kind |-> "value", type |-> options.type, value |-> value,
                                metadata |-> namespace[key].metadata]
  IN IF options.cacheTtl \notin {None, 0} /\ ~Below(MIN_CACHE_TTL - 1, options.cacheTtl) THEN Failed(400)
     ELSE IF options.type \notin Types THEN TypeError
     ELSE IF ~Live(namespace, key, now) THEN [kind |-> "null"]
     ELSE Converted(namespace[key].value)

------------------------------------------------------------------------------
\* The time a put's value expires, None for never, or the error.  A time to
\* live is looked at first, and makes the expiration be ignored.
Accepted(t) == [kind |-> "at", time |-> t]
OutOfRange(x) == Below(x, MIN_EXPIRATION) \/ Below(MAX_EXPIRATION, x)

Expiration(options, now) ==
  LET ttl == options.expirationTtl at == options.expiration
  IN IF ttl # None THEN
       IF OutOfRange(ttl) THEN TypeError
       ELSE IF ttl = NaN \/ Below(ttl, MIN_CACHE_TTL) THEN Failed(400) ELSE Accepted(now + ttl)
     ELSE IF at # None THEN
       IF OutOfRange(at) THEN TypeError
       ELSE IF at = NaN \/ Below(at, now + MIN_CACHE_TTL) THEN Failed(400) ELSE Accepted(at)
     ELSE Accepted(None)

\* put(): the answer, and the namespace after it
Put(namespace, key, value, options, now) ==
  LET expiration == Expiration(options, now)
      Unchanged(answer) == [answer |-> answer, namespace |-> namespace]
  IN IF value.type = "other" THEN Unchanged(TypeError)
     ELSE IF expiration.kind # "at" THEN Unchanged(expiration)
     ELSE IF value.size > MAX_VALUE_SIZE THEN Unchanged(Failed(413))
     ELSE IF options.metadata # None /\ options.metadata > MAX_METADATA_SIZE
          THEN Unchanged(Failed(413))
     ELSE [answer |-> [kind |-> "ok"],
           namespace |-> [k \in DOMAIN namespace \cup {key} |->
             IF k # key THEN namespace[k]
             ELSE [value |-> value, expiration |-> expiration.time, metadata |-> options.metadata]]]

Delete(namespace, key) == [k \in DOMAIN namespace \ {key} |-> namespace[k]]

List(namespace, options, now) ==
  LET page == Reads!List([prefix |-> options.prefix, excludePrefix |-> None, start |-> None, end |-> None,
                            reverse |-> FALSE, delimiter |-> None, cursor |-> options.cursor,
                            limit |-> options.limit],
                           {k \in DOMAIN namespace : Live(namespace, k, now)})
  IN IF options.limit = NaN \/ Below(options.limit, 1) \/ Below(MAX_LIST_KEYS, options.limit) THEN Failed(400)
     ELSE [kind |-> "keys", keys |-> page.keys, cursor |-> page.cursor, list_complete |-> page.cursor = <<>>]

------------------------------------------------------------------------------
(***************************************************************************)
(* A value that a put accepted is read, with its metadata, for at least    *)
(* the minimum time to live and until it expires, and never from then on;  *)
(* a put that is refused changes nothing (namespace.ts:188-366).           *)
(***************************************************************************)
ReadUntilExpired(namespace, key, value, options, now, later) ==
  LET put == Put(namespace, key, value, options, now)
      stored == put.namespace[key]
      got == Get(put.namespace, key, [type |-> "text", cacheTtl |-> None], later)
  IN IF put.answer.kind # "ok" THEN put.namespace = namespace
     ELSE /\ stored.expiration = None \/ stored.expiration >= now + MIN_CACHE_TTL
          /\ IF stored.expiration = None \/ later < stored.expiration
             THEN got.kind = "value" /\ got.value = value /\ got.metadata = options.metadata
             ELSE got.kind = "null"

(***************************************************************************)
(* A time to live and the moment it ends at are accepted alike and give    *)
(* the same expiration, while that moment is in range                      *)
(* (namespace.ts:290-336).                                                 *)
(***************************************************************************)
TtlIsRelative(ttl, now) ==
  LET relative == Expiration([expirationTtl |-> ttl, expiration |-> None], now)
      absolute == Expiration([expirationTtl |-> None, expiration |-> now + ttl], now)
  IN (~OutOfRange(ttl) /\ ~OutOfRange(now + ttl)) => relative = absolute

(***************************************************************************)
(* A request makes as many calls as its limit, each of them going on, and  *)
(* none after that (context.ts:139-165).                                   *)
(***************************************************************************)
LimitIsExact(limit) ==
  LET ctx == [n \in 0 .. limit + 2 |-> [subrequests |-> n, limit |-> limit]]
  IN \A n \in 0 .. limit + 1 : (Refused(ctx[n], TRUE, <<1>>) = None) <=> n < limit
==============================================================================
