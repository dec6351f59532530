----------------------------- MODULE RedisStorage -----------------------------
(***************************************************************************)
(* The storage in a Redis server (packages/storage-redis).  A key is two   *)
(* Redis keys, for the value and for the metadata, each with its own time  *)
(* to live in milliseconds; Redis drops what has expired.  A pipeline is   *)
(* sent as a whole and is one step.  Redis itself is external: SET replaces*)
(* the value and its time to live, PX refuses a time that is not positive. *)
(*                                                                         *)
(* A server is the two functions, from keys to what is stored and until    *)
(* when, None for ever.  A value is its size and what it is.               *)
(***************************************************************************)
EXTENDS Integers, Sequences, FiniteSets, SequencesExt

CONSTANT None

LOCAL Reads == INSTANCE StorageReads

EmptyDatabase == [values |-> <<>>, metas |-> <<>>]

\* External: GET, EXISTS, PTTL, SET and DEL of a Redis server
LiveKeys(table, now) == {k \in DOMAIN table : table[k].until = None \/ table[k].until > now}
Fetch(table, key, now) == IF key \in LiveKeys(table, now) THEN table[key].value ELSE None
TimeToLive(table, key, now) ==
  IF key \in LiveKeys(table, now) /\ table[key].until # None THEN table[key].until - now ELSE -1
Set(table, key, value, until) ==
  [k \in DOMAIN table \cup {key} |-> IF k = key THEN [value |-> value, until |-> until] ELSE table[k]]
Del(table, keys) == [k \in DOMAIN table \ keys |-> table[k]]

\* Seconds, rounded down, at which a time to live ends
Expiration(db, key, now) ==
  LET ttl == TimeToLive(db.values, key, now) IN IF ttl >= 0 THEN (now + ttl) \div 1000 ELSE None

Has(db, key, now) == key \in LiveKeys(db.values, now)
HasMany(db, keys, now) == Cardinality(keys \cap LiveKeys(db.values, now))

\* head() and get(), which differ by the value
Get(db, key, now) ==
  IF ~Has(db, key, now) THEN None
  ELSE [value |-> Fetch(db.values, key, now), metadata |-> Fetch(db.metas, key, now),
        expiration |-> Expiration(db, key, now)]
GetMany(db, keys, now) == [i \in 1 .. Len(keys) |-> Get(db, keys[i], now)]

\* getRange(): the first and last byte are inclusive in Redis, which the read
\* without metadata does not allow for.  An empty value is not found.
GetRange(db, key, range, skipMetadata, now) ==
  LET size == IF Has(db, key, now) THEN Fetch(db.values, key, now).size ELSE 0
      parsed == Reads!ParseRange(range, size)
      last == parsed.offset + parsed.length - (IF skipMetadata THEN 0 ELSE 1)
  IN IF size = 0 THEN [kind |-> "undefined"]
     ELSE IF parsed = None THEN [kind |-> "error"]
     ELSE [kind |-> "range", range |-> parsed,
           bytes |-> parsed.offset .. (IF last < size THEN last ELSE size - 1)]

\* putMany(): metadata is set when there is some, and otherwise left as it is.
PutOne(db, key, stored, now) ==
  LET until == IF stored.expiration = None THEN None ELSE stored.expiration * 1000
  IN [values |-> Set(db.values, key, stored.value, until),
      metas |-> IF stored.metadata = None THEN db.metas ELSE Set(db.metas, key, stored.metadata, until)]
\* A time to live that is not positive is an error, and nothing is stored
\* under that key.
Puttable(stored, now) == stored.expiration = None \/ stored.expiration * 1000 > now
PutMany(db, data, now) ==
  FoldLeft(LAMBDA acc, d : IF Puttable(d[2], now) THEN PutOne(acc, d[1], d[2], now) ELSE acc, db, data)

DeleteMany(db, keys, now) ==
  [count |-> HasMany(db, keys, now),
   db |-> [values |-> Del(db.values, keys), metas |-> Del(db.metas, keys)]]

\* list(): the metadata is fetched for the keys of the page alone.
List(db, options, now) ==
  LET page == Reads!List(options, LiveKeys(db.values, now))
  IN [page EXCEPT !.keys = [i \in 1 .. Len(page.keys) |->
        [name |-> page.keys[i], metadata |-> Fetch(db.metas, page.keys[i], now),
         expiration |-> Expiration(db, page.keys[i], now)]]]

------------------------------------------------------------------------------
(***************************************************************************)
(* A put over what is there is read back until it expires, by get, list    *)
(* and the pieces of the value that getRange is asked for with its         *)
(* metadata; and so is its metadata, except that a put without any keeps   *)
(* the metadata of the value it replaced (index.ts:85-120, 202-297).       *)
(***************************************************************************)
ReadsBack(db, key, stored, now, later) ==
  LET next == PutMany(db, <<<<key, stored>>>>, now)
      got == Get(next, key, later)
      live == stored.expiration = None \/ later < stored.expiration * 1000
      whole == [offset |-> None, length |-> None, suffix |-> None]
  IN Puttable(stored, now) =>
       IF ~live THEN got = None /\ GetRange(next, key, whole, FALSE, later).kind = "undefined"
       ELSE /\ got.value = stored.value /\ got.expiration = stored.expiration
            /\ stored.metadata # None => got.metadata = stored.metadata
            /\ (stored.metadata = None /\ ~Has(db, key, now) /\ Fetch(db.metas, key, now) = None)
                 => got.metadata = None
            /\ stored.value.size > 0 =>
                 GetRange(next, key, whole, FALSE, later).bytes = 0 .. stored.value.size - 1

(***************************************************************************)
(* Deleting removes value and metadata, so that a later put without        *)
(* metadata has none, and counts the keys that existed (index.ts:299-321). *)
(***************************************************************************)
DeletesBoth(db, keys, stored, now) ==
  LET gone == DeleteMany(db, keys, now)
      again == [k \in keys |-> PutMany(gone.db, <<<<k, [stored EXCEPT !.metadata = None]>>>>, now)]
  IN /\ gone.count = Cardinality({k \in keys : Get(db, k, now) # None})
     /\ \A k \in keys : /\ Get(gone.db, k, now) = None
                        /\ Get(again[k], k, now) # None => Get(again[k], k, now).metadata = None
==============================================================================
