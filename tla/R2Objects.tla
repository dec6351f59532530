------------------------------ MODULE R2Objects ------------------------------
(***************************************************************************)
(* What the calls of an R2 bucket answer (packages/r2/src/bucket.ts and    *)
(* r2Object.ts): which keys and options are refused, conditions, ranges,   *)
(* integrity hashes, HTTP metadata and listing.  A call is a function of   *)
(* the bucket at the time it reads it; how calls interleave, and multipart *)
(* uploads, are in R2Multipart.                                            *)
(*                                                                         *)
(* A bucket maps keys, which are sequences, to objects: the etag, the time *)
(* of the upload, the size, the metadata fields that are set and whether   *)
(* it is made of parts.  An answer is a record with a kind.                *)
(***************************************************************************)
EXTENDS Naturals, Integers, Sequences, FiniteSets, SequencesExt

CONSTANTS
  None,             \* undefined
  Blank,            \* the empty string, as the etags of a condition
  InternalPrefix,   \* of the keys multipart uploads are stored under
  MAX_KEY_SIZE, MAX_VALUE_SIZE, MAX_LIST_KEYS, MAX_INCLUDE_KEYS,
  HttpFields,       \* the fields of R2HTTPMetadata
  ExpectedBytes     \* of each hash algorithm

LOCAL Reads == INSTANCE StorageReads

Algorithms == DOMAIN ExpectedBytes
TypeError == [kind |-> "TypeError"]
Failed(status) == [kind |-> "error", status |-> status]
Null == [kind |-> "null"]

\* validateKey(), and the check that multipart uploads have of their own
ValidKey(key) == Len(key) < MAX_KEY_SIZE /\ ~IsPrefix(InternalPrefix, key)
ValidMultipartKey(key) == Len(key) <= MAX_KEY_SIZE /\ ~IsPrefix(InternalPrefix, key)
KeyStatus(key) == IF Len(key) >= MAX_KEY_SIZE THEN 414 ELSE 400

------------------------------------------------------------------------------
\* parseOnlyIf(): one etag is a list of one, quotes are dropped; a blank etag
\* stays blank.  Conditions given as headers are the same.
ParseOnlyIf(onlyIf) ==
  IF onlyIf = None
  THEN [etagMatches |-> None, etagDoesNotMatch |-> None, uploadedBefore |-> None, uploadedAfter |-> None]
  ELSE onlyIf

\* "yes" or "no" for the etags of a condition, None when there are none
Match(etags, etag) == IF etags \in {None, Blank} THEN None ELSE IF etag \in etags THEN "yes" ELSE "no"

TestR2Conditional(onlyIf, object) ==
  LET ifMatch == Match(onlyIf.etagMatches, object.etag)
      ifNoneMatch == Match(onlyIf.etagDoesNotMatch, object.etag)
  IN IF object = None THEN onlyIf.etagMatches = None /\ onlyIf.uploadedAfter = None
     ELSE /\ ifMatch # "no" /\ ifNoneMatch # "yes"
          /\ ~(ifMatch = None /\ onlyIf.uploadedBefore # None /\ object.uploaded > onlyIf.uploadedBefore)
          /\ ~(ifNoneMatch = None /\ onlyIf.uploadedAfter # None /\ object.uploaded < onlyIf.uploadedAfter)

(***************************************************************************)
(* Conditions on an object that exists are those of HTTP (RFC 7232, which  *)
(* bucket.ts:46 names): the etags a request lists decide, and a date is    *)
(* looked at only where no etags were listed for its side; the two sides   *)
(* must both hold (r2Object.ts:176-221).                                   *)
(***************************************************************************)
EtagsBeforeDates(onlyIf, object) ==
  TestR2Conditional(onlyIf, object) <=>
    /\ IF onlyIf.etagMatches \notin {None, Blank} THEN object.etag \in onlyIf.etagMatches
       ELSE onlyIf.uploadedBefore = None \/ object.uploaded <= onlyIf.uploadedBefore
    /\ IF onlyIf.etagDoesNotMatch \notin {None, Blank} THEN object.etag \notin onlyIf.etagDoesNotMatch
       ELSE onlyIf.uploadedAfter = None \/ object.uploaded >= onlyIf.uploadedAfter

------------------------------------------------------------------------------
\* parseHttpMetadata(): only the known fields
ParseHttpMetadata(fields) == fields \cap HttpFields

\* validatePutHashes(): the hash given, None without one, TypeError when one
\* has the wrong length or there are two
PutHash(hashes) ==
  LET given == {a \in Algorithms : hashes[a] # None}
  IN IF \E a \in given : hashes[a].bytes # ExpectedBytes[a] THEN TypeError
     ELSE IF Cardinality(given) > 1 THEN TypeError
     ELSE IF given = {} THEN None ELSE hashes[CHOOSE a \in given : TRUE]

ValidGetRange(range) == range.headers \/ range.offset = None \/ range.offset >= 0

\* rangeHeaderToR2Range(): one range of a header; none, or several, are all
\* of the object
R2Range(range, size) ==
  LET ranges == IF range.header = None THEN None ELSE Reads!ParseRanges(range.header, size)
      all == [offset |-> None, length |-> None, suffix |-> None]
  IN IF ~range.headers THEN [offset |-> range.offset, length |-> range.length, suffix |-> range.suffix]
     ELSE IF ranges = None THEN all
     ELSE IF Len(ranges) # 1 THEN all
     ELSE [offset |-> ranges[1].start, length |-> ranges[1].end - ranges[1].start + 1, suffix |-> None]

Object(bucket, key) == IF key \in DOMAIN bucket THEN bucket[key] ELSE None

HeadObject(bucket, key) ==
  IF ~ValidKey(key) THEN Failed(KeyStatus(key))
  ELSE IF Object(bucket, key) = None THEN Null ELSE [kind |-> "object", object |-> bucket[key]]

\* An object whose condition fails is returned without its body.
Get(bucket, key, options) ==
  LET object == Object(bucket, key)
      range == Reads!ParseRange(R2Range(options.range, object.size), object.size)
  IN IF ~ValidKey(key) THEN Failed(KeyStatus(key))
     ELSE IF ~ValidGetRange(options.range) THEN Failed(400)
     ELSE IF object = None THEN Null
     ELSE IF ~TestR2Conditional(ParseOnlyIf(options.onlyIf), object) THEN [kind |-> "object", object |-> object]
     ELSE IF object.size = 0 THEN [kind |-> "body", object |-> object, bytes |-> {}]
     ELSE IF range = None THEN Failed(400)
     ELSE [kind |-> "body", object |-> object, bytes |-> Reads!Bytes(range)]

\* put(): the answer, and the bucket after it.  A hash is compared only once
\* the condition holds.
Put(bucket, key, value, options, now) ==
  LET hash == PutHash(options.hashes)
      object == [etag |-> value.md5, uploaded |-> now, size |-> value.size, multipart |-> FALSE,
                 http |-> ParseHttpMetadata(options.http), custom |-> options.custom]
      Answer(a) == [answer |-> a, bucket |-> bucket]
  IN IF ~ValidKey(key) THEN Answer(Failed(KeyStatus(key)))
     ELSE IF hash = TypeError THEN Answer(TypeError)
     ELSE IF ~TestR2Conditional(ParseOnlyIf(options.onlyIf), Object(bucket, key)) THEN Answer(Null)
     ELSE IF value.size > MAX_VALUE_SIZE THEN Answer(Failed(400))
     ELSE IF hash # None /\ hash.of # value.md5 THEN Answer([kind |-> "mismatch"])
     ELSE [answer |-> [kind |-> "object", object |-> object],
           bucket |-> [k \in DOMAIN bucket \cup {key} |-> IF k = key THEN object ELSE bucket[k]]]

Delete(bucket, keys) ==
  IF \E k \in keys : ~ValidKey(k)
  THEN [answer |-> Failed(KeyStatus(CHOOSE k \in keys : ~ValidKey(k))), bucket |-> bucket]
  ELSE [answer |-> Null, bucket |-> [k \in DOMAIN bucket \ keys |-> bucket[k]]]

CreateMultipartUpload(key) == IF ValidMultipartKey(key) THEN [kind |-> "upload"] ELSE TypeError

(***************************************************************************)
(* What was put is what is got: after a put that was accepted, head and    *)
(* get answer with its etag, size and metadata, and get with the bytes of  *)
(* the range asked for; a put that was not leaves the bucket as it was     *)
(* (bucket.ts:506-664).                                                    *)
(***************************************************************************)
PutThenGet(bucket, key, value, options, range) ==
  LET put == Put(bucket, key, value, options, 2)
      got == Get(put.bucket, key, [onlyIf |-> None, range |-> range])
  IN IF put.answer.kind # "object" THEN put.bucket = bucket
     ELSE /\ HeadObject(put.bucket, key) = put.answer
          /\ put.answer.object.etag = value.md5 /\ put.answer.object.size = value.size
          /\ \A k \in DOMAIN bucket \ {key} : put.bucket[k] = bucket[k]
          /\ got.kind = "body" => /\ got.object = put.answer.object
                                  /\ got.bytes \subseteq 0 .. value.size - 1
          /\ (range.headers /\ range.header = None) =>
               got.kind = "body" /\ got.bytes = 0 .. value.size - 1

------------------------------------------------------------------------------
\* complete(): whether parts may become an object, in the order of the call
\* and, sorted by number, of the object.  Each is its number and its size.
CompletableParts(parts, minimum) ==
  LET size(n) == parts[CHOOSE i \in 1 .. Len(parts) : parts[i].number = n].size
      numbers == {parts[i].number : i \in 1 .. Len(parts)}
      allButLast == {n \in numbers : \E m \in numbers : n < m}
  IN /\ Cardinality(numbers) = Len(parts)
     /\ \A i \in 1 .. Len(parts) - 1 : parts[i].size >= minimum
     \* of one size, and the last no larger
     /\ \A n \in allButLast : size(n) >= minimum /\ \A m \in numbers : size(m) <= size(n)

SortedParts(parts) == SortSeq(parts, LAMBDA p, q : p.number < q.number)
TotalSize(parts) == FoldLeft(LAMBDA acc, p : acc + p.size, 0, parts)

\* getMultipartValue(): the slice of each part that a range overlaps
PartSlices(parts, range) ==
  LET start(i) == TotalSize(SubSeq(parts, 1, i - 1))
      from == range.offset
      to == range.offset + range.length
      slice(i) == [number |-> parts[i].number,
                   start |-> (IF start(i) > from THEN start(i) ELSE from) - start(i),
                   end |-> (IF start(i) + parts[i].size < to THEN start(i) + parts[i].size ELSE to) - start(i)]
      overlaps(i) == start(i) < to /\ from < start(i) + parts[i].size
      hit == SelectSeq([i \in 1 .. Len(parts) |-> i], overlaps)
  IN [i \in 1 .. Len(hit) |-> slice(hit[i])]

(***************************************************************************)
(* A completed upload is read as one value: the slices are not empty, lie  *)
(* in their parts, and one after the other are just the bytes of the range,*)
(* whatever order the parts were given in (multipart.ts:158-183, 453-538). *)
(* The error for a part that is too small does depend on that order.       *)
(***************************************************************************)
SlicesAreTheRange(parts, minimum, range) ==
  LET sorted == SortedParts(parts)
      slices == PartSlices(sorted, range)
      bytes(number, from, to) == [i \in 1 .. to - from |-> <<number, from + i - 1>>]
      whole == FlattenSeq([i \in 1 .. Len(sorted) |-> bytes(sorted[i].number, 0, sorted[i].size)])
  IN (/\ CompletableParts(parts, minimum)
      /\ range.offset + range.length <= TotalSize(parts)) =>
        /\ \A i \in 1 .. Len(slices) : slices[i].start < slices[i].end
        /\ FlattenSeq([i \in 1 .. Len(slices) |->
                         bytes(slices[i].number, slices[i].start, slices[i].end)])
             = SubSeq(whole, range.offset + 1, range.offset + range.length)

------------------------------------------------------------------------------
ListLimit(options) ==
  LET limit == IF options.limit = None THEN MAX_LIST_KEYS ELSE options.limit
  IN IF options.include # {} /\ limit > MAX_INCLUDE_KEYS THEN MAX_INCLUDE_KEYS ELSE limit

\* Storage lists from startAfter on and so one more key is asked for.  Where
\* startAfter is not the first key that came, all but the last are dropped if
\* the page is full, and an empty page is a TypeError.
AfterStart(startAfter, limit, keys) ==
  IF startAfter = None THEN keys
  ELSE IF keys[1] = startAfter THEN Tail(keys)
  ELSE IF Len(keys) > limit THEN SubSeq(keys, limit + 1, Len(keys)) ELSE keys

Included(object, include) ==
  [object EXCEPT !.http = IF "httpMetadata" \in include THEN @ ELSE {},
                 !.custom = IF "customMetadata" \in include THEN @ ELSE {}]

List(bucket, options) ==
  LET limit == ListLimit(options)
      page == Reads!List([prefix |-> options.prefix, excludePrefix |-> InternalPrefix,
                            start |-> options.startAfter, end |-> None, reverse |-> FALSE,
                            cursor |-> options.cursor, delimiter |-> options.delimiter,
                            limit |-> IF options.startAfter = None THEN limit ELSE limit + 1], DOMAIN bucket)
      keys == AfterStart(options.startAfter, limit, page.keys)
  IN IF options.limit # None /\ (options.limit < 1 \/ options.limit > MAX_LIST_KEYS) THEN Failed(400)
     ELSE IF options.startAfter # None /\ page.keys = <<>> THEN TypeError
     ELSE [kind |-> "objects", keys |-> keys,
           objects |-> [i \in 1 .. Len(keys) |-> Included(bucket[keys[i]], options.include)],
           prefixes |-> page.prefixes, cursor |-> page.cursor, truncated |-> page.cursor # <<>>]

RECURSIVE ListAll(_, _)
ListAll(bucket, options) ==
  LET page == List(bucket, options)
  IN IF page.truncated THEN page.keys \o ListAll(bucket, [options EXCEPT !.cursor = page.cursor])
     ELSE page.keys

(***************************************************************************)
(* Listing while truncated returns every object with the prefix once, in   *)
(* order, whatever the limit and what is included lowers it to, and none   *)
(* of the keys that multipart uploads are stored under (bucket.ts:699-766).*)
(* With startAfter this is so of a first page that has startAfter as its   *)
(* first key; what the code does to other pages is in AfterStart.          *)
(***************************************************************************)
ListsEachOnce(bucket, options) ==
  LET keys == {k \in DOMAIN bucket : /\ options.prefix # None => IsPrefix(options.prefix, k)
                                     /\ ~IsPrefix(InternalPrefix, k)}
      later == {k \in keys : Reads!Less(options.startAfter, k)}
      first == List(bucket, options)
      sort == [reverse |-> FALSE]
  IN IF options.startAfter = None THEN ListAll(bucket, options) = Reads!Sorted(sort, keys)
     ELSE options.startAfter \in keys =>
            /\ first.keys = SubSeq(Reads!Sorted(sort, later), 1, Len(first.keys))
            /\ Len(first.keys) <= ListLimit(options)
            /\ first.truncated <=> Cardinality(later) > Len(first.keys)
==============================================================================
