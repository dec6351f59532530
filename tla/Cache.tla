-------------------------------- MODULE Cache --------------------------------
(***************************************************************************)
(* The Cache API (packages/cache): which responses are stored, for how     *)
(* long, and what a request is answered from them.  Expiry is the          *)
(* storage's: an entry is gone from the second it expires.                 *)
(*                                                                         *)
(* A request has a method, a key (the cacheKey of cf, or the URL), and     *)
(* headers; a response a status, headers and a size.  Headers are          *)
(* fields, None where they are not set; etags and dates are numbers, and   *)
(* the field is Invalid where the text cannot be parsed.  http-cache-      *)
(* semantics is external: Storable and TimeToLive.                         *)
(***************************************************************************)
EXTENDS Integers, Sequences, SequencesExt

CONSTANTS None, Invalid, AnyEtag      \* AnyEtag: If-None-Match: *

LOCAL Reads == INSTANCE StorageReads

TypeError == [kind |-> "TypeError"]

\* External: a shared cache may store it, and for so many milliseconds
Storable(status, response) ==
  /\ ~response.noStore
  /\ status \in {200, 203, 204, 300, 301, 404, 410} \/ response.maxAge # None
TimeToLive(response) == IF response.maxAge = None THEN 0 ELSE response.maxAge * 1000

\* getExpirationTtl(): None for a response that is not cacheable
ExpirationTtl(response) ==
  LET setCookie == response.setCookie /\ ~response.privateSetCookie
      status == IF response.status \in {429, 503} THEN 200 ELSE response.status
  IN IF setCookie \/ ~Storable(status, response) THEN None ELSE TimeToLive(response)

\* put(): the answer, and the cache after it; now is in milliseconds
Put(cache, request, response, now) ==
  LET ttl == ExpirationTtl(response)
      entry == [status |-> response.status, response |-> response,
                expiration |-> (now + ttl) \div 1000]
  IN IF response.webSocket \/ request.method # "GET" \/ response.status = 206 \/ response.varyAny
     THEN [answer |-> TypeError, cache |-> cache]
     ELSE IF request.site \/ ttl = None THEN [answer |-> [kind |-> "undefined"], cache |-> cache]
     ELSE [answer |-> [kind |-> "undefined"],
           cache |-> [k \in DOMAIN cache \cup {request.key} |->
                        IF k = request.key THEN entry ELSE cache[k]]]

Live(cache, key, now) == key \in DOMAIN cache /\ cache[key].expiration > now \div 1000

\* getMatchResponse(): conditions, then ranges.  A list of etags is a set.
NotModified(request, response) ==
  \/ /\ request.ifNoneMatch # None /\ response.etag \notin {None, Invalid}
     /\ request.ifNoneMatch = AnyEtag \/ (request.ifNoneMatch # AnyEtag /\ response.etag \in request.ifNoneMatch)
  \/ /\ request.ifModifiedSince \notin {None, Invalid} /\ response.lastModified \notin {None, Invalid}
     /\ response.lastModified <= request.ifModifiedSince

MatchResponse(request, response) ==
  IF NotModified(request, response) THEN [kind |-> "response", status |-> 304, parts |-> <<>>]
  ELSE IF request.hasRange
  THEN LET ranged == Reads!GetRangeResponse(request.range, response.status, response.size)
       IN [kind |-> "response", status |-> ranged.status, parts |-> ranged.parts]
  ELSE [kind |-> "response", status |-> response.status, parts |-> <<0 .. response.size - 1>>]

Cacheable(request, options) == request.method = "GET" \/ options.ignoreMethod

Match(cache, request, options, now) ==
  IF ~Cacheable(request, options) \/ ~Live(cache, request.key, now) THEN [kind |-> "undefined"]
  ELSE MatchResponse(request, cache[request.key].response)

\* delete(): whether an entry that had not expired was deleted
Delete(cache, request, options, now) ==
  IF ~Cacheable(request, options) THEN [answer |-> FALSE, cache |-> cache]
  ELSE [answer |-> Live(cache, request.key, now),
        cache |-> [k \in DOMAIN cache \ {request.key} |-> cache[k]]]

\* CacheStorage: the default cache is made once; caching may be disabled.
Open(disabled, name, default, maxNameSize) ==
  IF name = default THEN [kind |-> "error"]
  ELSE IF Len(name) > maxNameSize THEN TypeError
  ELSE [kind |-> IF disabled THEN "noop" ELSE "cache", name |-> name]

------------------------------------------------------------------------------
(***************************************************************************)
(* A match answers from what the last accepted put of the key stored: with *)
(* all of its body, the parts a range asks for, or not modified when the   *)
(* request has seen it; not before a put, not once the time to live has    *)
(* passed, and never for a response with a cookie that is not private      *)
(* (cache.ts:60-111, 129-175, 203-296).                                    *)
(***************************************************************************)
HitsAreFresh(cache, put, response, request, now, later) ==
  LET next == Put(cache, put, response, now)
      hit == Match(next.cache, request, [ignoreMethod |-> FALSE], later)
      conditional == request.ifNoneMatch # None \/ request.ifModifiedSince # None
  IN /\ next.answer = TypeError => next.cache = cache
     /\ (hit.kind = "response" /\ request.key \notin DOMAIN cache) =>
          /\ request.key = put.key /\ put.method = "GET" /\ request.method = "GET"
          /\ response.maxAge # None /\ later < now + response.maxAge * 1000
          /\ ~response.noStore /\ (response.setCookie => response.privateSetCookie)
          /\ ~conditional => hit.status # 304
          /\ hit.status = 200 => hit.parts = <<0 .. response.size - 1>>
          /\ hit.status = 206 => request.hasRange

(***************************************************************************)
(* After delete, of an entry that lives or not, nothing matches; delete    *)
(* says that it deleted when a match would have hit (cache.ts:298-316).    *)
(***************************************************************************)
DeleteEndsIt(cache, request, options, now) ==
  LET plain == [request EXCEPT !.ifNoneMatch = None, !.ifModifiedSince = None, !.hasRange = FALSE]
      deleted == Delete(cache, request, options, now)
  IN /\ deleted.answer <=> Match(cache, plain, options, now).kind = "response"
     /\ Cacheable(request, options) => Match(deleted.cache, plain, options, now).kind = "undefined"
==============================================================================
