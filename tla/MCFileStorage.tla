---------------------------- MODULE MCFileStorage ----------------------------
(***************************************************************************)
(* Values for the constants of FileStorage, and the checks of what is      *)
(* built on the storages as functions: listing, ranges, Redis, KV and the  *)
(* cache, each over all inputs of the small sets below.                    *)
(***************************************************************************)
EXTENDS FileStorage, TLC, Integers, SequencesExt

CONSTANTS a, b, c1, c2, v1, v2, NaN, Invalid, AnyEtag

\* b is stored in the directory that the path of a would be
MCAbove == [k \in {a, b} |-> IF k = b THEN {a} ELSE {}]
MCKeys == {a, b}
MCCallers == {c1, c2}
MCValues == {v1, v2}

------------------------------------------------------------------------------
L == INSTANCE StorageReads

\* 0 is the delimiter
ListNames == {<<1>>, <<1, 0, 1>>, <<1, 0, 2>>, <<1, 1>>, <<2, 0, 1>>, <<2>>}
ListOptions ==
  [prefix : {None, <<1>>, <<1, 0>>}, excludePrefix : {None, <<1, 0>>}, start : {None, <<1, 0, 2>>},
   end : {None, <<2>>}, reverse : BOOLEAN, cursor : {<<>>}, limit : {None, 1, 2}, delimiter : {None, 0}]

\* Pages of a list cover every matching key once, for all sets of names.
ASSUME ListsCover ==
  \A options \in ListOptions : \A names \in SUBSET ListNames : L!PagesCoverOnce(options, names)
\* A key added while paginating after the cursor is returned.
ASSUME ListsSeeAdded ==
  \A options \in ListOptions : \A added \in ListNames :
    \A names \in {ListNames, ListNames \ {<<1, 0, 1>>}, {<<1>>, <<2>>}} :
      L!AddedWhilePaging(options, names \ {added}, added)

------------------------------------------------------------------------------
StorageRanges == [offset : {None, -1} \cup 0 .. 4, length : {None} \cup 0 .. 4, suffix : {None} \cup 0 .. 4]
HeaderRanges == [ok : {TRUE}, start : {None} \cup 0 .. 4, end : {None} \cup 0 .. 4]
                  \cup {[ok |-> FALSE, start |-> None, end |-> None]}
Headers == {None, <<>>} \cup {<<r>> : r \in HeaderRanges} \cup {<<r, q>> : r, q \in HeaderRanges}

\* Ranges of storage reads and of requests, on bodies of up to three bytes.
ASSUME RangesAreWithin == \A r \in StorageRanges : \A size \in 0 .. 3 : L!StorageRangeIsWithin(r, size)
ASSUME RangesAreAsked == \A h \in Headers : \A size \in 0 .. 3 : L!PartsAreAsked(h, size)

------------------------------------------------------------------------------
D == INSTANCE RedisStorage

Stored3 == [value : [size : {0, 2}], metadata : {None, 7, 8}, expiration : {None, 0, 1, 2}]
Databases == {D!EmptyDatabase} \cup
             {D!PutMany(D!EmptyDatabase, <<<<<<1>>, s>>, <<<<2>>, s>>>>, 0) : s \in Stored3}

\* Redis: puts over every earlier put are read back and deleted, around the
\* moments they expire.
ASSUME RedisReadsBack ==
  \A db \in Databases : \A s \in Stored3 : \A t \in {0, 500, 1000, 1500} :
    /\ \A later \in {0, 1, 999, 1000, 2500} : D!ReadsBack(db, <<1>>, s, t, t + later)
    /\ D!DeletesBoth(db, {<<1>>, <<3>>}, s, t)

------------------------------------------------------------------------------
K == INSTANCE KVNamespace WITH
       MIN_CACHE_TTL <- 2, MIN_EXPIRATION <- -4, MAX_EXPIRATION <- 9, MAX_LIST_KEYS <- 3,
       MAX_KEY_SIZE <- 2, MAX_VALUE_SIZE <- 3, MAX_METADATA_SIZE <- 3, Dot <- <<0>>, DotDot <- <<0, 0>>

KVTimes == {None, NaN} \cup -5 .. 10
KVPuts == [expiration : KVTimes, expirationTtl : KVTimes, metadata : {None, 1, 4}]
KVValues == [type : {"string", "other"}, size : {0, 3, 4}, json : {TRUE}]
KVNamespaces ==
  {<<>>, [k \in {<<1>>} |-> [value |-> [type |-> "string", size |-> 1, json |-> FALSE],
                             expiration |-> 3, metadata |-> None]]}

\* KV: expirations and times to live on both sides of every limit.
ASSUME KVReads ==
  \A ns \in KVNamespaces : \A v \in KVValues : \A o \in KVPuts : \A t \in 0 .. 2 : \A later \in t .. 6 :
    K!ReadUntilExpired(ns, <<1>>, v, o, t, later)
ASSUME KVTtl == \A ttl \in -5 .. 10 : \A t \in 0 .. 3 : K!TtlIsRelative(ttl, t)
\* Subrequests: every limit up to three.
ASSUME Subrequests == \A limit \in 0 .. 3 : K!LimitIsExact(limit)

------------------------------------------------------------------------------
A == INSTANCE Cache

Request == [method |-> "GET", key |-> "u", site |-> FALSE, ifNoneMatch |-> None,
            ifModifiedSince |-> None, hasRange |-> FALSE, range |-> None]
CachePuts == {Request, [Request EXCEPT !.method = "POST"], [Request EXCEPT !.site = TRUE]}
CacheRequests ==
  [method : {"GET", "POST"}, key : {"u", "w"}, site : {FALSE}, ifNoneMatch : {None, AnyEtag, {1}, {2}},
   ifModifiedSince : {None, Invalid, 1, 3}, hasRange : BOOLEAN,
   range : {<<[ok |-> TRUE, start |-> 1, end |-> None]>>}]
CacheResponses ==
  [status : {200, 206, 302, 503}, webSocket : {FALSE}, varyAny : BOOLEAN, noStore : BOOLEAN,
   maxAge : {None, 0, 2}, setCookie : BOOLEAN, privateSetCookie : BOOLEAN, etag : {None, 1},
   lastModified : {None, 2}, size : {3}]

\* Cache: what a put stores is matched and deleted, around its expiration.
ASSUME CacheHits ==
  \A s \in CacheResponses : \A p \in CachePuts : \A r \in CacheRequests : \A later \in {0, 1999, 2500} :
    A!HitsAreFresh(<<>>, p, s, r, 500, 500 + later)
ASSUME CacheDeletes ==
  \A s \in {s \in CacheResponses : s.status = 200} : \A r \in CacheRequests :
    \A o \in [ignoreMethod : BOOLEAN] : \A later \in {0, 1999, 2500} :
      A!DeleteEndsIt(A!Put(<<>>, Request, s, 500).cache, r, o, 500 + later)

------------------------------------------------------------------------------
Sql == INSTANCE D1Database

Pieces ==
  {<<"w">>, <<";">>, <<" ">>, <<"-">>, <<"'", ";", "'">>, <<"-", "-", ";", "'", "\n">>, <<"/", "*", ";", "'", "*", "/">>,
   <<"$", "w", "$", ";", "$", "w", "$">>, <<Sql!Begin, "w", ";", "w", Sql!End>>}
\* A "-" before a piece that starts with one would make a comment.
Separate(pieces) == \A i \in 1 .. Len(pieces) - 1 : ~(pieces[i] = <<"-">> /\ Head(pieces[i + 1]) = "-")

\* SQL is split at the semicolons that are in no literal, comment, quote or
\* compound statement, and nothing but these and empty statements is lost.  SQL
\* whose only semicolon comes last is left as it is.
ASSUME SplitsStatements ==
  \A pieces \in SeqOf(Pieces, 4) :
    LET sql == FlattenSeq(pieces)
        split == FoldLeft(LAMBDA acc, p : IF p = <<";">> THEN Append(acc, << >>)
                                          ELSE [acc EXCEPT ![Len(acc)] = @ \o p], << << >> >>, pieces)
        statements == SelectSeq(split, LAMBDA str : ~Sql!IsBlank(str))
        got == Sql!SplitSqlQuery(sql)
    IN  Separate(pieces) =>
          \/ got = statements
          \/ got = <<sql>> /\ Len(statements) <= 1

\* The exception: a parameter like $1 takes the semicolon after it along.
ASSUME ParametersHideSemicolons == Sql!SplitSqlQuery(<<"$", "w", ";", "w">>) = << <<"$", "w", ";", "w">> >>

Queries ==
  {[first |-> [kind |-> k, params |-> n, row |-> r], params |-> p] :
     k \in {"insert", "select", "fail"}, n \in 0 .. 1, r \in {"r"}, p \in {<< >>, <<"p">>}}

\* A batch is all done or not at all, and is refused where one of its queries
\* would be.
ASSUME BatchesAreAtomic ==
  \A queries \in SeqOf(Queries, 3) :
    LET sent == Sql!BatchOf(<<"old">>, queries)
        bad == \E i \in DOMAIN queries : queries[i].first.kind = "fail" \/ ~Sql!Bound(queries[i])
        inserts == SelectSeq(queries, LAMBDA q : q.first.kind = "insert")
    IN  IF bad THEN sent.thrown /\ sent.db = <<"old">>
        ELSE /\ ~sent.thrown /\ Len(sent.results) = Len(queries)
             /\ sent.db = <<"old">> \o [i \in DOMAIN inserts |-> inserts[i].first.row]

\* exec() answers for all its lines, but the line it names in an error is always
\* the first one, as the answer to a failed batch is a single error; dump()
\* takes an error for the dump, as errors have the status 200.
ASSUME ErrorsAreVague ==
  /\ \A lines \in SeqOf(Queries, 3) :
       LET done == Sql!Exec(<< >>, lines)
       IN  IF Sql!BatchOf(<< >>, lines).thrown THEN done.line = 1 ELSE done.count = Len(lines)
  /\ ~Sql!Dump(<<"old">>, TRUE).thrown

\* run() does not execute what returns rows, first() and all() do, and see what
\* was inserted before.
ASSUME StatementsRun ==
  \A query \in Queries :
    LET ok == Sql!Bound(query) /\ query.first.kind # "fail"
    IN  /\ Sql!RunOf(<<"old">>, query).thrown <=> ~ok \/ query.first.kind = "select"
        /\ Sql!AllOf(<<"old">>, query).thrown <=> ~ok
        /\ ok => Sql!First(<<"old">>, query).row = IF query.first.kind = "select" THEN "old" ELSE None
==============================================================================
