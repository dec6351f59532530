--------------------------- MODULE MCWorkerDispatch ---------------------------
(***************************************************************************)
(* Limits of two and two allow four nested calls; the fifth is too deep.   *)
(* The checks of the router and of messages are assumptions over all       *)
(* routes, requests and responses of a small size.                         *)
(***************************************************************************)
EXTENDS WorkerDispatch, SequencesExt

R == INSTANCE Router
H == INSTANCE HttpMessages

MCCalls == 1 .. 5
MCPromises == 1 .. 2
MCWaiters == {1}

-----------------------------------------------------------------------------
Hostnames == {<<"a">>, <<"b", ".", "a">>, <<".", "a">>, << >>}
Paths == {<<"/">>, <<"/", "a">>, <<"/", "a", "/">>, <<"/", "a", "b">>, <<"/", "a", "/", "b">>}

Routes ==
  {[target |-> t, protocol |-> p, hostname |-> w \o h, path |-> q \o s, query |-> FALSE] :
     t \in {"worker"}, p \in {None, "https"}, w \in {<< >>, <<"*">>}, h \in Hostnames \ {<< >>},
     q \in Paths, s \in {<< >>, <<"*">>}}
  \union
  {[target |-> "worker", protocol |-> p, hostname |-> <<"*">>, path |-> q \o s, query |-> FALSE] :
     p \in {None, "https"}, q \in Paths, s \in {<< >>, <<"*">>}}

Urls == [protocol : {"http", "https"}, hostname : {<<"a">>, <<"b", ".", "a">>, <<"a", "a">>, <<"c">>, <<".", "a">>,
                                                   <<"c", ".", "a">>, <<"b", "b", ".", "a">>},
         path : Paths \union {<<"/", "b">>, <<"/", "a", "c">>, <<"/", "a", "b", "c">>, <<"/", "a", "/", "c">>,
                              <<"/", "a", "/", "b", "c">>, <<"/", "c", "/">>}]

\* "Sort with highest specificity first": a route that matches a part of what
\* another one matches comes before it, so that no route is hidden by a wider
\* one.  The known issue of the Workers platform the code refers to is the
\* exception: a path that ends with a slash comes late.
ASSUME NoRouteHidden ==
  LET parsed == {R!Parse(r) : r \in Routes}
      urls == [r \in parsed |-> {u \in Urls : R!Matches(r, u)}]
  IN  \A r \in parsed : \A s \in parsed :
        /\ urls[r] # urls[s] /\ urls[r] \subseteq urls[s]
        /\ Last(r.path) = "/" => Last(s.path) = "/"
        => R!MoreSpecific(r, s)

\* A request goes to a route that matches it if there is one, and to the most
\* specific of those, in whatever order the routes are given.
ASSUME MostSpecificMatches ==
  LET few == {r \in Routes : r.protocol = None /\ Len(r.path) <= 3 /\ Len(r.hostname) <= 2}
  IN  \A r \in few : \A s \in few : \A u \in {v \in Urls : v.protocol = "http" /\ Len(v.hostname) <= 2} :
        LET one == [r EXCEPT !.target = "one"]
            two == [s EXCEPT !.target = "two"]
            matched == {x \in {one, two} : R!Matches(R!Parse(x), u)}
            got == R!Match(R!Update(<<one, two>>), u)
        IN  IF matched = {} THEN got = None
            ELSE \E x \in matched : /\ got = x.target
                                     /\ \A y \in matched : ~R!MoreSpecific(R!Parse(y), R!Parse(x))

-----------------------------------------------------------------------------
SomeHeaders == {"mf-loop", "host", "content-length", "accept", "cf-connecting-ip", "accept-encoding", "expect"}
HeaderSets == UNION {[S -> {H!Number(0), H!Number(7), H!Text("set")}] : S \in {T \in SUBSET SomeHeaders : Cardinality(T) <= 3}}
Requests == [method : {"GET", "POST"}, body : {None, "body"}, headers : HeaderSets]

\* Whatever loop header a worker sets, a request that it fetches from its own
\* server is one deeper than itself, and the worker that gets it does not see
\* the header ("Hide the loop header from the user").
ASSUME LoopsAreCounted ==
  \A req \in Requests : \A depth \in 1 .. 3 :
    LET got == H!ConvertNodeRequest(H!Fetch(req, depth))
    IN  H!RequestDepth(got.headers) = depth + 1 /\ ~H!Has(H!Dispatched(got).headers, "mf-loop")

\* A worker's headers arrive, and no default header of undici does.
ASSUME HeadersArrive ==
  \A req \in Requests :
    LET sent == H!Fetch(req, 1).headers
    IN  /\ \A n \in DOMAIN sent : sent[n] # H!Text("undici") \/ n = "host"
        /\ \A n \in {"accept", "accept-encoding", "expect"} : H!Get(sent, n) = H!Get(req.headers, n)
        /\ req.method = "POST" => H!Get(sent, "content-length") = H!Get(req.headers, "content-length")

Bodies == {None} \union [bytes : {0, 10}, known : BOOLEAN, expected : {None, 10}]
Responses ==
  {H!NewResponse(b, [status |-> s, webSocket |-> None, encodeBody |-> e, headers |-> h]) :
     b \in {x \in Bodies : x = None \/ (x.expected # None => ~x.known /\ x.bytes = 10)},
     s \in {200, 204, 500}, e \in {None, "automatic", "manual"},
     h \in UNION {[S -> {H!Codings(<<"gzip">>)}] : S \in SUBSET {"content-encoding"}}
           \union {[n \in {"content-encoding", "content-type"} |->
                      IF n = "content-type" THEN H!Text("text/html") ELSE H!Codings(codings)] :
                     codings \in {<<"gzip", "br">>, <<"lzma">>, << >>}}}
  \ {None}

LengthIsRight(response, liveReload) ==
  LET out == H!WriteResponse(response, liveReload)
  IN  H!Has(out.headers, "content-length") => out.headers["content-length"] = H!Number(out.bytes) /\ out.encoders = << >>

\* The length in the head is that of what follows, but for one case: a response
\* of a known length that is encoded and gets the live reload script.  There
\* the length of what is not encoded, "wrong as it's for the decoded length",
\* is taken out of the head and put in again.
ASSUME LengthIsRightExcept ==
  \A response \in Responses : \A liveReload \in BOOLEAN :
    LengthIsRight(response, liveReload) <=>
      ~(/\ H!LiveReloads(response, liveReload) /\ H!Encoders(response) # << >>
        /\ H!BodyLength(response) # None \/ H!Has(response.headers, "content-length"))

-----------------------------------------------------------------------------
SomeChunks == {H!Buffer(<< >>), H!Buffer(<<1>>), H!Buffer(<<2, 3>>), H!Other(TRUE), H!Other(FALSE)}
Buffers == {c \in SomeChunks : H!IsBuffer(c)}
Streams ==
  {[H!Stream(chunks) EXCEPT !.byteStream = byteStream, !.contentLength = length] :
     chunks \in SeqOf(Buffers, 4), byteStream \in BOOLEAN, length \in {None, 5}}
Body(stream, gated) ==
  [inner |-> stream, contentLength |-> None, cf |-> "cf", inputGated |-> gated, files |-> TRUE, cloned |-> FALSE,
   immutable |-> TRUE]

\* A body delivers all bytes of the stream it was made of, and no empty chunk
\* where it made a stream of its own, whether it is gated, cloned, teed or put
\* into another request; a body of a known length keeps it.
ASSUME BodiesAreWhole ==
  \A stream \in Streams : \A gated \in BOOLEAN :
    LET body == Body(stream, gated)
        read == H!BodyStream(body)
        sides == H!CloneRequest(body)
        passed == H!NewRequest(body, [body |-> stream, headers |-> None, cf |-> None])
    IN  /\ H!Contents(read) = H!Contents(stream) /\ read.byteStream /\ read.end = "closed"
        /\ (gated \/ ~stream.byteStream) => \A i \in DOMAIN read.chunks : ~H!IsEmptyBuffer(read.chunks[i])
        /\ \A side \in {sides.this, sides.clone, passed} : H!Contents(H!BodyStream(side)) = H!Contents(stream)
        /\ sides.clone.inner.contentLength = stream.contentLength
        /\ stream.contentLength # None => H!BodyStream(passed).contentLength = stream.contentLength
        /\ sides.clone.immutable /\ ~passed.immutable

\* A body with a chunk that is no buffer delivers what is before it.  If the
\* chunk is falsy the reader is left waiting.
ASSUME BadChunksEndBodies ==
  \A chunks \in SeqOf(SomeChunks, 4) :
    LET read == H!BodyStream(Body(H!Stream(chunks), TRUE))
        bad == {i \in DOMAIN chunks : ~H!IsBuffer(chunks[i])}
    IN  IF bad = {} THEN read.end = "closed"
        ELSE LET first == CHOOSE i \in bad : \A j \in bad : i <= j
             IN  /\ H!Contents(read) = H!Contents(H!Stream(SubSeq(chunks, 1, first - 1)))
                 /\ read.end = IF chunks[first].truthy THEN "errored" ELSE "stalled"

\* Both sides of a clone get all chunks, in whatever order they are read, as
\* chunks are copied; without the copies only one of them would.
ASSUME ClonesAreWhole ==
  \A chunks \in SeqOf(Buffers, 3) : \A schedule \in [1 .. 6 -> {"this", "clone"}] :
    LET all == H!Contents(H!Stream(chunks))
        got(copies) == H!ReadBoth(chunks, copies, schedule).got
    IN  \A side \in {"this", "clone"} :
          Len(SelectSeq(schedule, LAMBDA s : s = side)) >= Len(chunks) =>
            got(TRUE)[side] = all /\ (all # << >> => got(FALSE)["this"] # all \/ got(FALSE)["clone"] # all)

\* A FixedLengthStream never lets more bytes through than were announced as its
\* length, and ends well with exactly as many.
ASSUME LengthsAreKept ==
  \A expected \in 0 .. 5 : \A chunks \in SeqOf(Buffers, 4) :
    LET out == H!FixedLength(expected, chunks)
        written == H!Contents(H!Stream(chunks))
    IN  /\ IsPrefix(H!Contents(out), written) /\ Len(H!Contents(out)) <= expected
        /\ out.end = "closed" <=> Len(written) = expected
        /\ H!NewRequest(Body(None, FALSE), [body |-> out, headers |-> None, cf |-> None]).contentLength = expected

\* readAtLeast returns as many bytes as it is asked for or all there are, never
\* more than the view holds, and says done only with none.
ASSUME ReadsEnough ==
  \A bytes \in 1 .. 4 : \A size \in bytes .. 5 : \A reads \in SeqOf(1 .. 3, 4) :
    LET got == H!ReadAtLeast(bytes, size, Append(reads, 0))
        there == FoldLeft(LAMBDA n, m : n + m, 0, reads)
    IN  /\ got.read <= size /\ (got.read >= bytes \/ got.read = there)
        /\ got.done <=> reads = << >>

\* A file in base 64 has the size of what is encoded if it arrives in pieces of
\* whole groups of four characters; the pieces the parser hands out need not be.
ASSUME FilesAreWhole ==
  \A chunks \in SeqOf({4, 8, 12}, 3) : \A files \in BOOLEAN :
    LET form == H!FormData([Body(None, FALSE) EXCEPT !.files = files], "multipart/form-data",
                           <<[kind |-> "upload", name |-> "f", base64 |-> TRUE, chunks |-> chunks]>>)
    IN  /\ form.entries[1].size = H!Decoded(FoldLeft(LAMBDA n, m : n + m, 0, chunks))
        /\ form.entries[1].kind = IF files THEN "file" ELSE "field"
=============================================================================
