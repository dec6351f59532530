----------------------------- MODULE HttpMessages -----------------------------
(***************************************************************************)
(* What happens to requests and responses between the network and a        *)
(* worker (packages/http-server/src/index.ts and                           *)
(* packages/core/src/standards/http.ts), and the streams behind their      *)
(* bodies (packages/core/src/standards/streams.ts).                        *)
(*                                                                         *)
(* Headers are a function from names to values.  A value is a text, a      *)
(* number or a sequence of codings.                                        *)
(***************************************************************************)
EXTENDS Integers, Sequences, FiniteSets, SequencesExt

CONSTANT None

Text(text) == <<"text", text>>
Number(n) == <<"number", n>>
Codings(codings) == <<"codings", codings>>

Has(headers, name) == name \in DOMAIN headers
Without(headers, names) == [n \in DOMAIN headers \ names |-> headers[n]]
With(headers, name, value) ==
  [n \in DOMAIN headers \union {name} |-> IF n = name THEN value ELSE headers[n]]
Get(headers, name) == IF Has(headers, name) THEN headers[name] ELSE None

-----------------------------------------------------------------------------
(***************************************************************************)
(* A request comes in.                                                     *)
(***************************************************************************)

\* _headersFromIncomingRequest
HeadersFromIncomingRequest(headers) ==
  Without(headers, {"transfer-encoding", "connection", "keep-alive", "expect"})

\* Headers that are added if the client has not sent them.
Defaults ==
  [n \in {"x-forwarded-proto", "x-real-ip", "cf-connecting-ip", "cf-ipcountry", "cf-ray", "cf-visitor"} |->
     Text("default")]

\* convertNodeRequest
ConvertNodeRequest(req) ==
  LET added == [n \in DOMAIN Defaults \union DOMAIN req.headers |->
                  IF Has(req.headers, n) THEN req.headers[n] ELSE Defaults[n]]
  IN  [method |-> req.method,
       body |-> IF req.method \in {"GET", "HEAD"} THEN None ELSE req.body,
       headers |-> HeadersFromIncomingRequest(With(With(added, "host", Text("url")), "accept-encoding", Text("gzip"))),
       clientAcceptEncoding |-> Get(req.headers, "accept-encoding"),
       redirect |-> "manual"]

\* dispatchFetch: how deep the request is, and what the worker gets.  A loop
\* header that is no number counts as zero.
RequestDepth(headers) ==
  1 + (IF Has(headers, "mf-loop") /\ headers["mf-loop"][1] = "number" THEN headers["mf-loop"][2] ELSE 0)
Dispatched(req) == [req EXCEPT !.headers = Without(@, {"mf-loop"})]

-----------------------------------------------------------------------------
(***************************************************************************)
(* A worker fetches.                                                       *)
(***************************************************************************)

\* createCompatFetch: the protocol that is used, or None for an error.
CompatProtocol(protocol, refusesUnknown) ==
  IF protocol \in {"http", "https"} THEN protocol ELSE IF refusesUnknown THEN None ELSE "http"

MethodsExpectingPayload == {"PUT", "POST", "PATCH"}

\* fetch(): the headers it passes to undici.
FetchHeaders(req, requestDepth) ==
  LET headers == With(Without(req.headers, {"host", "cf-connecting-ip"}), "mf-loop", Number(requestDepth))
  IN  IF req.method \notin MethodsExpectingPayload /\ Get(headers, "content-length") = Number(0)
      THEN Without(headers, {"content-length"}) ELSE headers

\* What undici adds when it is not there.
DefaultHeaders == {"accept", "accept-language", "sec-fetch-mode", "user-agent"}
UndiciHeaders(headers) ==
  [n \in DOMAIN headers \union DefaultHeaders \union {"host"} |->
     IF Has(headers, n) THEN headers[n] ELSE Text("undici")]

\* MiniflareDispatcher removes the default headers that the worker has not set.
MiniflareDispatch(headers, explicit) == Without(headers, DefaultHeaders \ DOMAIN explicit)

\* What the network gets of a request that a worker fetches.
Fetch(req, requestDepth) ==
  LET headers == FetchHeaders(req, requestDepth)
  IN  [req EXCEPT !.headers = MiniflareDispatch(UndiciHeaders(headers), headers)]

-----------------------------------------------------------------------------
(***************************************************************************)
(* Responses                                                               *)
(***************************************************************************)
NullBodyStatus == {101, 204, 205, 304}

\* new Response(body, init) of a worker: None for an error.  A body is None, or
\* the number of bytes it has, and whether that is known: it is not of a stream.
\* The status of a WebSocket's response is kept beside undici's, which is 200.
NewResponse(body, init) ==
  IF \/ init.webSocket # None /\ init.status # 101
     \/ init.webSocket = None /\ init.status \notin 200 .. 599
     \/ init.webSocket = None /\ init.status \in NullBodyStatus /\ body # None /\ body.bytes # 0
     \/ init.encodeBody \notin {None, "automatic", "manual"}
  THEN None
  ELSE [body |-> IF init.status \in NullBodyStatus THEN None ELSE body,
        status |-> init.status,
        webSocket |-> init.webSocket,
        encodeBody |-> IF init.encodeBody = None THEN "automatic" ELSE init.encodeBody,
        headers |-> IF body # None /\ body.expected # None
                    THEN With(init.headers, "content-length", Number(body.expected)) ELSE init.headers]

\* _getBodyLength
BodyLength(response) == IF response.body # None /\ response.body.known THEN response.body.bytes ELSE None

Encoder(coding) ==
  CASE coding \in {"gzip", "x-gzip"} -> "Gzip"
    [] coding \in {"deflate", "x-deflate"} -> "Deflate"
    [] coding = "br" -> "BrotliCompress"
    [] OTHER -> None

\* The encoders of a Content-Encoding, which is a sequence of codings: none if
\* the worker has encoded the body or a coding is unknown.
Encoders(response) ==
  LET codings == IF Has(response.headers, "content-encoding") THEN response.headers["content-encoding"][2]
                 ELSE << >>
      encoders == [i \in DOMAIN codings |-> Encoder(codings[i])]
  IN  IF response.encodeBody # "automatic" \/ Contains(encoders, None) THEN << >> ELSE encoders

LiveReloads(response, liveReload) ==
  liveReload /\ response.encodeBody = "automatic" /\ Get(response.headers, "content-type") = Text("text/html")

LiveReloadScriptLength == 100

\* writeResponse: the headers, and the bytes that go through the encoders.
WriteResponse(response, liveReload) ==
  LET length == IF BodyLength(response) # None THEN BodyLength(response)
                ELSE IF Has(response.headers, "content-length") THEN response.headers["content-length"][2]
                ELSE None
      reloads == LiveReloads(response, liveReload)
      others == Without(response.headers, {"content-length"})
  IN  [status |-> response.status,
       headers |-> IF length = None THEN others
                   ELSE IF reloads THEN With(others, "content-length", Number(length + LiveReloadScriptLength))
                   ELSE IF Encoders(response) # << >> THEN others
                   ELSE With(others, "content-length", Number(length)),
       encoders |-> Encoders(response),
       bytes |-> IF response.body = None THEN 0
                 ELSE response.body.bytes + (IF reloads THEN LiveReloadScriptLength ELSE 0)]

-----------------------------------------------------------------------------
(***************************************************************************)
(* Bodies and streams: class Body, Request and clone().  A stream is the   *)
(* sequence of chunks that is still to be read from it and how it ends.  A *)
(* chunk is a sequence of bytes, or a value that is none and either truthy *)
(* or falsy.                                                               *)
(***************************************************************************)
Buffer(bytes) == [kind |-> "buffer", bytes |-> bytes]
Other(truthy) == [kind |-> "other", truthy |-> truthy]
IsBuffer(chunk) == chunk.kind = "buffer"
IsEmptyBuffer(chunk) == IsBuffer(chunk) /\ chunk.bytes = << >>

\* A stream's bytes: those of its chunks one after the other.
Contents(stream) == FlattenSeq([i \in DOMAIN stream.chunks |-> stream.chunks[i].bytes])

Stream(chunks) ==
  [chunks |-> chunks, end |-> "closed", byteStream |-> FALSE, branded |-> FALSE, contentLength |-> None]

-----------------------------------------------------------------------------
\* convertToByteStream, convertToRegularStream: without the empty chunks, which
\* a reader that brings its own buffer would take for the end.
NonEmpty(chunks) == SelectSeq(chunks, LAMBDA c : ~IsEmptyBuffer(c))
ConvertToByteStream(stream) == [Stream(NonEmpty(stream.chunks)) EXCEPT !.byteStream = TRUE, !.end = stream.end]
ConvertToRegularStream(stream) == [Stream(NonEmpty(stream.chunks)) EXCEPT !.end = stream.end]

\* What a body's pull() makes of the chunks: a truthy value that is no buffer is
\* an error, a falsy one delivers nothing, and pull() is not called again.
Pulled(stream) ==
  FoldLeft(LAMBDA acc, c :
             IF acc.end # "open" \/ IsEmptyBuffer(c) THEN acc
             ELSE IF IsBuffer(c) THEN [acc EXCEPT !.chunks = Append(@, c)]
             ELSE [acc EXCEPT !.end = IF c.truthy THEN "errored" ELSE "stalled"],
           [chunks |-> << >>, end |-> "open"], stream.chunks)

\* Body.body: the stream itself when it is one of bytes and the body is not
\* input gated, and one made for the body otherwise, which knows its length.
BodyStream(body) ==
  IF body.inner = None THEN None
  ELSE IF ~body.inputGated /\ body.inner.byteStream THEN body.inner
  ELSE LET pulled == Pulled(body.inner)
       IN  [chunks |-> pulled.chunks,
            end |-> IF pulled.end = "open" THEN body.inner.end ELSE pulled.end,
            byteStream |-> TRUE, branded |-> TRUE,
            contentLength |-> body.contentLength]

\* ReadableStream.tee() as it is replaced: both sides of a byte stream are byte
\* streams, and both know what the stream knew.
Tee(stream) ==
  LET side == IF stream.byteStream THEN ConvertToByteStream(stream) ELSE stream
  IN  [side EXCEPT !.branded = stream.branded, !.contentLength = stream.contentLength]

-----------------------------------------------------------------------------
\* new Request(input, init) where input is a request: a copy whose headers can
\* be changed; a stream of bytes is turned into a regular one, but its length,
\* if it has one, is kept as a header.
NewRequest(input, init) ==
  LET given == init # None /\ init.body # None
      body == IF ~given THEN input.inner
              ELSE IF init.body.byteStream THEN ConvertToRegularStream(init.body) ELSE init.body
  IN  [inner |-> body,
       contentLength |-> IF given /\ init.body.contentLength # None THEN init.body.contentLength
                         ELSE IF init # None /\ init.headers # None THEN init.headers ELSE input.contentLength,
       cf |-> IF init # None /\ init.cf # None THEN init.cf ELSE input.cf,
       inputGated |-> FALSE, files |-> TRUE, cloned |-> FALSE, immutable |-> FALSE]

\* Request.clone(): the request and its clone afterwards.
CloneRequest(request) ==
  LET side == [request EXCEPT !.inner = IF @ = None THEN None ELSE Tee(@), !.cloned = TRUE]
  IN  [this |-> side, clone |-> side]

\* Response.clone(): not of the handshake of a WebSocket.  The clone of an
\* immutable response can be changed.
CloneResponse(response) ==
  IF response.webSocket # None THEN None
  ELSE LET side == [response EXCEPT !.inner = IF @ = None THEN None ELSE Tee(@), !.cloned = TRUE]
       IN  [this |-> side, clone |-> [side EXCEPT !.immutable = FALSE]]

WithInputGating(body) == [body EXCEPT !.inputGated = TRUE]
WithStringFormDataFiles(body) == [body EXCEPT !.files = FALSE]
WithImmutableHeaders(body) == [body EXCEPT !.immutable = TRUE]

\* The two sides of a clone share their chunks.  Putting a chunk into a byte
\* stream detaches its buffer, and the other side finds it empty, unless it was
\* copied.  A schedule says whose pull() is next.
ReadBoth(chunks, copies, schedule) ==
  FoldLeft(LAMBDA acc, side :
             LET left == {i \in DOMAIN chunks : i >= acc.next[side] /\ i \notin acc.detached /\ ~IsEmptyBuffer(chunks[i])}
                 i == CHOOSE i \in left : \A j \in left : i <= j
             IN  IF left = {} THEN acc
                 ELSE [next |-> [acc.next EXCEPT ![side] = i + 1],
                       got |-> [acc.got EXCEPT ![side] = @ \o chunks[i].bytes],
                       detached |-> IF copies THEN {} ELSE acc.detached \union {i}],
           [next |-> [side \in {"this", "clone"} |-> 1],
            got |-> [side \in {"this", "clone"} |-> << >>],
            detached |-> {}],
           schedule)

-----------------------------------------------------------------------------
\* FixedLengthStream: what is written to it, and then closed.
FixedLength(expected, chunks) ==
  LET written == FoldLeft(LAMBDA acc, c :
                   IF acc.end # "open" THEN acc
                   ELSE IF ~IsBuffer(c) \/ acc.bytes + Len(c.bytes) > expected THEN [acc EXCEPT !.end = "errored"]
                   ELSE [acc EXCEPT !.bytes = @ + Len(c.bytes), !.chunks = Append(@, c)],
                   [bytes |-> 0, chunks |-> << >>, end |-> "open"], chunks)
      end == IF written.end = "open" /\ written.bytes = expected THEN "closed" ELSE "errored"
  IN  [ConvertToByteStream([Stream(written.chunks) EXCEPT !.end = end]) EXCEPT !.contentLength = expected]

\* readAtLeast(bytes, view) of a view of the given size, where reads is what
\* each read() finds there, 0 for the end.
ReadAtLeast(bytes, size, reads) ==
  IF bytes <= 0 \/ size <= 0 \/ bytes > size THEN [kind |-> "TypeError"]
  ELSE FoldLeft(LAMBDA acc, found :
                  IF acc.ended \/ acc.read >= bytes THEN acc
                  ELSE IF found = 0 THEN [acc EXCEPT !.ended = TRUE, !.done = acc.read = 0]
                  ELSE [acc EXCEPT !.read = @ + (IF found > size - @ THEN size - @ ELSE found), !.reads = @ + 1],
                [kind |-> "read", read |-> 0, done |-> FALSE, ended |-> FALSE, reads |-> 0], reads)

-----------------------------------------------------------------------------
\* Bytes that n characters of base 64 stand for.
Decoded(n) == (6 * n) \div 8

\* formData(): a file's chunks are decoded one by one; without
\* formdata_parser_supports_files its contents become a text.
FormEntry(entry, files) ==
  IF entry.kind = "field" THEN entry
  ELSE [kind |-> IF files THEN "file" ELSE "field", name |-> entry.name,
        size |-> FoldLeft(LAMBDA n, chunk : n + (IF entry.base64 THEN Decoded(chunk) ELSE chunk), 0, entry.chunks)]
FormData(body, contentType, entries) ==
  IF contentType = None THEN [kind |-> "TypeError"]
  ELSE [kind |-> "form", entries |-> [i \in DOMAIN entries |-> FormEntry(entries[i], body.files)]]
=============================================================================
