-------------------------------- MODULE Router --------------------------------
(***************************************************************************)
(* packages/core/src/router.ts: which mount gets a request.                *)
(*                                                                         *)
(* A route is written [target, protocol, hostname, path, query], a URL is  *)
(* [protocol, hostname, path]; the path of a URL includes its query.       *)
(* Hostnames and paths are sequences of characters.                        *)
(***************************************************************************)
EXTENDS Naturals, Sequences, SequencesExt

CONSTANT None

Wildcard == "*"
AnyHostname == <<Wildcard>>

\* A route's text: the wildcards that start a hostname and end a path become
\* flags.  (The decoding of internationalised hostnames is left out.)
Parse(route) ==
  LET prefix == route.hostname # << >> /\ Head(route.hostname) = Wildcard
      suffix == Last(route.path) = Wildcard
  IN  [target |-> route.target, protocol |-> route.protocol,
       allowHostnamePrefix |-> prefix, allowPathSuffix |-> suffix,
       hostname |-> IF prefix THEN Tail(route.hostname) ELSE route.hostname,
       path |-> IF suffix THEN Front(route.path) ELSE route.path]

\* ERR_QUERY_STRING and ERR_INFIX_WILDCARD; the latter is not looked for when
\* the hostname is "*".
Valid(route) ==
  /\ ~route.query
  /\ \/ route.hostname = AnyHostname
     \/ LET r == Parse(route) IN ~Contains(r.hostname, Wildcard) /\ ~Contains(r.path, Wildcard)

Segments(path) == 1 + Len(SelectSeq(path, LAMBDA c : c = "/"))

\* What the comparison looks at, in its order; the smaller is the more specific.
Key(r) ==
  << IF r.protocol # None THEN 0 ELSE 1,
     IF r.allowHostnamePrefix THEN 1 ELSE 0,
     IF r.allowPathSuffix THEN 1 ELSE 0,
     IF Last(r.path) = "/" THEN 1 ELSE 0,
     1000 - Segments(r.path),
     1000 - Len(r.path),
     1000 - Len(r.hostname) >>

Smaller(k, l) == \E i \in DOMAIN k : k[i] < l[i] /\ \A j \in 1 .. i - 1 : k[j] = l[j]

MoreSpecific(r, s) == Smaller(Key(r), Key(s))

\* update(): the routes of all targets, or None for the error it throws.  Sorting
\* is stable.
Update(routes) ==
  IF \A i \in DOMAIN routes : Valid(routes[i])
  THEN LET parsed == [i \in DOMAIN routes |-> Parse(routes[i])]
           Before(i, j) == MoreSpecific(parsed[i], parsed[j]) \/ (Key(parsed[i]) = Key(parsed[j]) /\ i < j)
           place == [i \in DOMAIN routes |-> 1 + Len(SelectSeq([j \in DOMAIN routes |-> j], LAMBDA j : Before(j, i)))]
       IN  [n \in DOMAIN routes |-> parsed[CHOOSE i \in DOMAIN routes : place[i] = n]]
  ELSE None

Matches(r, url) ==
  /\ r.protocol # None => r.protocol = url.protocol
  /\ IF r.allowHostnamePrefix THEN IsSuffix(r.hostname, url.hostname) ELSE url.hostname = r.hostname
  /\ IF r.allowPathSuffix THEN IsPrefix(r.path, url.path) ELSE url.path = r.path

\* match(): the first route that matches.
Match(routes, url) ==
  LET I == {i \in DOMAIN routes : Matches(routes[i], url)}
  IN  IF I = {} THEN None ELSE routes[CHOOSE i \in I : \A j \in I : i <= j].target
=============================================================================
