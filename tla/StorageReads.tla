----------------------------- MODULE StorageReads -----------------------------
(***************************************************************************)
(* Lists of keys and ranges of bytes, as every storage does them.          *)
(*                                                                         *)
(* Listing (packages/storage-memory/src/helpers.ts): filter, sort,         *)
(* continue after a cursor, fold the keys below a delimiter into prefixes, *)
(* and stop at a limit.  A name is a sequence of numbers, the code units   *)
(* of the string, and an option that is not given is None.  Cursors are    *)
(* base64 of a name in the code; here they are the name.                   *)
(*                                                                         *)
(* Ranges: that of a storage read (packages/shared/src/storage.ts), the    *)
(* Range header of a request and the response it gets from the cache and   *)
(* from static files (packages/core/src/standards/range.ts).  A body of    *)
(* some size is the bytes 0 .. size - 1.  A Range header is None when its  *)
(* unit is not bytes, or the sequence of its ranges, each with a start and *)
(* an end that may be None and with ok FALSE where the text is no range.   *)
(***************************************************************************)
EXTENDS Integers, Sequences, SequencesExt, FiniteSets

CONSTANT None

\* x comes before y: at the first difference, or as a proper prefix
Less(x, y) ==
  \/ IsStrictPrefix(x, y)
  \/ \E i \in 1 .. Len(x) : /\ i <= Len(y) /\ x[i] < y[i]
                            /\ SubSeq(x, 1, i - 1) = SubSeq(y, 1, i - 1)

ListFilterMatch(options, name) ==
  /\ options.prefix # None => IsPrefix(options.prefix, name)
  /\ options.excludePrefix # None => ~IsPrefix(options.excludePrefix, name)
  /\ options.start # None => ~Less(name, options.start)
  /\ options.end # None => Less(name, options.end)

Sorted(options, names) ==
  SetToSortSeq(names, LAMBDA x, y : IF options.reverse THEN Less(y, x) ELSE Less(x, y))

Prefix(options) == IF options.prefix = None THEN <<>> ELSE options.prefix

\* The positions after the prefix where the delimiter is in the name.
Delimiters(options, name) ==
  IF options.delimiter = None \/ ~IsPrefix(Prefix(options), name) THEN {}
  ELSE {i \in Len(Prefix(options)) + 1 .. Len(name) : name[i] = options.delimiter}

\* The first position after the cursor, past the end if it is no key.
AfterCursor(options, keys) ==
  IF options.cursor = <<>> THEN 1
  ELSE IF Contains(keys, options.cursor) THEN 1 + CHOOSE i \in 1 .. Len(keys) : keys[i] = options.cursor
  ELSE Len(keys) + 2

\* Goes through the keys from i; last is the last one taken.
RECURSIVE Take(_, _, _, _, _, _)
Take(options, keys, i, last, taken, prefixes) ==
  LET name == keys[i]
      at == Delimiters(options, name)
      delimited == SubSeq(name, 1, CHOOSE p \in at : \A q \in at : p <= q)
      \* all keys of the delimited prefix are taken at once
      end == CHOOSE j \in i .. Len(keys) :
               /\ \A l \in i .. j : IsPrefix(delimited, keys[l])
               /\ j < Len(keys) => ~IsPrefix(delimited, keys[j + 1])
      next == IF at = {} THEN [i |-> i, taken |-> Append(taken, name), prefixes |-> prefixes]
              ELSE [i |-> end, taken |-> taken, prefixes |-> prefixes \cup {delimited}]
      full == options.limit # None /\ Len(next.taken) + Cardinality(next.prefixes) >= options.limit
  IN IF i > Len(keys) THEN [last |-> last, keys |-> taken, prefixes |-> prefixes]
     ELSE IF full THEN [last |-> next.i, keys |-> next.taken, prefixes |-> next.prefixes]
     ELSE Take(options, keys, next.i + 1, next.i, next.taken, next.prefixes)

ListPaginate(options, names) ==
  LET keys == Sorted(options, names)
      from == AfterCursor(options, keys)
      page == Take(options, keys, from, from, <<>>, {})
  IN [keys |-> page.keys, prefixes |-> page.prefixes,
      cursor |-> IF page.last < Len(keys) THEN keys[page.last] ELSE <<>>]

List(options, names) ==
  ListPaginate(options, {n \in names : ListFilterMatch(options, n)})

------------------------------------------------------------------------------
\* All pages of a list, each from the cursor of the page before.
RECURSIVE Pages(_, _)
Pages(options, names) ==
  LET page == List(options, names)
  IN IF page.cursor = <<>> THEN <<page>>
     ELSE <<page>> \o Pages([options EXCEPT !.cursor = page.cursor], names)

(***************************************************************************)
(* Following the cursors to the end returns each matching key exactly      *)
(* once, in order: itself, or, when the delimiter comes after the prefix,  *)
(* by its delimited prefix, which is in one page alone                     *)
(* (helpers.ts:29-103).  No page is longer than the limit.                 *)
(***************************************************************************)
PagesCoverOnce(options, names) ==
  LET pages == Pages(options, names)
      matching == {n \in names : ListFilterMatch(options, n)}
      plain == {n \in matching : Delimiters(options, n) = {}}
      folded == matching \ plain
  IN /\ FlattenSeq([i \in 1 .. Len(pages) |-> pages[i].keys]) = Sorted(options, plain)
     /\ \A n \in folded : \E i \in 1 .. Len(pages) : \E p \in pages[i].prefixes : IsPrefix(p, n)
     /\ \A i, j \in 1 .. Len(pages) : i # j => pages[i].prefixes \cap pages[j].prefixes = {}
     /\ \A i \in 1 .. Len(pages) : \A p \in pages[i].prefixes : \E n \in folded : IsPrefix(p, n)
     /\ options.limit # None =>
          \A i \in 1 .. Len(pages) : Len(pages[i].keys) + Cardinality(pages[i].prefixes) <= options.limit

(***************************************************************************)
(* A key put between two pages that sorts after the cursor is in a later   *)
(* page: what storage.ts:86-92 says of keys that are added while a list is *)
(* paginated.                                                              *)
(***************************************************************************)
AddedWhilePaging(options, names, added) ==
  LET first == List(options, names)
      rest == Pages([options EXCEPT !.cursor = first.cursor], names \cup {added})
  IN (/\ first.cursor # <<>> /\ ListFilterMatch(options, added) /\ added \notin names
      /\ Delimiters(options, added) = {}
      /\ IF options.reverse THEN Less(added, first.cursor) ELSE Less(first.cursor, added))
     => \E i \in 1 .. Len(rest) : Contains(rest[i].keys, added)

------------------------------------------------------------------------------
Bytes(range) == range.offset .. range.offset + range.length - 1

\* parseRange(): None where it throws
ParseRange(range, size) ==
  LET suffix == IF range.suffix = None \/ range.suffix <= size THEN range.suffix ELSE size
      offset == IF suffix # None THEN size - suffix ELSE IF range.offset = None THEN 0 ELSE range.offset
      length == IF suffix # None \/ range.length = None THEN size - offset ELSE range.length
  IN IF (suffix # None /\ suffix <= 0) \/ offset < 0 \/ offset > size \/ length <= 0 THEN None
     ELSE [offset |-> offset, length |-> IF offset + length > size THEN size - offset ELSE length]

(***************************************************************************)
(* A storage range that is accepted lies in the value, and is what was     *)
(* asked for as far as the value reaches; only an offset at the very end   *)
(* gives no bytes (shared/src/storage.ts:44-68).                           *)
(***************************************************************************)
StorageRangeIsWithin(range, size) ==
  LET parsed == ParseRange(range, size)
      asked(b) == IF range.suffix # None THEN b >= size - range.suffix
                  ELSE /\ range.offset # None => b >= range.offset
                       /\ range.length # None => b < range.length + (IF range.offset = None THEN 0 ELSE range.offset)
  IN parsed # None =>
       /\ Bytes(parsed) = {b \in 0 .. size - 1 : asked(b)}
       /\ parsed.length = 0 => parsed.offset = size

------------------------------------------------------------------------------
\* One range of a header: its bytes, or that it cannot be satisfied, or that
\* all of the body is meant, or that it is empty.
Unsatisfiable == [kind |-> "unsatisfiable"]
Entire == [kind |-> "entire"]
Nothing == [kind |-> "nothing"]
Part(start, end) == [kind |-> "part", start |-> start, end |-> end]

ParseOne(r, size) ==
  IF ~r.ok \/ (r.start = None /\ r.end = None) THEN Unsatisfiable
  ELSE IF r.start = None THEN
    IF r.end >= size THEN Entire
    ELSE IF r.end = 0 THEN Nothing ELSE Part(size - r.end, size - 1)
  ELSE IF r.start >= size \/ (r.end # None /\ r.start > r.end) THEN Unsatisfiable
  ELSE Part(r.start, IF r.end = None \/ r.end >= size THEN size - 1 ELSE r.end)

\* parseRanges(): the first range that decides for the whole header does so.
ParseRanges(header, size) ==
  LET parsed == [i \in 1 .. Len(header) |-> ParseOne(header[i], size)]
      final == {i \in 1 .. Len(header) : parsed[i] \in {Unsatisfiable, Entire}}
      first == CHOOSE i \in final : \A j \in final : i <= j
  IN IF header = None THEN None
     ELSE IF final = {} THEN SelectSeq(parsed, LAMBDA p : p.kind = "part")
     ELSE IF parsed[first] = Entire THEN <<>> ELSE None

\* getRangeResponse(): the status, and the bytes of each part of the body
GetRangeResponse(header, status, size) ==
  LET ranges == IF header = None THEN None ELSE ParseRanges(header, size)
  IN IF ranges = None THEN [status |-> 416, type |-> "none", parts |-> <<>>]
     ELSE IF ranges = <<>> THEN [status |-> status, type |-> "entire", parts |-> <<0 .. size - 1>>]
     ELSE [status |-> 206, type |-> IF Len(ranges) = 1 THEN "single" ELSE "multipart",
           parts |-> [i \in 1 .. Len(ranges) |-> ranges[i].start .. ranges[i].end]]

(***************************************************************************)
(* A partial response holds, for every range of the header in turn, the    *)
(* bytes of that range that the body has, and never an empty part; a range *)
(* that starts after the body makes the request unsatisfiable, unless a    *)
(* suffix as long as the body came before it (range.ts:28-133).            *)
(***************************************************************************)
PartsAreAsked(header, size) ==
  LET response == GetRangeResponse(header, 200, size)
      asked(r) == IF r.start = None THEN {b \in 0 .. size - 1 : b >= size - r.end}
                  ELSE {b \in 0 .. size - 1 : b >= r.start /\ (r.end # None => b <= r.end)}
      some == IF header = None THEN <<>> ELSE SelectSeq(header, LAMBDA r : r.start # None \/ r.end # 0)
  IN /\ response.status = 206 =>
          /\ response.parts = [i \in 1 .. Len(some) |-> asked(some[i])]
          /\ \A i \in 1 .. Len(response.parts) : response.parts[i] # {}
     /\ response.status = 416 => \/ header = None
                                 \/ \E i \in 1 .. Len(header) :
                                      ~header[i].ok \/ (header[i].start = None /\ header[i].end = None)
                                        \/ (header[i].start # None /\ asked(header[i]) = {})
==============================================================================
