---------------------------- MODULE MCR2Multipart ----------------------------
(***************************************************************************)
(* Two uploads of one key.  A call is used once; with four, parts of both  *)
(* can be uploaded and both completed, one over the other, or one that was *)
(* uploaded and completed is overwritten or deleted while it is read.      *)
(* What single calls answer is checked on R2Objects, over all inputs of    *)
(* the small sets below.                                                   *)
(***************************************************************************)
EXTENDS R2Multipart, Integers, TLC

CONSTANT Blank

Symmetry == Permutations(Calls) \union Permutations(Uploads)

------------------------------------------------------------------------------
R == INSTANCE R2Objects WITH
       InternalPrefix <- <<9>>, MAX_KEY_SIZE <- 3, MAX_VALUE_SIZE <- 3, MAX_LIST_KEYS <- 3,
       MAX_INCLUDE_KEYS <- 2, HttpFields <- {"contentType"},
       ExpectedBytes <- [md5 |-> 2, sha1 |-> 3]

Obj(etag, size) == [etag |-> etag, uploaded |-> 1, size |-> size, multipart |-> FALSE,
                    http |-> {}, custom |-> {}]
Conditions ==
  [etagMatches : {None, Blank, {"e1"}, {"e2"}, {"e1", "e2"}}, etagDoesNotMatch : {None, Blank, {}, {"e1"}, {"e2"}},
   uploadedBefore : {None, 0, 1, 2}, uploadedAfter : {None, 0, 1, 2}]

\* Every combination of conditions, on dates before, at and after the upload.
ASSUME ConditionsHold == \A c \in Conditions : R!EtagsBeforeDates(c, Obj("e1", 1))

Part(start, end) == <<[ok |-> TRUE, start |-> start, end |-> end]>>
GetRanges ==
  [headers : {FALSE}, header : {None}, offset : {None, -1, 0, 1, 3}, length : {None, 1, 5}, suffix : {None, 1}]
    \cup [headers : {TRUE}, header : {None, <<>>, Part(1, None)}, offset : {None}, length : {None}, suffix : {None}]
PutOptions ==
  [onlyIf : {None} \cup {c \in Conditions : c.uploadedAfter \in {None, 1} /\ c.uploadedBefore = None
                                            /\ c.etagMatches \in {None, {"e1"}, {"e2"}}},
   hashes : [{"md5", "sha1"} -> {None, [bytes |-> 2, of |-> "e1"], [bytes |-> 3, of |-> "e2"]}],
   http : {{"contentType", "other"}}, custom : {{}}]
PutValues == {[md5 |-> "e1", size |-> 0], [md5 |-> "e2", size |-> 2], [md5 |-> "e1", size |-> 4]}
Buckets == {<<>>, [k \in {<<1>>} |-> Obj("e1", 2)], [k \in {<<1>>, <<2>>} |-> Obj("e2", 2)]}

\* Puts that are refused, conditional or accepted, then read by every range.
ASSUME PutsAreGot ==
  \A bucket \in Buckets : \A key \in {<<1>>, <<9, 1>>, <<1, 2, 3>>} : \A value \in PutValues :
    \A options \in PutOptions : \A range \in GetRanges : R!PutThenGet(bucket, key, value, options, range)

Parts == [number : 1 .. 3, size : 1 .. 3]
PartLists == {<<>>} \cup {<<p>> : p \in Parts} \cup {<<p, q>> : p, q \in Parts}
               \cup {<<p, q, r>> : p, q, r \in Parts}
\* Up to three parts of up to three bytes, in every order, and every range.
ASSUME PartsAreRead ==
  \A parts \in PartLists : \A range \in [offset : 0 .. 8, length : 1 .. 9] :
    R!SlicesAreTheRange(parts, 2, range)

Names == {<<1>>, <<1, 1>>, <<1, 2>>, <<2>>, <<3>>, <<9, 1>>}
ListOptions ==
  [prefix : {None, <<1>>}, startAfter : {None, <<1>>, <<2>>, <<1, 1>>}, cursor : {<<>>},
   delimiter : {None}, limit : {None, 1, 2}, include : {{}, {"httpMetadata"}}]
\* Lists of every set of keys, by every limit.
ASSUME ListsAreWhole ==
  \A names \in SUBSET Names : \A options \in ListOptions :
    R!ListsEachOnce([k \in names |-> Obj("e1", 1)], options)

(***************************************************************************)
(* The one key length where the bucket's check and the one of multipart    *)
(* uploads differ: an upload of it can be completed, and the object can    *)
(* then be neither read nor deleted (bucket.ts:155, multipart.ts:84-85).   *)
(***************************************************************************)
ASSUME LongestKeyDiffers ==
  \A n \in 1 .. 5 :
    LET key == [i \in 1 .. n |-> 1]
    IN (R!CreateMultipartUpload(key).kind = "upload" /\ R!HeadObject(<<>>, key).kind = "error") <=> n = 3
==============================================================================
