----------------------------- MODULE R2Multipart -----------------------------
(***************************************************************************)
(* packages/r2/src/multipart.ts and bucket.ts: one key of an R2 bucket and *)
(* its multipart uploads.  A completed object holds pointers to the parts  *)
(* of its upload, which are keys of their own in the same storage; what    *)
(* replaces or removes it deletes them.                                    *)
(*                                                                         *)
(* Nothing locks the storage: calls interleave at every await.  A step is  *)
(* one operation of the storage on one key (putMany and deleteMany start   *)
(* one per key), or a list.  Calls that fail before they change anything,  *)
(* for their arguments or the state of the upload, are left out.           *)
(***************************************************************************)
EXTENDS Naturals, Sequences, FiniteSets, Nothing

CONSTANTS
  Calls,        \* invocations; each runs once
  Uploads,      \* upload ids
  PartNumbers,
  Kinds,        \* the operations called
  Absent        \* no value

ASSUME PartNumbersOrdered == PartNumbers \subseteq Nat \ {0}

\* What a value points to: parts of an upload, of none if it is not multipart.
Pointers == [upload : Uploads \union {None}, numbers : SUBSET PartNumbers]
States == {"pending", "aborted", "completed"}

ASSUME AbsentIsNoValue == Absent \notin Calls /\ Absent \notin States /\ Absent \notin Pointers
ASSUME NoneIsNoUpload == None \notin Uploads

VARIABLES
  object,     \* what the key holds: Absent, or the parts it points to, of
              \*   upload None if the value is not multipart
  index,      \* the index key of every upload: Absent or its state
  part,       \* the part keys: Absent, or the call that put it (its etag)
  pc, kind,   \* where each call is, and what it is
  upload,     \* the upload it is called on
  uses,       \* complete: the part numbers of uploadedParts; uploadPart: its own
  etags,      \* complete: the etags of uploadedParts
  todo,       \* part numbers that it has still to read or delete
  existing,   \* the upload of the object it found before it wrote its own
  cleaning,   \* the uploads whose parts it deletes, with those it keeps
  overlapped, \* history: whether two calls were ever under way at once
  contested   \* history: the uploads that two calls were completing or aborting
              \*   at once

multipartVars == <<object, index, part, pc, kind, upload, uses, etags, todo, existing, cleaning,
          overlapped, contested>>
storage == <<object, index, part>>
args == <<kind, upload, uses, etags>>
overlaps == <<overlapped, contested>>

Object(u, ns) == [upload |-> u, numbers |-> ns]
Plain == Object(None, {})

MultipartInit ==
  /\ object = Absent
  /\ index = [u \in Uploads |-> Absent]
  /\ part = [u \in Uploads |-> [n \in PartNumbers |-> Absent]]
  /\ pc = [c \in Calls |-> "idle"]
  /\ kind = [c \in Calls |-> None]
  /\ upload = [c \in Calls |-> None]
  /\ uses = [c \in Calls |-> {}]
  /\ etags = [c \in Calls |-> << >>]
  /\ todo = [c \in Calls |-> {}]
  /\ existing = [c \in Calls |-> None]
  /\ cleaning = [c \in Calls |-> << >>]
  /\ overlapped = FALSE
  /\ contested = {}

Goto(c, l) == pc' = [pc EXCEPT ![c] = l]

Active(c) == pc[c] \notin {"idle", "returned", "threw"}

\* Call c is completing or aborting u.
Finishes(c, u) == Active(c) /\ kind[c] \in {"complete", "abort"} /\ upload[c] = u

\* Call c starts with the first read it does.
Start(c, op, u) ==
  /\ pc[c] = "idle" /\ op \in Kinds
  /\ kind' = [kind EXCEPT ![c] = op]
  /\ upload' = [upload EXCEPT ![c] = u]
  /\ overlapped' = (overlapped \/ \E d \in Calls : Active(d))
  /\ contested' = IF op \in {"complete", "abort"} /\ \E d \in Calls : Finishes(d, u)
                  THEN contested \union {u} ELSE contested

-----------------------------------------------------------------------------
(***************************************************************************)
(* Uploads.                                                                *)
(***************************************************************************)

\* createMultipartUpload puts the index of a new upload.
createMultipartUpload(u) ==
  /\ index[u] = Absent
  /\ index' = [index EXCEPT ![u] = "pending"]
  /\ UNCHANGED <<object, part, pc, args, todo, existing, cleaning, overlaps>>

\* uploadPart looks at the upload's state, then puts the part.
uploadPart(c, u, n) ==
  /\ Start(c, "uploadPart", u)
  /\ index[u] = "pending"
  /\ uses' = [uses EXCEPT ![c] = {n}]
  /\ Goto(c, "putPart")
  /\ UNCHANGED <<storage, etags, todo, existing, cleaning>>

PutPart(c) ==
  /\ pc[c] = "putPart"
  /\ part' = [n \in Uploads |->
                [m \in PartNumbers |->
                   IF n = upload[c] /\ m \in uses[c] THEN c ELSE part[n][m]]]
  /\ Goto(c, "returned")
  /\ UNCHANGED <<object, index, args, todo, existing, cleaning, overlaps>>

abort(c, u) ==
  /\ Start(c, "abort", u)
  /\ index[u] = "pending"
  /\ cleaning' = [cleaning EXCEPT ![c] = <<Object(u, {})>>]
  /\ Goto(c, "list")
  /\ UNCHANGED <<storage, uses, etags, todo, existing>>

\* Parts that uploadPart has returned to the user.
Uploaded(u, n) ==
  {c \in Calls : pc[c] = "returned" /\ kind[c] = "uploadPart" /\ upload[c] = u /\ n \in uses[c]}

\* Mutant of complete: finished uploads can be completed again.
completeAgain(c, u) ==
  /\ Start(c, "complete", u)
  /\ index[u] # Absent
  /\ \E ns \in SUBSET {n \in PartNumbers : Uploaded(u, n) # {}} :
       /\ uses' = [uses EXCEPT ![c] = ns]
       /\ todo' = [todo EXCEPT ![c] = ns]
       /\ etags' \in {[etags EXCEPT ![c] = f] : f \in {f \in [ns -> Calls] :
                        \A n \in ns : f[n] \in Uploaded(u, n)}}
  /\ Goto(c, "headParts")
  /\ UNCHANGED <<storage, existing, cleaning>>

\* complete(uploadedParts), with any of the parts that were uploaded.
complete(c, u) ==
  /\ Start(c, "complete", u)
  /\ index[u] = "pending"
  /\ \E ns \in SUBSET {n \in PartNumbers : Uploaded(u, n) # {}} :
       /\ uses' = [uses EXCEPT ![c] = ns]
       /\ todo' = [todo EXCEPT ![c] = ns]
       /\ etags' \in {[etags EXCEPT ![c] = f] : f \in {f \in [ns -> Calls] :
                        \A n \in ns : f[n] \in Uploaded(u, n)}}
  /\ Goto(c, "headParts")
  /\ UNCHANGED <<storage, existing, cleaning>>

\* All parts must be there with the etags that were given.
HeadPart(c, n) ==
  /\ pc[c] = "headParts" /\ n \in todo[c]
  /\ \/ /\ part[upload[c]][n] = etags[c][n]
        /\ todo' = [todo EXCEPT ![c] = @ \ {n}]
        /\ UNCHANGED pc
     \/ /\ part[upload[c]][n] # etags[c][n]
        /\ todo' = [todo EXCEPT ![c] = {}]
        /\ Goto(c, "threw")
  /\ UNCHANGED <<storage, args, existing, cleaning, overlaps>>

\* The object that is about to be replaced.
Found == IF object = Absent THEN None ELSE object.upload

HeadExisting(c) ==
  /\ pc[c] = "headParts" /\ todo[c] = {}
  /\ existing' = [existing EXCEPT ![c] = Found]
  /\ Goto(c, "put")
  /\ UNCHANGED <<storage, args, todo, cleaning, overlaps>>

\* Mutant of Redundant: all parts of the upload are removed.
RedundantAll(c) ==
  (IF kind[c] = "complete" THEN <<Object(upload[c], {})>> ELSE << >>) \o
  (IF existing[c] = None THEN << >> ELSE <<Object(existing[c], {})>>)

\* Mutant of Redundant: the replaced object's parts are left.
RedundantOwn(c) == IF kind[c] = "complete" THEN <<Object(upload[c], uses[c])>> ELSE << >>

\* What a call deletes once the object is written: parts of its upload that it
\* does not use, and those of the object it replaced.
Redundant(c) ==
  (IF kind[c] = "complete" THEN <<Object(upload[c], uses[c])>> ELSE << >>) \o
  (IF existing[c] = None THEN << >> ELSE <<Object(existing[c], {})>>)

Cleanup(c) ==
  /\ cleaning' = [cleaning EXCEPT ![c] = Redundant(c)]
  /\ Goto(c, IF Redundant(c) = << >> THEN "returned" ELSE "list")

\* putMany of the object and the index, in either order.
PutObject(c) ==
  /\ pc[c] \in {"put", "putObject"} /\ kind[c] = "complete"
  /\ object' = Object(upload[c], uses[c])
  /\ IF pc[c] = "put" THEN Goto(c, "putIndex") /\ UNCHANGED cleaning ELSE Cleanup(c)
  /\ UNCHANGED <<index, part, args, todo, existing, overlaps>>

PutIndex(c) ==
  /\ pc[c] \in {"put", "putIndex"} /\ kind[c] = "complete"
  /\ index' = [index EXCEPT ![upload[c]] = "completed"]
  /\ IF pc[c] = "put" THEN Goto(c, "putObject") /\ UNCHANGED cleaning ELSE Cleanup(c)
  /\ UNCHANGED <<object, part, args, todo, existing, overlaps>>

-----------------------------------------------------------------------------
(***************************************************************************)
(* The bucket's put, delete and get.                                       *)
(***************************************************************************)
put(c) ==
  /\ Start(c, "put", None)
  /\ existing' = [existing EXCEPT ![c] = Found]
  /\ Goto(c, "put")
  /\ UNCHANGED <<storage, uses, etags, todo, cleaning>>

delete(c) ==
  /\ Start(c, "delete", None)
  /\ existing' = [existing EXCEPT ![c] = Found]
  /\ Goto(c, "put")
  /\ UNCHANGED <<storage, uses, etags, todo, cleaning>>

Overwrite(c) ==
  /\ pc[c] = "put" /\ kind[c] \in {"put", "delete"}
  /\ object' = IF kind[c] = "put" THEN Plain ELSE Absent
  /\ Cleanup(c)
  /\ UNCHANGED <<index, part, args, todo, existing, overlaps>>

\* get finds pointers and returns a stream that reads the parts when they are
\* asked for, in order.
get(c) ==
  /\ Start(c, "get", Found) /\ Found # None /\ object.numbers # {}
  /\ uses' = [uses EXCEPT ![c] = object.numbers]
  /\ todo' = [todo EXCEPT ![c] = object.numbers]
  /\ Goto(c, "stream")
  /\ UNCHANGED <<storage, etags, existing, cleaning>>

\* "The part must exist."
PullPart(c, n) ==
  /\ pc[c] = "stream" /\ n \in todo[c] /\ \A m \in todo[c] : n <= m
  /\ todo' = [todo EXCEPT ![c] = @ \ {n}]
  /\ Goto(c, CASE part[upload[c]][n] = Absent -> "threw"
               [] part[upload[c]][n] # Absent /\ todo[c] = {n} -> "returned"
               [] OTHER -> "stream")
  /\ UNCHANGED <<storage, args, existing, cleaning, overlaps>>

-----------------------------------------------------------------------------
(***************************************************************************)
(* deleteMultipartParts                                                    *)
(***************************************************************************)
Target(c) == Head(cleaning[c]).upload
Kept(c) == Head(cleaning[c]).numbers

ListParts(c) ==
  /\ pc[c] = "list"
  /\ todo' = [todo EXCEPT ![c] = {n \in PartNumbers \ Kept(c) : part[Target(c)][n] # Absent}]
  /\ Goto(c, "deleteParts")
  /\ UNCHANGED <<storage, args, existing, cleaning, overlaps>>

DeletePart(c, n) ==
  /\ pc[c] = "deleteParts" /\ n \in todo[c]
  /\ part' = [part EXCEPT ![Target(c)][n] = Absent]
  /\ todo' = [todo EXCEPT ![c] = @ \ {n}]
  /\ UNCHANGED <<object, index, pc, args, existing, cleaning, overlaps>>

PartsDeleted(c) ==
  /\ pc[c] = "deleteParts" /\ todo[c] = {}
  /\ cleaning' = [cleaning EXCEPT ![c] = Tail(@)]
  /\ Goto(c, IF Tail(cleaning[c]) # << >> THEN "list"
             ELSE IF kind[c] = "abort" THEN "markAborted" ELSE "returned")
  /\ UNCHANGED <<storage, args, todo, existing, overlaps>>

\* abort's last step.
MarkAborted(c) ==
  /\ pc[c] = "markAborted"
  /\ index' = [index EXCEPT ![upload[c]] = "aborted"]
  /\ Goto(c, "returned")
  /\ UNCHANGED <<object, part, args, todo, existing, cleaning, overlaps>>

-----------------------------------------------------------------------------
Continue(c) ==
  \/ PutPart(c) \/ HeadExisting(c) \/ PutObject(c) \/ PutIndex(c) \/ Overwrite(c)
  \/ ListParts(c) \/ PartsDeleted(c) \/ MarkAborted(c)
  \/ \E n \in PartNumbers : HeadPart(c, n) \/ PullPart(c, n) \/ DeletePart(c, n)

MultipartNext ==
  \/ \E u \in Uploads : createMultipartUpload(u)
  \/ \E c \in Calls :
       \/ put(c) \/ delete(c) \/ get(c) \/ Continue(c)
       \/ \E u \in Uploads :
            abort(c, u) \/ complete(c, u) \/ \E n \in PartNumbers : uploadPart(c, u, n)

MultipartSpec == MultipartInit /\ [][MultipartNext]_multipartVars

-----------------------------------------------------------------------------
(***************************************************************************)
(* Properties.                                                             *)
(***************************************************************************)
\* Type correctness.
MultipartTypeOK ==
  /\ object \in Pointers \union {Absent}
  /\ index \in [Uploads -> States \union {Absent}]
  /\ part \in [Uploads -> [PartNumbers -> Calls \union {Absent}]]
  /\ pc \in [Calls -> {"idle", "putPart", "headParts", "put", "putObject", "putIndex", "stream",
                       "list", "deleteParts", "markAborted", "returned", "threw"}]
  /\ kind \in [Calls -> {"uploadPart", "abort", "complete", "put", "delete", "get", None}]
  /\ upload \in [Calls -> Uploads \union {None}]
  /\ uses \in [Calls -> SUBSET PartNumbers]
  /\ etags \in [Calls -> UNION {[ns -> Calls] : ns \in SUBSET PartNumbers}]
  /\ todo \in [Calls -> SUBSET PartNumbers]
  /\ existing \in [Calls -> Uploads \union {None}]
  /\ cleaning \in [Calls -> Seq(Pointers)]
  /\ overlapped \in BOOLEAN
  /\ contested \in SUBSET Uploads

\* The parts that the object points to exist, whatever uploads, overwrites and
\* clean-ups overlap, unless its upload was completed while another call was
\* completing or aborting it.
PointedPartsExist ==
  object # Absent /\ object.upload \notin contested =>
    \A n \in object.numbers : part[object.upload][n] # Absent

\* The same of any upload, as the comment in abort() has it of completed ones:
\* "we really don't want to delete pointed-to parts".
PointedPartsKept ==
  object # Absent => \A n \in object.numbers : part[object.upload][n] # Absent

\* A stream that misses a part ("The part must exist") was of an object that
\* has been replaced since, or of such an upload.
ReadersServed ==
  \A c \in Calls :
    pc[c] = "threw" /\ kind[c] = "get" /\ upload[c] \notin contested =>
      object # Object(upload[c], uses[c])

\* No garbage: without overlapping calls, the parts that are left belong to a
\* pending upload or to the object.
NoGarbage ==
  ~overlapped /\ (\A c \in Calls : ~Active(c)) =>
    \A u \in Uploads : \A n \in PartNumbers :
      part[u][n] # Absent =>
        index[u] = "pending" \/ (object # Absent /\ object.upload = u /\ n \in object.numbers)
=============================================================================
