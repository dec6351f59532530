----------------------------- MODULE FileStorage -----------------------------
(***************************************************************************)
(* The file-system storage behind KV namespaces, caches, Durable Objects,  *)
(* R2 and sites (packages/storage-file), with the expiry logic it inherits *)
(* from LocalStorage (packages/storage-memory).  A key is a file, and its  *)
(* expiration and metadata are a second file beside it.  Every call of     *)
(* fs/promises is a step of its own, so that operations of several callers *)
(* interleave between the two files, and the process may be killed and     *)
(* started again on the same directory between any two of them.            *)
(*                                                                         *)
(* A metadata file is modelled by the expiration it holds: what the code   *)
(* does with user metadata is the same.  fs.writeFile truncates the file   *)
(* before it writes, so a value can be seen, and left by a crash, empty;   *)
(* and what it writes is lost if the file has been unlinked meanwhile.     *)
(***************************************************************************)
EXTENDS Naturals, FiniteSets, Nothing

CONSTANTS
  Callers,     \* the concurrent callers of the storage
  Keys,        \* the paths below the root that are keys, or directories of keys
  Above,       \* the directories that the path of a key runs through
  Values,      \* what is put
  Empty,       \* the contents of a file that was truncated and not yet written
  MaxTime,     \* bound on the clock
  MaxOps       \* bound on the operations started

\* Paths form a tree: on the way to a key, below every directory comes another
\* one or the key.
ASSUME AboveIsTree ==
  /\ Above \in [Keys -> SUBSET Keys]
  /\ \A k \in Keys : k \notin Above[k] /\ \A p \in Above[k] : Above[p] \subseteq Above[k]
  /\ \A k \in Keys :
       /\ \E q \in Above[k] \cup {k} : Above[q] = {}
       /\ \A p \in Above[k] : \E q \in Above[k] \cup {k} : Above[q] = Above[p] \cup {p}
ASSUME FilesHoldValues == None \notin Keys \cup Values \cup {Empty} /\ Empty \notin Values
ASSUME FileBounds == MaxTime \in Nat /\ MaxOps \in Nat

Expirations == {None} \cup 0 .. MaxTime

VARIABLES
  value,     \* the contents of a key's file, None where there is none
  meta,      \* the expiration in a key's .meta.json, None without one
  dir,       \* is the path of the key a directory
  now,       \* the clock, in seconds
  op,        \* what each caller is doing
  started,   \* operations started
  \* history variables, read by the properties alone
  want,      \* what the last operation on a key that ran alone left there
  alone,     \* has nothing disturbed the key since
  must       \* what a running list has to return

files == <<value, meta, dir>>
history == <<want, alone>>
filesVars == <<files, now, op, started, history, must>>

Idle == [at |-> "idle", name |-> "none", met |-> FALSE, lost |-> FALSE, key |-> None,
         value |-> None, expiration |-> None, time |-> 0, todo |-> {}, keys |-> {}]
Operation(name, at, k) == [Idle EXCEPT !.name = name, !.at = at, !.key = k]
Running(c) == op[c].at # "idle"
NoFile == [value |-> None, expiration |-> None]

Expired(expiration, time) == expiration # None /\ expiration <= time

\* An empty metadata file is read as none.
Meta(k) == IF meta[k] = Empty THEN None ELSE meta[k]
\* The path of k runs through a file: ENOTDIR for a read, EEXIST for mkdir.
UnderFile(k) == \E p \in Above[k] : value[p] # None
\* existsSync is true of a directory too.
Exists(k) == dir[k] \/ value[k] # None

Touched(o) == IF o.name = "list" THEN Keys ELSE {o.key}
Writes(o) == o.name \in {"put", "delete"}
Shared(o, p) == IF Writes(o) \/ Writes(p) THEN Touched(o) \cap Touched(p) ELSE {}

FilesInit ==
  /\ value = [k \in Keys |-> None] /\ meta = [k \in Keys |-> None]
  /\ dir = [k \in Keys |-> FALSE]
  /\ now = 0 /\ started = 0
  /\ op = [c \in Callers |-> Idle]
  /\ want = [k \in Keys |-> NoFile] /\ alone = [k \in Keys |-> TRUE]
  /\ must = [c \in Callers |-> {}]

------------------------------------------------------------------------------
\* The caller begins an operation; the history notes those it overlaps with.
Begin(c, o) ==
  LET others == {d \in Callers \ {c} : Running(d) /\ Shared(o, op[d]) # {}}
  IN /\ ~Running(c) /\ started < MaxOps
     /\ started' = started + 1
     /\ op' = [d \in Callers |->
                 IF d = c THEN [o EXCEPT !.met = others # {}]
                 ELSE IF d \in others THEN [op[d] EXCEPT !.met = TRUE] ELSE op[d]]
     /\ alone' = [k \in Keys |-> alone[k] /\ \A d \in others : k \notin Shared(o, op[d])]
     /\ UNCHANGED <<files, now, want>>

\* The operation goes on, or ends, as o.
Becomes(c, o) == op' = [op EXCEPT ![c] = o]
GoTo(c, l) == Becomes(c, [op[c] EXCEPT !.at = l])

\* It unlinks a file that others who are at l have opened and will write to.
Unlinks(c, o, k, l) ==
  op' = [d \in Callers |->
           IF d = c THEN o
           ELSE IF op[d].at = l /\ op[d].key = k THEN [op[d] EXCEPT !.lost = TRUE] ELSE op[d]]

\* An operation ends that has stored w under its key.
Stored(c, w) ==
  IF op[c].met THEN UNCHANGED history
  ELSE /\ want' = [want EXCEPT ![op[c].key] = w]
       /\ alone' = [alone EXCEPT ![op[c].key] = TRUE]

------------------------------------------------------------------------------
\* put(): writes the value and then writes or deletes the metadata.
Put(c) == \E k \in Keys, v \in Values, e \in Expirations :
  Begin(c, [Operation("put", "mkdir", k) EXCEPT !.value = v, !.expiration = e])

\* The directories of the key; one that is a key's file fails the put.
MakeDir(c) ==
  /\ op[c].at = "mkdir"
  /\ LET k == op[c].key
     IN \/ UnderFile(k) /\ Becomes(c, Idle) /\ UNCHANGED dir
        \/ ~UnderFile(k) /\ GoTo(c, "open") /\ dir' = [q \in Keys |-> dir[q] \/ q \in Above[k]]
  /\ UNCHANGED <<value, meta, now, started, history>>

\* Opens the value's file, truncating it; EISDIR where it is a directory.
Open(c) ==
  /\ op[c].at = "open"
  /\ LET k == op[c].key
     IN \/ dir[k] /\ Becomes(c, Idle) /\ UNCHANGED value
        \/ ~dir[k] /\ GoTo(c, "write") /\ value' = [value EXCEPT ![k] = Empty]
  /\ UNCHANGED <<meta, dir, now, started, history>>

WriteValue(c) ==
  /\ op[c].at = "write"
  /\ value' = IF op[c].lost THEN value ELSE [value EXCEPT ![op[c].key] = op[c].value]
  /\ Becomes(c, [op[c] EXCEPT !.at = IF op[c].expiration = None THEN "dropMeta" ELSE "openMeta",
                              !.lost = FALSE])
  /\ UNCHANGED <<meta, dir, now, started, history>>

\* mutant: the metadata of the replaced value stays
DropMetaNot(c) ==
  /\ op[c].at = "dropMeta"
  /\ Becomes(c, Idle)
  /\ Stored(c, [value |-> op[c].value, expiration |-> None])
  /\ UNCHANGED <<files, now, started>>

\* A put without metadata deletes the metadata of the value it replaced.
DropMeta(c) ==
  /\ op[c].at = "dropMeta"
  /\ meta' = [meta EXCEPT ![op[c].key] = None]
  /\ Unlinks(c, Idle, op[c].key, "writeMeta")
  /\ Stored(c, [value |-> op[c].value, expiration |-> None])
  /\ UNCHANGED <<value, dir, now, started>>

OpenMeta(c) ==
  /\ op[c].at = "openMeta"
  /\ meta' = [meta EXCEPT ![op[c].key] = Empty]
  /\ GoTo(c, "writeMeta")
  /\ UNCHANGED <<value, dir, now, started, history>>

WriteMeta(c) ==
  /\ op[c].at = "writeMeta"
  /\ meta' = IF op[c].lost THEN meta ELSE [meta EXCEPT ![op[c].key] = op[c].expiration]
  /\ Becomes(c, Idle)
  /\ Stored(c, [value |-> op[c].value, expiration |-> op[c].expiration])
  /\ UNCHANGED <<value, dir, now, started>>

------------------------------------------------------------------------------
\* get() and getRange() read the value, has() and head() only look for it.
Get(c) == \E k \in Keys : Begin(c, Operation("get", "read", k))

\* Not there, or below a file: undefined.  A directory is an error, EISDIR.
ReadValue(c) ==
  /\ op[c].at = "read"
  /\ IF value[op[c].key] = None THEN Becomes(c, Idle) ELSE GoTo(c, "meta")
  /\ UNCHANGED <<files, now, started, history>>

Has(c) == \E k \in Keys : Exists(k) /\ Begin(c, Operation("has", "meta", k))

\* delete() first looks at the metadata, to answer false for an expired key.
Delete(c) == \E k \in Keys :
  Begin(c, Operation("delete", IF Exists(k) THEN "meta" ELSE "unlink", k))

\* The metadata is read after the value: an expired key is then deleted.
ReadMeta(c) ==
  /\ op[c].at = "meta"
  /\ IF op[c].name = "delete" \/ Expired(Meta(op[c].key), now)
     THEN GoTo(c, "unlink") ELSE Becomes(c, Idle)
  /\ UNCHANGED <<files, now, started, history>>

\* deleteMaybeExpired(): the value and then the metadata; a directory is an
\* error, a path below a file is no key.
Unlink(c) ==
  /\ op[c].at = "unlink"
  /\ LET k == op[c].key
     IN \/ /\ dir[k] \/ UnderFile(k)
           /\ Becomes(c, Idle) /\ UNCHANGED value
        \/ /\ ~dir[k] /\ ~UnderFile(k)
           /\ Unlinks(c, [op[c] EXCEPT !.at = "unlinkMeta"], k, "write")
           /\ value' = [value EXCEPT ![k] = None]
  /\ UNCHANGED <<meta, dir, now, started, history>>

UnlinkMeta(c) ==
  /\ op[c].at = "unlinkMeta"
  /\ meta' = [meta EXCEPT ![op[c].key] = None]
  /\ Unlinks(c, Idle, op[c].key, "writeMeta")
  /\ IF op[c].name = "delete" THEN Stored(c, NoFile) ELSE UNCHANGED history
  /\ UNCHANGED <<value, dir, now, started>>

------------------------------------------------------------------------------
\* list(): walks the directory, reading the metadata of every file on its way.
Entries(above) ==
  { <<"path", k>> : k \in {k \in Keys : Above[k] = above /\ Exists(k)} } \cup
  { <<"meta", k>> : k \in {k \in Keys : Above[k] = above /\ meta[k] # None} }

\* walk() goes into the directories it comes to.
BelowNothing(k) == {}   \* mutant: keys of one level only
Below(k) == Entries(Above[k] \cup {k})

List(c) ==
  Begin(c, [Idle EXCEPT !.at = "walk", !.name = "list", !.time = now, !.todo = Entries({})])

\* stat() of the next entry; one that is gone fails the whole list.
Visit(c) ==
  /\ op[c].at = "walk"
  /\ \E entry \in op[c].todo :
       LET k == entry[2]
           rest == op[c].todo \ {entry}
           isMeta == entry[1] = "meta"
           gone == IF isMeta THEN meta[k] = None ELSE ~Exists(k)
       IN \/ gone /\ Becomes(c, Idle)
          \/ ~gone /\ isMeta /\ Becomes(c, [op[c] EXCEPT !.todo = rest])
          \/ ~gone /\ ~isMeta /\ dir[k] /\ Becomes(c, [op[c] EXCEPT !.todo = rest \cup Below(k)])
          \/ /\ ~gone /\ ~isMeta /\ ~dir[k]
             /\ Becomes(c, [op[c] EXCEPT !.todo = rest, !.at = "listMeta", !.key = k])
  /\ UNCHANGED <<files, now, started, history>>

ListMeta(c) ==
  /\ op[c].at = "listMeta"
  /\ LET found == [name |-> op[c].key, expiration |-> Meta(op[c].key)]
     IN Becomes(c, [op[c] EXCEPT !.at = "walk", !.keys = @ \cup {found}])
  /\ UNCHANGED <<files, now, started, history>>

\* After the walk the expired keys are dropped from the result, and deleted.
Filter(c) ==
  /\ op[c].at = "walk" /\ op[c].todo = {}
  /\ LET old == {s \in op[c].keys : Expired(s.expiration, op[c].time)}
     IN Becomes(c, [op[c] EXCEPT !.at = "expire", !.keys = @ \ old,
                                 !.todo = {<<"path", s.name>> : s \in old}])
  /\ UNCHANGED <<files, now, started, history>>

\* The deletions run side by side: each the value and then the metadata.  One
\* that meets a directory fails the list, but the others go on.
Expire(c) ==
  /\ op[c].at = "expire"
  /\ \E entry \in op[c].todo :
       LET k == entry[2]
           rest == op[c].todo \ {entry}
       IN \/ /\ entry[1] = "path" /\ ~dir[k] /\ ~UnderFile(k)
             /\ value' = [value EXCEPT ![k] = None]
             /\ Unlinks(c, [op[c] EXCEPT !.todo = rest \cup {<<"meta", k>>}], k, "write")
             /\ UNCHANGED meta
          \/ /\ entry[1] = "path" /\ (dir[k] \/ UnderFile(k))
             /\ Becomes(c, [op[c] EXCEPT !.todo = rest])
             /\ UNCHANGED <<value, meta>>
          \/ /\ entry[1] = "meta"
             /\ meta' = [meta EXCEPT ![k] = None]
             /\ Unlinks(c, [op[c] EXCEPT !.todo = rest], k, "writeMeta")
             /\ UNCHANGED value
  /\ UNCHANGED <<dir, now, started, history>>

Listed(c) ==
  /\ op[c].at = "expire" /\ op[c].todo = {}
  /\ Becomes(c, Idle)
  /\ UNCHANGED <<files, now, started, history>>

------------------------------------------------------------------------------
Second == now < MaxTime /\ now' = now + 1 /\ UNCHANGED <<files, op, started, history>>

\* The process is killed and started again on what the files hold.
Crash ==
  /\ op' = [c \in Callers |-> Idle]
  /\ alone' = [k \in Keys |-> alone[k] /\ \A c \in Callers : Running(c) => k \notin Touched(op[c])]
  /\ UNCHANGED <<files, now, started, want>>

Step(c) ==
  \/ Put(c) \/ MakeDir(c) \/ Open(c) \/ WriteValue(c) \/ DropMeta(c) \/ OpenMeta(c) \/ WriteMeta(c)
  \/ Get(c) \/ ReadValue(c) \/ Has(c) \/ Delete(c) \/ ReadMeta(c) \/ Unlink(c) \/ UnlinkMeta(c)
  \/ List(c) \/ Visit(c) \/ ListMeta(c) \/ Filter(c) \/ Expire(c) \/ Listed(c)

\* What a list has to return: keys there, and not expired, ever since it began.
Watch ==
  must' = [c \in Callers |->
             LET there == {k \in Keys : value'[k] # None /\ ~Expired(Meta(k)', op'[c].time)}
             IN IF op'[c].name # "list" THEN {}
                ELSE IF op[c].name = "list" THEN must[c] \cap there ELSE there]

FilesNext == (Second \/ Crash \/ \E c \in Callers : Step(c)) /\ Watch

FilesSpec == FilesInit /\ [][FilesNext]_filesVars

------------------------------------------------------------------------------
\* What an operation can be.
OperationTypes ==
  [at : {"idle", "mkdir", "open", "write", "dropMeta", "openMeta", "writeMeta", "read", "meta", "unlink",
         "unlinkMeta", "walk", "listMeta", "expire"},
   name : {"none", "put", "get", "has", "delete", "list"},
   met : BOOLEAN, lost : BOOLEAN, key : Keys \cup {None}, value : Values \cup {None},
   expiration : Expirations, time : 0 .. MaxTime, todo : SUBSET ({"path", "meta"} \X Keys),
   keys : SUBSET [name : Keys, expiration : Expirations]]

\* Type correctness.
FilesTypeOK ==
  /\ value \in [Keys -> Values \cup {Empty, None}]
  /\ meta \in [Keys -> Expirations \cup {Empty}]
  /\ dir \in [Keys -> BOOLEAN]
  /\ now \in 0 .. MaxTime /\ started \in 0 .. MaxOps
  /\ op \in [Callers -> OperationTypes]
  /\ want \in [Keys -> [value : Values \cup {None}, expiration : Expirations]]
  /\ alone \in [Keys -> BOOLEAN]
  /\ must \in [Callers -> SUBSET Keys]

(***************************************************************************)
(* A key that no operation is at holds what the last put or delete that    *)
(* ran alone on it left there, value and metadata alike, or nothing once   *)
(* that has expired: whatever overlapping operations and crashes had left  *)
(* in its two files before, one operation that is not disturbed repairs    *)
(* (index.ts:146-203).                                                     *)
(***************************************************************************)
AloneHolds ==
  \A k \in Keys :
    (alone[k] /\ \A c \in Callers : Running(c) => k \notin Touched(op[c])) =>
      \/ value[k] = want[k].value /\ meta[k] = want[k].expiration
      \/ Expired(want[k].expiration, now) /\ value[k] = None /\ meta[k] = None

(***************************************************************************)
(* A list that succeeds returns every key that existed and had not expired *)
(* during all of its walk, whatever is put and deleted meanwhile           *)
(* (local.ts:96-118, index.ts:205-230).                                    *)
(***************************************************************************)
ListComplete ==
  \A c \in Callers :
    (op[c].name = "list" /\ op[c].at = "expire") =>
      must[c] \subseteq {s.name : s \in op[c].keys}
==============================================================================
