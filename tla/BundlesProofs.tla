--------------------------- MODULE BundlesProofs ---------------------------
(***************************************************************************)
(* Proofs about Bundles, for any number of clients, requests, contents,    *)
(* files and faults, and for each of the three storages.                   *)
(*                                                                         *)
(* What is on the disk is whole (WholeInv) whatever the storage does.      *)
(* What the answers tell is true (StoryInv) because a client is told only  *)
(* if nobody else was served meanwhile, or if everybody uploads to Azure.  *)
(* A sync that nothing disturbs (CalmInv) then stages what was uploaded.   *)
(***************************************************************************)
EXTENDS Bundles, TLAPS

-----------------------------------------------------------------------------
(* Types *)

Places == {"idle", "begin", "put", "copy", "cut", "write", "meta", "read",
           "remove", "undo", "unlink"} \cup Results

Calls == [op : Ops \cup {None}, at : Places, content : Contents \cup {None},
          meta : Metadata \cup {None, Empty, Torn}, fd : 0..MaxFiles,
          next : Results]

(* How far an operation can be, with each of the storages.                 *)
PlacesOf(k, op) ==
  CASE op = None -> {"idle"}
    [] op = "set" /\ k = "local" ->
         {"begin", "put", "copy", "cut", "write", "undo", "unlink"}
         \cup {"ok", "exists", "error"}
    [] op = "set" /\ k = "s3" -> {"begin", "put", "ok", "exists", "error"}
    [] op = "set" /\ k = "azure" ->
         {"begin", "meta", "undo", "ok", "exists", "error"}
    [] op = "setMeta" ->
         (IF k = "local" THEN {"begin", "cut", "write"} ELSE {"begin"})
         \cup {"ok", "missing", "error"}
    [] op \in {"getMeta", "get"} ->
         (IF k = "local" THEN {"begin", "read"} ELSE {"begin"})
         \cup {"ok", "missing", "error"}
    [] op = "delete" ->
         (CASE k = "local" -> {"begin", "unlink"}
            [] k = "s3"    -> {"begin", "remove"}
            [] k = "azure" -> {"begin"})
         \cup {"ok", "missing", "error"}

CallOK(k, n, q) ==
  /\ q.at \in PlacesOf(k, q.op)
  /\ q.op = None => q = Idle
  /\ q.op = "set" => q.content \in Contents
  /\ q.op \in {"set", "setMeta"} => q.meta \in Metadata
  /\ q.op = "getMeta" => q.meta \in Metadata \cup {None}
  /\ q.op = "set" /\ q.at = "copy" => q.fd \in 1..n
  /\ q.at = "unlink" => q.next # "exists" /\ (q.op = "set" => q.next = "error")
  /\ q.op = "get" /\ q.at \in {"read", "ok"} => q.fd \in 1..n

StoreTypes ==
  /\ kind \in Kinds /\ faults \in Nat
  /\ files \in 0..MaxFiles /\ file \in 0..files
  /\ data \in [1..MaxFiles -> Contents \cup {Torn, Empty}]
  /\ shared \subseteq 1..files
  /\ meta \in Metadata \cup {None, Empty, Torn}
  /\ call \in [Callers -> Calls]
  /\ \A c \in Callers : CallOK(kind, files, call[c])

Stages == {"idle", "sweep", "fetch", "copy", "verify", "type", "folder",
           "unpack", "lift", "drop", "move"}

Bundle == [content : Contents, meta : Metadata]

BundleTypes ==
  /\ StoreTypes
  /\ requests \subseteq Asked
  /\ \A r \in requests : r.op = "set" => r.content \in Contents
  /\ layout \in {"flat", "nested", "hollow"}
  /\ wanted \in BOOLEAN /\ at \in Stages
  /\ known \in Bundle \cup {None, Unknown}
  /\ during \in [Clients -> SUBSET Ops]
  /\ calm \in BOOLEAN /\ damaged \in BOOLEAN /\ fetched \in BOOLEAN
  /\ \A c \in Clients : call[c].op # "get"
  /\ call[Node].op \in {None, "get"}
  /\ at = "fetch" => call[Node].op = "get"
  /\ at \in {"copy", "verify", "type"} => Doing(Node, "get", "ok")

-----------------------------------------------------------------------------
(* The disk of the node *)

(* What is there at each stage of a sync, unless something was damaged.    *)
WholeInv ==
  ~damaged =>
    /\ at \notin {"copy", "verify"} =>
         cache \in Contents \cup {None} /\ (cache # None => typeFile = "ok" \/ at = "type")
    /\ at \in {"type", "folder", "unpack", "lift", "drop"} => cache \in Contents
    /\ at \in {"idle", "sweep"} => staged \in Contents \cup {None}
    /\ at \in {"fetch", "copy", "verify", "type", "folder", "move"} =>
         staged = None
    /\ aside \in Contents \cup {None}
    /\ aside # None <=> at \in {"drop", "move"}

-----------------------------------------------------------------------------
(* The story that the answers tell *)

Matches ==
  \/ known = None /\ file = 0
  \/ /\ known \in Bundle /\ file # 0
     /\ data[file] = known.content /\ meta = known.meta

KnownIsTrue == known = Unknown \/ Matches

(* The operations that a request was concurrent with, and itself.          *)
OnlySets(c) == during[c] \cup {call[c].op} \subseteq {"set"}

Overlap ==
  \A c, d \in Busy : c # d =>
    during[c] # {} /\ (OnlySets(c) <=> OnlySets(d))

(* A request that nobody else's was concurrent with, at each place.        *)
SoloSet(q) ==
  /\ q.at \in {"begin", "put", "exists"} => KnownIsTrue
  /\ q.at = "put" => file = 0
  /\ q.at = "copy" => file = q.fd /\ file # 0 /\ file \notin shared
  /\ q.at \in {"cut", "write", "ok"} => file # 0 /\ data[file] = q.content
  /\ q.at = "write" => meta = Empty
  /\ q.at = "ok" => meta = q.meta

SoloGetMeta(q) ==
  /\ q.at \in {"begin", "read", "ok"} => KnownIsTrue
  /\ q.at \in {"read", "ok"} => file # 0
  /\ q.at = "ok" /\ known # Unknown => q.meta = meta
  /\ q.at = "missing" => file = 0

SoloSetMeta(q) ==
  /\ q.at \in {"begin", "cut", "write", "ok"} /\ known # Unknown =>
       /\ known \in Bundle /\ file # 0
       /\ data[file] = known.content /\ q.meta.type = known.meta.type
  /\ q.at = "write" => meta = Empty
  /\ q.at = "ok" => meta = q.meta
  /\ q.at = "missing" => file = 0

SoloDelete(q) ==
  /\ q.at = "unlink" => file = 0 \/ q.next = "error"
  /\ q.at \in {"ok", "missing"} => file = 0

Solo(q) ==
  /\ q.op = "set" => SoloSet(q)
  /\ q.op = "getMeta" => SoloGetMeta(q)
  /\ q.op = "setMeta" => SoloSetMeta(q)
  /\ q.op = "delete" => SoloDelete(q)

(* Uploads to Azure only: one of them has put its blob.                    *)
HasPut(q) == q.at \in {"meta", "undo", "ok"}

Uploads ==
  /\ \A c \in Busy : HasPut(call[c]) =>
       /\ file # 0 /\ \A d \in Busy : d # c => ~HasPut(call[d])
       /\ call[c].at \in {"meta", "ok"} => data[file] = call[c].content
       /\ call[c].at = "ok" => meta = call[c].meta
  /\ (\A c \in Busy : call[c].at \in {"begin", "exists"}) => KnownIsTrue

ToAzure(c) == kind = "azure" /\ call[c].op = "set"

StoryInv ==
  /\ Overlap
  /\ Busy = {} => KnownIsTrue
  /\ \A c \in Busy : during[c] = {} /\ ~ToAzure(c) => Solo(call[c])
  /\ kind = "azure" /\ (\A c \in Busy : OnlySets(c)) => Uploads

-----------------------------------------------------------------------------
(* A sync that nothing disturbs *)

(* The node has opened the bundle that was told of.                        *)
Opened ==
  /\ file # 0 /\ call[Node].fd = file
  /\ call[Node].at = "ok" => call[Node].meta = meta

Staged ==
  \/ staged \in Contents /\ (fetched => staged = known.content)
  \/ staged = None /\ cache # None /\ layout = "hollow"
  \/ /\ staged = None /\ cache = None
     /\ known # None => known.meta.hash \notin {None, known.content}

CalmInv ==
  calm =>
    /\ Busy = {} /\ known # Unknown
    /\ ~damaged =>
         /\ at \notin {"idle", "sweep"} => wanted
         /\ at # "idle" => listed = wanted
         /\ at = "fetch" =>
              /\ cache = None /\ ~fetched
              /\ call[Node].at \in {"read", "ok"} => Opened
              /\ call[Node].at = "missing" => file = 0
              /\ call[Node].at # "error"
         /\ at \in {"copy", "verify", "type"} => Opened
         /\ at \in {"verify", "type"} => cache = known.content
         /\ fetched => known # None
         /\ at \in {"folder", "unpack", "lift", "drop"} /\ fetched =>
              cache = known.content
         /\ at = "drop" => aside = cache
         /\ at = "move" /\ fetched => aside = known.content
         /\ at = "sweep" => ~wanted \/ Staged
         /\ at = "idle" => IF wanted THEN Staged ELSE staged = None

-----------------------------------------------------------------------------
(* Steps of the storages *)

LEMMA Values ==
  /\ None # Empty /\ None # Torn /\ Empty # Torn
  /\ None \notin Contents /\ Empty \notin Contents /\ Torn \notin Contents
  /\ None \notin Metadata /\ Empty \notin Metadata /\ Torn \notin Metadata
  /\ None \notin Ops
BY ValuesAssumption

(* A caller goes to another place.                                         *)
LEMMA GotoEffect ==
  ASSUME call \in [Callers -> Calls], NEW c \in Callers, NEW place \in Places,
         Goto(c, place)
  PROVE  /\ call' \in [Callers -> Calls]
         /\ call'[c].at = place
         /\ call'[c].op = call[c].op /\ call'[c].content = call[c].content
         /\ call'[c].meta = call[c].meta /\ call'[c].fd = call[c].fd
         /\ call'[c].next = call[c].next
         /\ \A d \in Callers : d # c => call'[d] = call[d]
BY DEF Goto, Calls

LEMMA IdleIsCall == Idle \in Calls
BY FilesAssumption DEF Idle, Calls, Places, Results

(* A caller that was answered makes no step in the storage.                *)
LEMMA AnswerIsLast ==
  ASSUME NEW c \in Callers, StorageStep(c)
  PROVE  call[c].at \notin Results
BY DEF StorageStep, Results, Doing, Taken, Free, LocalCreate, LocalCopyBegin, LocalCopyEnd, S3Put,
   AzurePut, MetaFails, LocalLook, LocalCut, LocalWrite, PutMeta, ReadMeta, Open, DeleteLook,
   Remove, LocalRemove, LocalRemoveMeta, Missed, Fails

(* Callers other than the one that makes the step are left alone, and so   *)
(* is what an operation stores.                                            *)
LEMMA StepIsOwn ==
  ASSUME StoreTypes, NEW c \in Callers, StorageStep(c)
  PROVE  /\ kind' = kind
         /\ \A d \in Callers : d # c => call'[d] = call[d]
         /\ call[c].op # None
         /\ call'[c].op = call[c].op /\ call'[c].content = call[c].content
         /\ call[c].op \notin {"get", "getMeta"} => call'[c].meta = call[c].meta
<1> USE DEF StoreTypes
<1>1. call[c] \in Calls
  OBVIOUS
<1>2. call[c].op # None
  BY <1>1, Values DEF StorageStep, CallOK, PlacesOf, Ops, Idle, Doing, Taken, Free, LocalCreate,
     LocalCopyBegin, LocalCopyEnd, S3Put, AzurePut, MetaFails, LocalLook, LocalCut, LocalWrite,
     PutMeta, ReadMeta, Open, DeleteLook, Remove, LocalRemove, LocalRemoveMeta, Missed, Fails
<1>3. kind' = kind
  BY DEF StorageStep, Taken, Free, LocalCreate,
     LocalCopyBegin, LocalCopyEnd, S3Put, AzurePut, MetaFails, LocalLook, LocalCut, LocalWrite,
     PutMeta, ReadMeta, GotMeta, Open, DeleteLook, Remove, LocalRemove, LocalRemoveMeta, Missed, Fails
<1>4. CASE \E place : Goto(c, place)
  BY <1>2, <1>3, <1>4 DEF Goto, Calls
<1>5. CASE \E place, fd : call' = [call EXCEPT ![c].at = place, ![c].fd = fd]
  BY <1>2, <1>3, <1>5 DEF Calls
<1>6. CASE \E place, next : call' = [call EXCEPT ![c].at = place, ![c].next = next]
  BY <1>2, <1>3, <1>6 DEF Calls
<1>7. CASE ReadMeta(c)
  <2>1. call[c].op \in {"get", "getMeta"}
    BY <1>1, <1>7 DEF ReadMeta, CallOK, PlacesOf, Ops, Calls, Doing, Kinds
  <2> QED
    BY <1>2, <1>3, <1>7, <2>1 DEF ReadMeta, GotMeta, Goto, Calls
<1>8. CASE Open(c)
  BY <1>2, <1>3, <1>8 DEF Open, Doing, Calls
<1>9. CASE call' = call
  BY <1>2, <1>3, <1>9
<1>10. CASE Taken(c) \/ Free(c) \/ LocalCopyBegin(c) \/ LocalCopyEnd(c) \/ S3Put(c)
  BY <1>4, <1>9, <1>10 DEF Taken, Free, LocalCopyBegin, LocalCopyEnd, S3Put
<1>11. CASE AzurePut(c) \/ MetaFails(c) \/ LocalLook(c) \/ LocalCut(c) \/ LocalWrite(c)
  BY <1>4, <1>11 DEF AzurePut, MetaFails, LocalLook, LocalCut, LocalWrite
<1>12. CASE PutMeta(c) \/ DeleteLook(c) \/ Remove(c) \/ Missed(c) \/ Fails(c)
  BY <1>4, <1>12 DEF PutMeta, DeleteLook, Remove, Missed, Fails
<1>13. CASE LocalRemove(c) \/ LocalRemoveMeta(c)
  BY <1>4, <1>6, <1>13 DEF LocalRemove, LocalRemoveMeta
<1>14. CASE LocalCreate(c)
  BY <1>5, <1>14 DEF LocalCreate
<1> QED
  BY <1>7, <1>8, <1>10, <1>11, <1>12, <1>13, <1>14 DEF StorageStep

(* What a step must show of the call it belongs to.                        *)
LEMMA OthersStayOK ==
  ASSUME StoreTypes, NEW c \in Callers, kind' = kind, files' \in Nat, files <= files',
         \A d \in Callers : d # c => call'[d] = call[d],
         CallOK(kind', files', call'[c])
  PROVE  \A d \in Callers : CallOK(kind', files', call'[d])
<1> SUFFICES ASSUME NEW d \in Callers, d # c
             PROVE  CallOK(kind', files', call'[d])
  OBVIOUS
<1>1. CallOK(kind, files, call[d]) /\ files \in Nat
  BY DEF StoreTypes
<1>2. 1..files \subseteq 1..files'
  BY <1>1
<1> QED
  BY <1>1, <1>2 DEF CallOK

LEMMA TypesStep ==
  ASSUME StoreTypes, NEW c \in Callers, StorageStep(c)
  PROVE  StoreTypes'
<1>1. call[c] \in Calls /\ CallOK(kind, files, call[c]) /\ call[c].op # None
  BY StepIsOwn DEF StoreTypes
<1>2. /\ kind' = kind /\ kind \in Kinds /\ files \in Nat
      /\ \A d \in Callers : d # c => call'[d] = call[d]
  BY StepIsOwn DEF StoreTypes
<1>3. SUFFICES
        /\ faults' \in Nat
        /\ files' \in 0..MaxFiles /\ files <= files' /\ file' \in 0..files'
        /\ data' \in [1..MaxFiles -> Contents \cup {Torn, Empty}]
        /\ shared' \subseteq 1..files'
        /\ meta' \in Metadata \cup {None, Empty, Torn}
        /\ call' \in [Callers -> Calls]
        /\ CallOK(kind', files', call'[c])
  BY <1>2, OthersStayOK DEF StoreTypes
<1>4. ASSUME NEW place \in Places, Goto(c, place), place \in PlacesOf(kind, call[c].op),
             files' \in Nat, files <= files',
             place # "unlink", call[c].op = "set" => place # "copy",
             call[c].op = "get" => place \notin {"read", "ok"}
      PROVE  call' \in [Callers -> Calls] /\ CallOK(kind', files', call'[c])
  <2>1. call' \in [Callers -> Calls]
    BY <1>4, GotoEffect DEF StoreTypes
  <2>2. CallOK(kind', files', call'[c])
    BY <1>1, <1>2, <1>4, GotoEffect DEF StoreTypes, CallOK
  <2> QED
    BY <2>1, <2>2
<1> USE FilesAssumption
<1>5. CASE Taken(c)
  <2>1. "exists" \in Places /\ "exists" \in PlacesOf(kind, call[c].op)
    BY <1>2, <1>5, Values DEF Taken, Doing, PlacesOf, Places, Results, Kinds, Ops
  <2> QED
    BY <1>1, <1>2, <1>4, <1>5, <2>1 DEF Taken, fileVars, StoreTypes, Doing
<1>6. CASE Free(c)
  <2>1. "put" \in Places /\ "put" \in PlacesOf(kind, call[c].op)
    BY <1>2, <1>6, Values DEF Free, Doing, PlacesOf, Places, Kinds, Ops
  <2> QED
    BY <1>2, <1>4, <1>6, <2>1 DEF Free, fileVars, StoreTypes, Doing
<1>7. CASE LocalCreate(c)
  <2>1. call[c].op = "set" /\ kind = "local" /\ "copy" \in Places
    BY <1>7 DEF LocalCreate, Doing, Places
  <2>2. /\ files' \in 0..MaxFiles /\ files <= files' /\ file' \in 1..files'
        /\ data' \in [1..MaxFiles -> Contents \cup {Torn, Empty}]
        /\ shared' \subseteq 1..files'
        /\ faults' \in Nat /\ meta' = meta
    BY <1>2, <1>7 DEF LocalCreate, NewFile, StoreTypes
  <2>3. file' \in 0..MaxFiles
    BY <2>2
  <2>4. call' = [call EXCEPT ![c] = [@ EXCEPT !.at = "copy", !.fd = file']]
    BY <1>7 DEF LocalCreate
  <2>5. /\ call' \in [Callers -> Calls]
        /\ call'[c] = [call[c] EXCEPT !.at = "copy", !.fd = file']
    BY <1>1, <2>1, <2>3, <2>4 DEF Calls, StoreTypes
  <2>6. /\ call'[c].at = "copy" /\ call'[c].fd = file' /\ call'[c].op = "set"
        /\ call'[c].meta = call[c].meta /\ call'[c].content = call[c].content
    BY <1>1, <2>1, <2>5 DEF Calls
  <2>7. "copy" \in PlacesOf("local", "set")
    BY Values DEF PlacesOf, Ops
  <2>8. CallOK(kind', files', call'[c])
    BY <1>1, <1>2, <2>1, <2>2, <2>6, <2>7, Values DEF CallOK, Ops
  <2> QED
    BY <2>2, <2>5, <2>8 DEF StoreTypes
<1>8. CASE LocalCopyBegin(c)
  <2>1. data' \in [1..MaxFiles -> Contents \cup {Torn, Empty}]
    BY <1>8 DEF LocalCopyBegin, StoreTypes
  <2>2. CallOK(kind', files', call'[c])
    BY <1>1, <1>8 DEF LocalCopyBegin
  <2> QED
    BY <1>2, <1>8, <2>1, <2>2 DEF LocalCopyBegin, StoreTypes
<1>9. CASE LocalCopyEnd(c)
  <2>1. "cut" \in Places /\ "cut" \in PlacesOf(kind, call[c].op)
    BY <1>1, <1>2, <1>9, Values DEF LocalCopyEnd, Doing, CallOK, PlacesOf, Places, Kinds, Ops
  <2>2. data' \in [1..MaxFiles -> Contents \cup {Torn, Empty}]
    BY <1>1, <1>9 DEF LocalCopyEnd, Doing, CallOK, StoreTypes
  <2> QED
    BY <1>2, <1>4, <1>9, <2>1, <2>2 DEF LocalCopyEnd, StoreTypes, Doing
<1>10. CASE S3Put(c)
  <2>1. \E place \in {"ok", "error"} : Goto(c, place)
    BY <1>10 DEF S3Put
  <2>2. /\ files' \in 0..MaxFiles /\ files <= files' /\ file' \in 0..files'
        /\ data' \in [1..MaxFiles -> Contents \cup {Torn, Empty}]
        /\ shared' \subseteq 1..files'
        /\ faults' \in Nat /\ meta' \in Metadata
    BY <1>1, <1>2, <1>10 DEF S3Put, NewFile, Fault, Doing, CallOK, StoreTypes
  <2>3. {"ok", "error"} \subseteq Places \cap PlacesOf(kind, call[c].op)
    BY <1>10, Values DEF S3Put, Doing, PlacesOf, Places, Results, Ops
  <2> QED
    BY <1>4, <1>10, <2>1, <2>2, <2>3 DEF S3Put, Doing, StoreTypes
<1>11. CASE AzurePut(c)
  <2>1. \E place \in {"meta", "error"} : Goto(c, place)
    BY <1>11 DEF AzurePut
  <2>2. /\ files' \in 0..MaxFiles /\ files <= files' /\ file' \in 0..files'
        /\ data' \in [1..MaxFiles -> Contents \cup {Torn, Empty}]
        /\ shared' \subseteq 1..files'
        /\ faults' \in Nat /\ meta' = None
    BY <1>1, <1>2, <1>11 DEF AzurePut, NewFile, Fault, Doing, CallOK, StoreTypes
  <2>3. {"meta", "error"} \subseteq Places \cap PlacesOf(kind, call[c].op)
    BY <1>11, Values DEF AzurePut, Doing, PlacesOf, Places, Results, Ops
  <2> QED
    BY <1>4, <1>11, <2>1, <2>2, <2>3 DEF AzurePut, Doing, StoreTypes
<1>12. CASE MetaFails(c)
  <2>1. "undo" \in Places /\ "undo" \in PlacesOf(kind, call[c].op)
    BY <1>1, <1>2, <1>12, Values DEF MetaFails, Doing, CallOK, PlacesOf, Places, Kinds, Ops
  <2> QED
    BY <1>2, <1>4, <1>12, <2>1 DEF MetaFails, Fault, fileVars, StoreTypes
<1>13. CASE LocalLook(c)
  <2>1. \/ Goto(c, "cut") /\ call[c].op = "setMeta"
        \/ Goto(c, "read") /\ call[c].op = "getMeta"
    BY <1>13 DEF LocalLook, Doing
  <2>2. {"cut", "read"} \subseteq Places
    BY DEF Places
  <2>3. "cut" \in PlacesOf("local", "setMeta") /\ "read" \in PlacesOf("local", "getMeta")
    BY Values DEF PlacesOf, Ops
  <2> QED
    BY <1>2, <1>4, <1>13, <2>1, <2>2, <2>3 DEF LocalLook, fileVars, StoreTypes
<1>14. CASE LocalCut(c)
  <2>1. "write" \in Places /\ "write" \in PlacesOf(kind, call[c].op)
    BY <1>1, <1>2, <1>14, Values DEF LocalCut, CallOK, PlacesOf, Places, Results, Kinds, Ops, Calls
  <2> QED
    BY <1>2, <1>4, <1>14, <2>1 DEF LocalCut, fileVars, StoreTypes
<1>15. CASE LocalWrite(c)
  <2>1. /\ "ok" \in Places /\ "ok" \in PlacesOf(kind, call[c].op)
        /\ call[c].op \in {"set", "setMeta"}
    BY <1>1, <1>2, <1>15, Values
    DEF LocalWrite, CallOK, PlacesOf, Places, Results, Kinds, Ops, Calls
  <2> QED
    BY <1>1, <1>2, <1>4, <1>15, <2>1 DEF LocalWrite, fileVars, CallOK, StoreTypes
<1>16. CASE PutMeta(c)
  <2>1. /\ call[c].op \in {"set", "setMeta"}
        /\ \E place \in {"ok", "error", "undo"} :
             /\ Goto(c, place)
             /\ call[c].op = "set" => place \in {"ok", "undo"}
             /\ call[c].op = "setMeta" => place \in {"ok", "error"}
             /\ call[c].op = "set" => call[c].at = "meta"
    BY <1>16 DEF PutMeta, Doing
  <2>2. call[c].op = "set" => kind = "azure"
    BY <1>1, <1>2, <2>1, Values DEF CallOK, PlacesOf, Kinds, Ops
  <2>3. {"ok", "undo"} \subseteq PlacesOf("azure", "set")
    BY Values DEF PlacesOf, Ops
  <2>4. {"ok", "error"} \subseteq PlacesOf(kind, "setMeta")
    BY <1>2, Values DEF PlacesOf, Ops, Kinds
  <2>5. {"ok", "error", "undo"} \subseteq Places
    BY DEF Places, Results
  <2>6. meta' \in Metadata /\ faults' \in Nat
    BY <1>1, <1>16, <2>1 DEF PutMeta, Fault, CallOK, StoreTypes
  <2> QED
    BY <1>2, <1>4, <1>16, <2>1, <2>2, <2>3, <2>4, <2>5, <2>6
    DEF PutMeta, fileVars, StoreTypes
<1>17. CASE ReadMeta(c)
  <2>1. call[c].op \in {"getMeta", "get"}
    BY <1>1, <1>2, <1>17, Values
    DEF ReadMeta, Doing, CallOK, PlacesOf, Places, Results, Kinds, Ops, Calls
  <2>2. CASE meta = Torn
    <3>1. "error" \in Places /\ "error" \in PlacesOf(kind, call[c].op)
      BY <2>1, Values DEF PlacesOf, Places, Results, Ops
    <3> QED
      BY <1>2, <1>4, <1>17, <2>2, <3>1 DEF ReadMeta, GotMeta, fileVars, StoreTypes
  <2>3. CASE meta # Torn
    <3> DEFINE m == IF meta = Empty THEN None ELSE meta
    <3>1. m \in Metadata \cup {None} /\ "ok" \in Places
      BY <2>3 DEF StoreTypes, Places, Results
    <3>2. call' = [call EXCEPT ![c].at = "ok", ![c].meta = m]
      BY <1>17, <2>3 DEF ReadMeta, GotMeta
    <3> HIDE DEF m
    <3>3. /\ call' \in [Callers -> Calls]
          /\ call'[c].op = call[c].op /\ call'[c].at = "ok" /\ call'[c].meta = m
          /\ call'[c].fd = call[c].fd
      BY <1>1, <3>1, <3>2 DEF StoreTypes, Calls
    <3>4. call[c].op = "get" => call[c].fd \in 1..files
      BY <1>1, <1>17 DEF ReadMeta, Doing, CallOK
    <3>5. "ok" \in PlacesOf(kind, call[c].op)
      BY <2>1, Values DEF PlacesOf, Ops
    <3>6. CallOK(kind', files, call'[c])
      BY <1>1, <1>2, <2>1, <3>1, <3>3, <3>4, <3>5, Values DEF CallOK, Ops
    <3> QED
      BY <1>2, <1>17, <3>3, <3>6 DEF ReadMeta, GotMeta, fileVars, StoreTypes
  <2> QED
    BY <2>2, <2>3
<1>18. CASE Open(c)
  <2>1. call[c].op = "get" /\ file \in 1..files /\ file \in 0..MaxFiles
    BY <1>2, <1>18 DEF Open, Found, Doing, StoreTypes
  <2>2. {"read", "ok"} \subseteq Places
    BY DEF Places, Results
  <2>3. /\ call' \in [Callers -> Calls]
        /\ call'[c].op = "get" /\ call'[c].fd = file
        /\ call'[c].at = IF kind = "local" THEN "read" ELSE "ok"
    BY <1>1, <1>18, <2>1, <2>2 DEF Open, StoreTypes, Calls
  <2>4. call'[c].at \in PlacesOf(kind, "get")
    BY <2>3, Values DEF PlacesOf, Ops
  <2>5. CallOK(kind', files, call'[c])
    BY <1>2, <2>1, <2>3, <2>4, Values DEF CallOK, Ops
  <2> QED
    BY <1>2, <1>18, <2>3, <2>5 DEF Open, fileVars, StoreTypes
<1>19. CASE DeleteLook(c)
  <2>1. "remove" \in Places /\ "remove" \in PlacesOf(kind, call[c].op)
    BY <1>19, Values DEF DeleteLook, Doing, PlacesOf, Places, Ops
  <2> QED
    BY <1>2, <1>4, <1>19, <2>1 DEF DeleteLook, fileVars, StoreTypes, Doing
<1>20. CASE Remove(c)
  <2>1. call[c].op \in {"set", "delete"}
    BY <1>1, <1>2, <1>20, Values
    DEF Remove, Doing, CallOK, PlacesOf, Places, Results, Kinds, Ops, Calls
  <2>2. \E place \in {"ok", "error"} :
          Goto(c, place) /\ (call[c].op = "set" => place = "error")
    BY <1>20 DEF Remove
  <2>3. {"ok", "error"} \subseteq Places
    BY DEF Places, Results
  <2>4. "error" \in PlacesOf(kind, "set") /\ {"ok", "error"} \subseteq PlacesOf(kind, "delete")
    BY <1>2, Values DEF PlacesOf, Ops, Kinds
  <2> QED
    BY <1>2, <1>4, <1>20, <2>1, <2>2, <2>3, <2>4 DEF Remove, Fault, StoreTypes
<1>21. CASE LocalRemove(c)
  <2>1. call[c].op \in {"set", "delete"} /\ kind = "local"
    BY <1>1, <1>21, Values
    DEF LocalRemove, Doing, CallOK, PlacesOf, Places, Results, Kinds, Ops, Calls
  <2>2. /\ "unlink" \in Places /\ {"ok", "missing", "error"} \subseteq Results
        /\ "unlink" \in PlacesOf("local", "set") /\ "unlink" \in PlacesOf("local", "delete")
    BY Values DEF Places, Results, PlacesOf, Ops
  <2>3. PICK r \in {"ok", "missing", "error"} :
          /\ call' = [call EXCEPT ![c] = [@ EXCEPT !.at = "unlink", !.next = r]]
          /\ call[c].op = "set" => r = "error"
    BY <1>21 DEF LocalRemove
  <2>4. /\ call' \in [Callers -> Calls]
        /\ call'[c].op = call[c].op /\ call'[c].at = "unlink" /\ call'[c].next = r
        /\ call'[c].meta = call[c].meta /\ call'[c].content = call[c].content
    BY <1>1, <2>2, <2>3 DEF StoreTypes, Calls
  <2>5. CallOK(kind', files, call'[c])
    BY <1>1, <1>2, <2>1, <2>2, <2>3, <2>4, Values DEF CallOK, Ops
  <2>6. file' \in 0..files /\ faults' \in Nat
    BY <1>2, <1>21 DEF LocalRemove, Fault, StoreTypes
  <2> QED
    BY <1>2, <1>21, <2>4, <2>5, <2>6 DEF LocalRemove, StoreTypes
<1>22. CASE LocalRemoveMeta(c)
  <2>1. call[c].op \in {"set", "delete"}
    BY <1>1, <1>22, Values
    DEF LocalRemoveMeta, CallOK, PlacesOf, Places, Results, Kinds, Ops, Calls
  <2>2. PICK place \in {"ok", "exists", "missing", "error"} :
          Goto(c, place) /\ (call[c].op = "set" => place = "error")
                         /\ (place = call[c].next \/ place = "error")
    BY <1>1, <1>22 DEF LocalRemoveMeta, CallOK, Calls, Results
  <2>3. place \in {"ok", "missing", "error"}
    BY <1>1, <1>22, <2>2 DEF LocalRemoveMeta, CallOK
  <2>4. "error" \in PlacesOf(kind, "set") /\ {"ok", "missing", "error"} \subseteq PlacesOf(kind, "delete")
    BY <1>2, Values DEF PlacesOf, Ops, Kinds
  <2>5. meta' \in Metadata \cup {None, Empty, Torn} /\ faults' \in Nat
    BY <1>22 DEF LocalRemoveMeta, Fault, StoreTypes
  <2> QED
    BY <1>2, <1>4, <1>22, <2>1, <2>2, <2>3, <2>4, <2>5
    DEF LocalRemoveMeta, fileVars, StoreTypes, Places, Results
<1>23. CASE Missed(c)
  <2>1. call[c].op \in {"getMeta", "setMeta", "delete", "get"} /\ Goto(c, "missing")
    BY <1>23 DEF Missed
  <2>2. "missing" \in Places /\ "missing" \in PlacesOf(kind, call[c].op)
    BY <1>2, <2>1, Values DEF Places, Results, PlacesOf, Ops, Kinds
  <2> QED
    BY <1>2, <1>4, <1>23, <2>1, <2>2 DEF Missed, fileVars, StoreTypes
<1>24. CASE Fails(c)
  <2>1. "error" \in Places /\ "error" \in PlacesOf(kind, call[c].op)
    BY <1>1, <1>2, Values DEF Places, Results, PlacesOf, Ops, Kinds, Calls
  <2> QED
    BY <1>2, <1>4, <1>24, <2>1 DEF Fails, Fault, fileVars, StoreTypes
<1> QED
  BY <1>5, <1>6, <1>7, <1>8, <1>9, <1>10, <1>11, <1>12, <1>13, <1>14, <1>15, <1>16, <1>17,
     <1>18, <1>19, <1>20, <1>21, <1>22, <1>23, <1>24
  DEF StorageStep

(* A caller is idle again, ...                                             *)
LEMMA IdleEffect ==
  ASSUME StoreTypes, NEW c \in Callers, call' = [call EXCEPT ![c] = Idle],
         kind' = kind, files' = files
  PROVE  /\ call' \in [Callers -> Calls] /\ call'[c] = Idle
         /\ \A d \in Callers : d # c => call'[d] = call[d]
         /\ \A d \in Callers : CallOK(kind', files', call'[d])
<1>1. /\ call' \in [Callers -> Calls] /\ call'[c] = Idle
      /\ \A d \in Callers : d # c => call'[d] = call[d]
  BY IdleIsCall DEF StoreTypes
<1>2. CallOK(kind', files', Idle)
  BY Values DEF CallOK, PlacesOf, Idle, Ops
<1> QED
  BY <1>1, <1>2, OthersStayOK DEF StoreTypes

(* ... or calls the storage.                                               *)
LEMMA AskEffect ==
  ASSUME StoreTypes, NEW c \in Callers, NEW op \in Ops,
         NEW content \in Contents \cup {None}, NEW m \in Metadata \cup {None},
         op = "set" => content \in Contents,
         op \in {"set", "setMeta"} => m \in Metadata,
         Ask(c, op, content, m), kind' = kind, files' = files
  PROVE  /\ call' \in [Callers -> Calls]
         /\ call'[c].op = op /\ call'[c].at = "begin"
         /\ call'[c].content = content /\ call'[c].meta = m
         /\ \A d \in Callers : d # c => call'[d] = call[d]
         /\ \A d \in Callers : CallOK(kind', files', call'[d])
<1>1. "begin" \in Places
  BY DEF Places
<1>2. /\ call' \in [Callers -> Calls]
      /\ call'[c].op = op /\ call'[c].at = "begin"
      /\ call'[c].content = content /\ call'[c].meta = m
      /\ \A d \in Callers : d # c => call'[d] = call[d]
  BY <1>1, IdleIsCall DEF Ask, StoreTypes, Calls, Idle
<1>3. "begin" \in PlacesOf(kind, op)
  BY Values DEF StoreTypes, PlacesOf, Ops, Kinds
<1>4. CallOK(kind', files', call'[c])
  BY <1>2, <1>3, Values DEF CallOK, Ops
<1> QED
  BY <1>2, <1>4, OthersStayOK DEF StoreTypes

LEMMA SetNewMetaType ==
  ASSUME StoreTypes, NEW c \in Callers, Doing(c, "getMeta", "ok")
  PROVE  SetNewMeta(c) \in Metadata
BY DEF StoreTypes, Calls, CallOK, Doing, SetNewMeta, Metadata

-----------------------------------------------------------------------------
(* Types of the bundles *)

LEMMA TypesInit == Init => BundleTypes
<1> SUFFICES ASSUME Init PROVE BundleTypes
  OBVIOUS
<1>1. PICK s \in Scenarios :
        kind = s.kind /\ faults = s.faults /\ requests = s.requests /\ layout = s.layout
  BY DEF Init
<1>2. /\ kind \in Kinds /\ faults \in Nat /\ requests \subseteq Asked
      /\ \A r \in requests : r.op = "set" => r.content \in Contents
      /\ layout \in {"flat", "nested", "hollow"}
  BY <1>1, ScenariosAssumption
<1>3. call \in [Callers -> Calls] /\ \A c \in Callers : call[c] = Idle
  BY IdleIsCall DEF Init, StoreInit
<1>4. CallOK(kind, files, Idle) /\ Idle.op = None
  BY Values DEF CallOK, PlacesOf, Idle, Ops
<1>5. StoreTypes
  BY <1>2, <1>3, <1>4, FilesAssumption DEF Init, StoreInit, StoreTypes
<1>6. Node \in Callers /\ Clients \subseteq Callers
  BY CallersAssumption
<1> QED
  BY <1>2, <1>3, <1>4, <1>5, <1>6, Values DEF Init, BundleTypes, Stages, Ops

(* What a step must show when it does not change the storage.              *)
LEMMA StoreStays ==
  ASSUME StoreTypes, UNCHANGED <<kind, fileVars, meta>>, faults' \in Nat,
         call' \in [Callers -> Calls],
         \A c \in Callers : CallOK(kind', files', call'[c])
  PROVE  StoreTypes'
BY DEF StoreTypes, fileVars

LEMMA ToldType ==
  ASSUME StoreTypes, NEW c \in Callers, known \in Bundle \cup {None, Unknown},
         call[c].op # "get", Answered(c), ~Doing(c, "getMeta", "ok")
  PROVE  Told(c) \in Bundle \cup {None, Unknown}
<1>1. call[c] \in Calls /\ CallOK(kind, files, call[c]) /\ kind \in Kinds
  BY DEF StoreTypes
<1>2. call[c].op \in Ops
  BY <1>1, Values DEF Answered, CallOK, Calls, Idle, Results
<1>3. call[c].at = "ok" => call[c].op \in {"set", "delete", "setMeta"}
  BY <1>2 DEF Ops, Doing
<1>4. call[c].at = "exists" => call[c].op = "set"
  BY <1>1, <1>2, Values DEF CallOK, PlacesOf, Kinds, Ops
<1>5. CASE call[c].at = "ok" /\ call[c].op = "set"
  BY <1>1, <1>5 DEF Told, Bundle, CallOK
<1>6. CASE call[c].at = "ok" /\ call[c].op = "delete"
  BY <1>1, <1>6 DEF Told
<1>7. CASE call[c].at = "ok" /\ call[c].op = "setMeta"
  <2>1. call[c].meta \in Metadata
    BY <1>1, <1>7 DEF CallOK
  <2>2. known \notin {None, Unknown} =>
          [known EXCEPT !.meta.hash = call[c].meta.hash] \in Bundle
    BY <2>1 DEF Bundle, Metadata
  <2> QED
    BY <1>7, <2>2 DEF Told
<1>8. CASE call[c].at # "ok"
  BY <1>8 DEF Told, Answered, Results
<1> QED
  BY <1>3, <1>5, <1>6, <1>7, <1>8

(* A step of the sync ends the node's call or leaves the storage alone.    *)
LEMMA StageTypes ==
  ASSUME BundleTypes, Stage
  PROVE  BundleTypes'
<1>1. Node \in Callers /\ Clients \subseteq Callers /\ Node \notin Clients
  BY CallersAssumption
<1>2. /\ StoreTypes /\ requests \subseteq Asked
      /\ \A r \in requests : r.op = "set" => r.content \in Contents
      /\ layout \in {"flat", "nested", "hollow"}
      /\ wanted \in BOOLEAN /\ at \in Stages
      /\ known \in Bundle \cup {None, Unknown}
      /\ during \in [Clients -> SUBSET Ops]
      /\ calm \in BOOLEAN /\ damaged \in BOOLEAN /\ fetched \in BOOLEAN
  BY DEF BundleTypes
<1>3. SUFFICES
        /\ StoreTypes'
        /\ UNCHANGED <<requests, layout, wanted, during, known>>
        /\ calm' \in BOOLEAN /\ damaged' \in BOOLEAN /\ fetched' \in BOOLEAN
        /\ at' \in Stages
        /\ \A d \in Clients : call'[d] = call[d]
        /\ call'[Node].op \in {None, "get"}
        /\ at' = "fetch" => call'[Node].op = "get"
        /\ at' \in {"copy", "verify", "type"} => Doing(Node, "get", "ok")'
  BY <1>2 DEF BundleTypes
<1>4. ASSUME call' = [call EXCEPT ![Node] = Idle], UNCHANGED <<kind, fileVars, meta>>,
             faults' \in Nat
      PROVE  StoreTypes' /\ call'[Node].op = None /\ \A d \in Clients : call'[d] = call[d]
  BY <1>1, <1>2, <1>4, IdleEffect, StoreStays DEF fileVars, Idle
<1>5. ASSUME UNCHANGED <<kind, fileVars, meta, call>>, faults' \in Nat PROVE StoreTypes'
  BY <1>2, <1>5 DEF StoreTypes, fileVars
<1>6. faults \in Nat /\ (faults > 0 => faults - 1 \in Nat)
  BY <1>2 DEF StoreTypes
<1> USE DEF Stages, Step
<1>7. CASE Begin
  <2>1. CASE at' = "fetch"
    <3>1. Ask(Node, "get", None, None) /\ kind' = kind /\ files' = files
      BY <1>7, <2>1 DEF Begin, fileVars
    <3>2. /\ call' \in [Callers -> Calls] /\ call'[Node].op = "get"
          /\ \A d \in Callers : d # Node => call'[d] = call[d]
          /\ \A d \in Callers : CallOK(kind', files', call'[d])
      BY <1>1, <1>2, <3>1, AskEffect DEF Ops
    <3>3. StoreTypes'
      BY <1>2, <1>6, <1>7, <3>2, StoreStays DEF Begin
    <3> QED
      BY <1>1, <1>2, <1>7, <2>1, <3>2, <3>3 DEF Begin
  <2>2. CASE at' # "fetch"
    BY <1>1, <1>2, <1>5, <1>6, <1>7, <2>2 DEF Begin, BundleTypes
  <2> QED
    BY <2>1, <2>2
<1>8. CASE NotFetched \/ Mismatch \/ WriteType \/ WriteTypeFails
  <2>1. UNCHANGED <<kind, fileVars, meta>> /\ call' = [call EXCEPT ![Node] = Idle]
    BY <1>8 DEF NotFetched, Mismatch, WriteType, WriteTypeFails
  <2>2. faults' \in Nat
    BY <1>6, <1>8 DEF NotFetched, Mismatch, WriteType, WriteTypeFails, Fault
  <2>3. /\ UNCHANGED <<requests, layout, wanted, during, known>> /\ at' \in {"sweep", "folder"}
        /\ calm' \in BOOLEAN /\ damaged' \in BOOLEAN /\ fetched' \in BOOLEAN
    BY <1>2, <1>8 DEF unmoved, NotFetched, Mismatch, WriteType, WriteTypeFails
  <2> QED
    BY <1>4, <2>1, <2>2, <2>3
<1>9. CASE Create \/ Copy \/ Verified
  <2>1. UNCHANGED <<storeVars, requests, layout, wanted, during, known, calm, fetched>> /\ damaged' \in BOOLEAN
    BY <1>2, <1>9 DEF unmoved, Create, Copy, Verified, Quiet
  <2>2. at' \in Stages /\ at' # "fetch" /\ Doing(Node, "get", "ok")
    BY <1>9 DEF Create, Copy, Verified, BundleTypes
  <2> QED
    BY <1>2, <1>5, <1>6, <2>1, <2>2 DEF storeVars, Doing
<1>10. CASE MakeFolder \/ Unpack \/ Lift \/ Drop \/ Move \/ Sweep
  <2>1. UNCHANGED <<storeVars, requests, layout, wanted, during, known, calm, fetched, damaged>>
    BY <1>10 DEF unmoved, MakeFolder, Unpack, Lift, Drop, Move, Sweep, Quiet
  <2>2. at' \in {"sweep", "unpack", "lift", "drop", "move", "idle"}
    BY <1>10 DEF MakeFolder, Unpack, Lift, Drop, Move, Sweep
  <2> QED
    BY <1>2, <1>5, <1>6, <2>1, <2>2 DEF storeVars, BundleTypes
<1>11. CASE CopyFails \/ UnpackFails \/ LiftFails
  <2>1. /\ UNCHANGED <<kind, fileVars, meta, call, requests, layout, wanted, during, known, fetched>> /\ at' = "sweep"
        /\ faults' \in {faults, faults - 1} /\ (faults' # faults => faults > 0)
        /\ calm' \in BOOLEAN /\ damaged' \in BOOLEAN
    BY <1>2, <1>11 DEF unmoved, CopyFails, UnpackFails, LiftFails, Breaks, Fault, Quiet, storeVars
  <2> QED
    BY <1>2, <1>5, <1>6, <2>1 DEF BundleTypes
<1> QED
  BY <1>7, <1>8, <1>9, <1>10, <1>11 DEF Stage

LEMMA TypesNext == BundleTypes /\ [Next]_vars => BundleTypes'
<1> SUFFICES ASSUME BundleTypes, [Next]_vars PROVE BundleTypes'
  OBVIOUS
<1>1. Node \in Callers /\ Clients \subseteq Callers /\ Node \notin Clients
  BY CallersAssumption
<1>2. /\ StoreTypes /\ requests \subseteq Asked
      /\ \A r \in requests : r.op = "set" => r.content \in Contents
      /\ layout \in {"flat", "nested", "hollow"}
      /\ wanted \in BOOLEAN /\ at \in Stages
      /\ known \in Bundle \cup {None, Unknown}
      /\ during \in [Clients -> SUBSET Ops]
      /\ calm \in BOOLEAN /\ damaged \in BOOLEAN /\ fetched \in BOOLEAN
  BY DEF BundleTypes
<1>3. CASE Stores
  <2>1. PICK c \in Callers : StorageStep(c)
    BY <1>3 DEF Stores
  <2>2. StoreTypes'
    BY <1>2, <2>1, TypesStep
  <2>3. /\ \A d \in Callers : d # c => call'[d] = call[d]
        /\ call'[c].op = call[c].op
    BY <1>2, <2>1, StepIsOwn
  <2>4. ~Doing(c, "get", "ok")
    BY <2>1, AnswerIsLast DEF Doing, Results
  <2>5. at \in {"copy", "verify", "type"} => c # Node
    BY <2>4 DEF BundleTypes
  <2>6. UNCHANGED <<requests, layout, wanted, during, known, at, damaged, fetched>>
    BY <1>3 DEF Stores, unmoved, nodeVars
  <2>7. calm' \in BOOLEAN
    BY <1>3 DEF Stores
  <2> QED
    BY <1>1, <1>2, <2>2, <2>3, <2>5, <2>6, <2>7 DEF BundleTypes, Doing
<1>4. ASSUME NEW r \in requests, SiteChanges(r) PROVE BundleTypes'
  BY <1>2, <1>4 DEF SiteChanges, BundleTypes, StoreTypes, storeVars, fileVars, nodeVars, Doing
<1>5. ASSUME NEW r \in requests, NEW c \in Clients, Request(c, r) PROVE BundleTypes'
  <2>1. r \in Asked /\ r.op \in {"set", "getMeta", "delete"}
    BY <1>2, <1>5 DEF Request, Asked
  <2>2. [type |-> TRUE, hash |-> r.hash] \in Metadata /\ r.op \in Ops
    BY <2>1 DEF Asked, Metadata, Ops
  <2>3. /\ call' \in [Callers -> Calls] /\ call'[c].op = r.op
        /\ \A d \in Callers : d # c => call'[d] = call[d]
        /\ \A d \in Callers : CallOK(kind', files', call'[d])
    BY <1>1, <1>2, <1>5, <2>1, <2>2, AskEffect DEF Request, Asked, fileVars
  <2>4. StoreTypes'
    BY <1>2, <1>5, <2>3, StoreStays DEF Request, StoreTypes
  <2>5. during' \in [Clients -> SUBSET Ops]
    <3>1. \A b \in Busy : during[b] \in SUBSET Ops /\ call[b].op \in Ops
      BY <1>1, <1>2 DEF Busy, StoreTypes, Calls
    <3>2. UNION {during[b] \cup {call[b].op} : b \in Busy} \in SUBSET Ops
      BY <3>1
    <3> QED
      BY <1>2, <1>5, <2>2, <3>2 DEF Request
  <2> QED
    BY <1>1, <1>2, <1>5, <2>1, <2>3, <2>4, <2>5
    DEF Request, BundleTypes, nodeVars, Doing
<1>6. ASSUME NEW c \in Clients, Update(c) PROVE BundleTypes'
  <2>1. SetNewMeta(c) \in Metadata /\ call[c].content \in Contents \cup {None}
    BY <1>1, <1>2, <1>6, SetNewMetaType DEF Update, StoreTypes, Calls
  <2>2. /\ call' \in [Callers -> Calls] /\ call'[c].op = "setMeta"
        /\ \A d \in Callers : d # c => call'[d] = call[d]
        /\ \A d \in Callers : CallOK(kind', files', call'[d])
    BY <1>1, <1>2, <1>6, <2>1, AskEffect DEF Update, fileVars, Ops
  <2>3. StoreTypes'
    BY <1>2, <1>6, <2>2, StoreStays DEF Update, StoreTypes
  <2> QED
    BY <1>1, <1>2, <1>6, <2>2, <2>3 DEF Update, BundleTypes, nodeVars, histVars, Doing
<1>7. ASSUME NEW c \in Clients, Answer(c) PROVE BundleTypes'
  <2>1. /\ call' \in [Callers -> Calls] /\ call'[c] = Idle
        /\ \A d \in Callers : d # c => call'[d] = call[d]
        /\ \A d \in Callers : CallOK(kind', files', call'[d])
    BY <1>1, <1>2, <1>7, IdleEffect DEF Answer, fileVars
  <2>2. StoreTypes'
    BY <1>2, <1>7, <2>1, StoreStays DEF Answer, StoreTypes
  <2>3. Told(c) \in Bundle \cup {None, Unknown}
    <3>1. c \in Callers /\ call[c].op # "get"
      BY <1>1 DEF BundleTypes
    <3> QED
      BY <1>2, <1>7, <3>1, ToldType DEF Answer
  <2>4. known' \in Bundle \cup {None, Unknown}
    BY <1>7, <2>3 DEF Answer
  <2> QED
    BY <1>1, <1>2, <1>7, <2>1, <2>2, <2>4, Values DEF Answer, BundleTypes, nodeVars, Doing, Idle, Ops
<1>8. CASE Stage
  BY <1>2, <1>8, StageTypes
<1>9. CASE Crash
  <2>1. /\ call' \in [Callers -> Calls] /\ \A c \in Callers : call'[c] = Idle
    BY <1>9, IdleIsCall DEF Crash
  <2>2. CallOK(kind, files, Idle) /\ Idle.op = None
    BY Values DEF CallOK, PlacesOf, Idle, Ops
  <2>3. StoreTypes'
    BY <1>2, <1>9, <2>1, <2>2, StoreStays DEF Crash, Fault, fileVars, StoreTypes
  <2> QED
    BY <1>1, <1>2, <1>9, <2>1, <2>2, <2>3, Values DEF Crash, BundleTypes, Stages, Ops
<1>10. CASE UNCHANGED vars
  BY <1>2, <1>10 DEF vars, BundleTypes, StoreTypes, storeVars, fileVars, nodeVars, histVars, Doing
<1> QED
  BY <1>3, <1>4, <1>5, <1>6, <1>7, <1>8, <1>9, <1>10 DEF Next

-----------------------------------------------------------------------------
(* The disk of the node *)

LEMMA WholeInit == Init => WholeInv
BY Values DEF Init, WholeInv

LEMMA WholeNext == BundleTypes /\ WholeInv /\ [Next]_vars => WholeInv'
<1> SUFFICES ASSUME BundleTypes, WholeInv, [Next]_vars PROVE WholeInv'
  OBVIOUS
<1>1. CASE Stores \/ (\E r \in requests : SiteChanges(r) \/ \E c \in Clients : Request(c, r))
  BY <1>1 DEF Stores, SiteChanges, Request, nodeVars, WholeInv
<1>2. CASE \E c \in Clients : Update(c) \/ Answer(c)
  BY <1>2 DEF Update, Answer, nodeVars, histVars, WholeInv
<1>3. CASE Crash
  BY <1>3 DEF Crash, WholeInv, BundleTypes, Stages
<1>4. CASE UNCHANGED vars
  BY <1>4 DEF vars, nodeVars, histVars, WholeInv
<1>5. CASE Stage
  <2> USE Values DEF WholeInv, Step
  <2>1. CASE Begin
    BY <2>1 DEF Begin
  <2>2. CASE Create \/ Copy
    BY <2>2 DEF Create, Copy, Quiet
  <2>3. CASE NotFetched
    BY <2>3 DEF NotFetched
  <2>4. CASE CopyFails \/ LiftFails
    BY <2>4 DEF CopyFails, LiftFails, Breaks
  <2>5. CASE Mismatch \/ Verified
    BY <2>5 DEF Mismatch, Verified
  <2>6. CASE WriteType \/ WriteTypeFails
    BY <2>6 DEF WriteType, WriteTypeFails
  <2>7. CASE MakeFolder
    BY <2>7 DEF MakeFolder, Quiet
  <2>8. CASE Unpack
    BY <2>8 DEF Unpack, Quiet
  <2>9. CASE UnpackFails
    BY <2>9 DEF UnpackFails, Breaks, Quiet
  <2>10. CASE Lift \/ Drop \/ Move
    BY <2>10 DEF Lift, Drop, Move, Quiet
  <2>11. CASE Sweep
    BY <2>11 DEF Sweep, Quiet
  <2> QED
    BY <1>5, <2>1, <2>2, <2>3, <2>4, <2>5, <2>6, <2>7, <2>8, <2>9, <2>10, <2>11 DEF Stage
<1> QED
  BY <1>1, <1>2, <1>3, <1>4, <1>5 DEF Next

(* What is in the cache, staged and left aside is whole, for any requests  *)
(* and faults, unless something was cut short or taken without a hash or a *)
(* type.                                                                   *)
THEOREM OnlyWholeBundlesAlways == Spec => []OnlyWholeBundles
<1>1. WholeInv => OnlyWholeBundles
  BY DEF WholeInv, OnlyWholeBundles
<1> QED
  BY <1>1, TypesInit, TypesNext, WholeInit, WholeNext, PTL DEF Spec

-----------------------------------------------------------------------------
(* The story that the answers tell *)

LEMMA ReadsOnly ==
  ASSUME StoreTypes, NEW c \in Callers, StorageStep(c), call[c].op \in {"get", "getMeta"}
  PROVE  UNCHANGED <<fileVars, meta>>
<1>1. call[c] \in Calls /\ CallOK(kind, files, call[c]) /\ kind \in Kinds
  BY DEF StoreTypes
<1>2. call[c].at \in {"begin", "read", "ok", "missing", "error"}
  BY <1>1, Values DEF CallOK, PlacesOf, Ops, Kinds
<1> QED
  BY <1>2 DEF StorageStep, Doing, Taken, Free, LocalCreate, LocalCopyBegin, LocalCopyEnd, S3Put,
     AzurePut, MetaFails, LocalLook, LocalCut, LocalWrite, PutMeta, ReadMeta, GotMeta, Open,
     DeleteLook, Remove, LocalRemove, LocalRemoveMeta, Missed, Fails

LEMMA KnownStays ==
  UNCHANGED <<file, data, meta, known>> => (KnownIsTrue <=> KnownIsTrue')
BY DEF KnownIsTrue, Matches

LEMMA SoloSetStep ==
  ASSUME StoreTypes, NEW c \in Callers, StorageStep(c), kind # "azure",
         call[c].op = "set", SoloSet(call[c]), known' = known
  PROVE  SoloSet(call[c])'
<1>1. /\ call[c] \in Calls /\ CallOK(kind, files, call[c]) /\ kind \in Kinds
      /\ call \in [Callers -> Calls] /\ file \in 0..files /\ shared \subseteq 1..files
      /\ files \in 0..MaxFiles /\ MaxFiles \in Nat
      /\ data \in [1..MaxFiles -> Contents \cup {Torn, Empty}]
  BY FilesAssumption DEF StoreTypes
<1>2. /\ call[c].at \in PlacesOf(kind, "set") /\ call[c].content \in Contents
      /\ call[c].at = "copy" => call[c].fd \in 1..files
      /\ call[c].at = "unlink" => call[c].next = "error"
  BY <1>1 DEF CallOK
<1>3. /\ call'[c].op = "set" /\ call'[c].content = call[c].content
      /\ call'[c].meta = call[c].meta
  BY StepIsOwn
<1>4. ASSUME NEW place \in Places, Goto(c, place)
      PROVE  call'[c].at = place /\ call'[c].fd = call[c].fd
  BY <1>1, <1>4, GotoEffect
<1>5. Results \subseteq Places /\ {"put", "copy", "cut", "write", "undo", "unlink"} \subseteq Places
  BY DEF Places
<1> USE DEF SoloSet
<1>6. CASE Taken(c)
  BY <1>3, <1>4, <1>5, <1>6, KnownStays DEF Taken, fileVars, Doing, Results
<1>7. CASE Free(c)
  BY <1>3, <1>4, <1>5, <1>7, KnownStays DEF Free, fileVars, Doing
<1>8. CASE LocalCreate(c)
  <2>1. file = 0
    BY <1>8 DEF LocalCreate, Doing
  <2>2. file' = files + 1 /\ shared' = shared
    BY <1>8, <2>1 DEF LocalCreate, NewFile
  <2>3. call'[c].at = "copy" /\ call'[c].fd = file'
    BY <1>1, <1>8 DEF LocalCreate, Calls
  <2> QED
    BY <1>1, <2>2, <2>3
<1>9. CASE LocalCopyBegin(c)
  BY <1>9 DEF LocalCopyBegin, Doing
<1>10. CASE LocalCopyEnd(c)
  <2>1. file = call[c].fd /\ file \notin shared /\ file \in 1..MaxFiles
    BY <1>1, <1>2, <1>10 DEF LocalCopyEnd, Doing
  <2>2. data' = [data EXCEPT ![file] = call[c].content] /\ file' = file
    BY <1>10, <2>1 DEF LocalCopyEnd
  <2>3. call'[c].at = "cut"
    BY <1>4, <1>5, <1>10 DEF LocalCopyEnd
  <2> QED
    BY <1>1, <1>3, <2>1, <2>2, <2>3
<1>11. CASE S3Put(c)
  <2>1. file' = files + 1 /\ data' = [data EXCEPT ![file'] = call[c].content]
        /\ meta' = call[c].meta /\ file' \in 1..MaxFiles
    BY <1>1, <1>11 DEF S3Put, NewFile
  <2>2. call'[c].at \in {"ok", "error"}
    BY <1>4, <1>5, <1>11 DEF S3Put, Results
  <2> QED
    BY <1>1, <1>3, <2>1, <2>2
<1>12. CASE MetaFails(c) \/ Fails(c)
  BY <1>4, <1>5, <1>12 DEF MetaFails, Fails, Results
<1>13. CASE LocalCut(c)
  BY <1>3, <1>4, <1>5, <1>13 DEF LocalCut, fileVars
<1>14. CASE LocalWrite(c)
  BY <1>3, <1>4, <1>5, <1>14 DEF LocalWrite, fileVars, Results
<1>15. CASE LocalRemove(c)
  BY <1>1, <1>15 DEF LocalRemove, Calls
<1>16. CASE LocalRemoveMeta(c)
  BY <1>2, <1>4, <1>5, <1>16 DEF LocalRemoveMeta, Results
<1>17. call[c].at \notin {"meta", "read", "remove"}
  BY <1>1, <1>2, Values DEF PlacesOf, Ops, Kinds
<1> QED
  BY <1>6, <1>7, <1>8, <1>9, <1>10, <1>11, <1>12, <1>13, <1>14, <1>15, <1>16, <1>17
  DEF StorageStep, Doing, AzurePut, LocalLook, PutMeta, ReadMeta, Open, DeleteLook, Remove, Missed

LEMMA SoloGetMetaStep ==
  ASSUME StoreTypes, NEW c \in Callers, StorageStep(c),
         call[c].op = "getMeta", SoloGetMeta(call[c]), known' = known
  PROVE  SoloGetMeta(call[c])'
<1>1. /\ call[c] \in Calls /\ CallOK(kind, files, call[c]) /\ kind \in Kinds
      /\ call \in [Callers -> Calls]
  BY DEF StoreTypes
<1>2. call[c].at \in {"begin", "read", "ok", "missing", "error"}
  BY <1>1, Values DEF CallOK, PlacesOf, Ops, Kinds
<1>3. UNCHANGED <<file, data, meta>> /\ (KnownIsTrue <=> KnownIsTrue')
  BY ReadsOnly, KnownStays DEF fileVars
<1>4. ASSUME NEW place \in Places, Goto(c, place) PROVE call'[c].at = place
  BY <1>1, <1>4, GotoEffect
<1>5. Results \subseteq Places /\ "read" \in Places
  BY DEF Places
<1> USE DEF SoloGetMeta
<1>6. CASE LocalLook(c)
  BY <1>3, <1>4, <1>5, <1>6 DEF LocalLook, Doing
<1>7. CASE ReadMeta(c)
  <2>1. file # 0 /\ KnownIsTrue
    BY <1>7 DEF ReadMeta, Doing
  <2>2. CASE meta = Torn
    BY <1>3, <1>4, <1>5, <1>7, <2>2 DEF ReadMeta, GotMeta, Results
  <2>3. CASE meta # Torn
    <3>1. /\ call'[c].at = "ok"
          /\ call'[c].meta = IF meta = Empty THEN None ELSE meta
      BY <1>1, <1>7, <2>3 DEF ReadMeta, GotMeta, Calls
    <3>2. known # Unknown => meta # Empty
      BY <2>1, Values DEF KnownIsTrue, Matches, Bundle
    <3> QED
      BY <1>3, <2>1, <3>1, <3>2
  <2> QED
    BY <2>2, <2>3
<1>8. CASE Missed(c) \/ Fails(c)
  BY <1>2, <1>3, <1>4, <1>5, <1>8 DEF Missed, Fails, Results
<1> QED
  BY <1>2, <1>6, <1>7, <1>8
  DEF StorageStep, Doing, Taken, Free, LocalCreate, LocalCopyBegin, LocalCopyEnd, S3Put, AzurePut,
      MetaFails, LocalCut, LocalWrite, PutMeta, Open, DeleteLook, Remove, LocalRemove,
      LocalRemoveMeta

LEMMA SoloSetMetaStep ==
  ASSUME StoreTypes, NEW c \in Callers, StorageStep(c),
         call[c].op = "setMeta", SoloSetMeta(call[c]), known' = known
  PROVE  SoloSetMeta(call[c])'
<1>1. /\ call[c] \in Calls /\ CallOK(kind, files, call[c]) /\ kind \in Kinds
      /\ call \in [Callers -> Calls]
  BY DEF StoreTypes
<1>2. call[c].at \in {"begin", "cut", "write", "ok", "missing", "error"}
  BY <1>1, Values DEF CallOK, PlacesOf, Ops, Kinds
<1>3. call'[c].meta = call[c].meta
  BY StepIsOwn
<1>4. ASSUME NEW place \in Places, Goto(c, place) PROVE call'[c].at = place
  BY <1>1, <1>4, GotoEffect
<1>5. Results \subseteq Places /\ {"cut", "write"} \subseteq Places
  BY DEF Places
<1> USE DEF SoloSetMeta
<1>6. CASE LocalLook(c) \/ LocalCut(c)
  BY <1>3, <1>4, <1>5, <1>6 DEF LocalLook, LocalCut, Doing, fileVars
<1>7. CASE LocalWrite(c) \/ PutMeta(c)
  BY <1>3, <1>4, <1>5, <1>7 DEF LocalWrite, PutMeta, Doing, fileVars, Results
<1>8. CASE Missed(c) \/ Fails(c)
  BY <1>2, <1>3, <1>4, <1>5, <1>8 DEF Missed, Fails, Results, fileVars
<1> QED
  BY <1>2, <1>6, <1>7, <1>8
  DEF StorageStep, Doing, Taken, Free, LocalCreate, LocalCopyBegin, LocalCopyEnd, S3Put, AzurePut,
      MetaFails, ReadMeta, Open, DeleteLook, Remove, LocalRemove, LocalRemoveMeta

LEMMA SoloDeleteStep ==
  ASSUME StoreTypes, NEW c \in Callers, StorageStep(c),
         call[c].op = "delete", SoloDelete(call[c])
  PROVE  SoloDelete(call[c])'
<1>1. /\ call[c] \in Calls /\ CallOK(kind, files, call[c]) /\ kind \in Kinds
      /\ call \in [Callers -> Calls]
  BY DEF StoreTypes
<1>2. call[c].at \in {"begin", "unlink", "remove", "ok", "missing", "error"}
  BY <1>1, Values DEF CallOK, PlacesOf, Ops, Kinds
<1>4. ASSUME NEW place \in Places, Goto(c, place) PROVE call'[c].at = place
  BY <1>1, <1>4, GotoEffect
<1>5. Results \subseteq Places /\ "remove" \in Places
  BY DEF Places
<1> USE DEF SoloDelete
<1>6. CASE DeleteLook(c) \/ Remove(c)
  BY <1>4, <1>5, <1>6 DEF DeleteLook, Remove, Results
<1>7. CASE LocalRemove(c)
  BY <1>1, <1>7 DEF LocalRemove, Calls
<1>8. CASE LocalRemoveMeta(c)
  <2>1. \/ call'[c].at = call[c].next
        \/ call'[c].at = "error"
    BY <1>1, <1>4, <1>5, <1>8 DEF LocalRemoveMeta, Calls, Results
  <2>2. file' = file /\ (file = 0 \/ call[c].next = "error") /\ call'[c].at # "unlink"
    BY <1>1, <1>8, <2>1 DEF LocalRemoveMeta, fileVars, Calls, Results
  <2> QED
    BY <2>1, <2>2
<1>9. CASE Missed(c) \/ Fails(c)
  BY <1>2, <1>4, <1>5, <1>9 DEF Missed, Fails, Results, fileVars
<1> QED
  BY <1>2, <1>6, <1>7, <1>8, <1>9
  DEF StorageStep, Doing, Taken, Free, LocalCreate, LocalCopyBegin, LocalCopyEnd, S3Put, AzurePut,
      MetaFails, LocalLook, LocalCut, LocalWrite, PutMeta, ReadMeta, Open

LEMMA SoloStep ==
  ASSUME StoreTypes, NEW c \in Callers, StorageStep(c), ~ToAzure(c), Solo(call[c]),
         known' = known
  PROVE  Solo(call[c])'
<1>1. call'[c].op = call[c].op
  BY StepIsOwn
<1>2. call[c].op = "set" => SoloSet(call[c])'
  BY SoloSetStep DEF Solo, ToAzure
<1>3. call[c].op = "getMeta" => SoloGetMeta(call[c])'
  BY SoloGetMetaStep DEF Solo
<1>4. call[c].op = "setMeta" => SoloSetMeta(call[c])'
  BY SoloSetMetaStep DEF Solo
<1>5. call[c].op = "delete" => SoloDelete(call[c])'
  BY SoloDeleteStep DEF Solo
<1> QED
  BY <1>1, <1>2, <1>3, <1>4, <1>5 DEF Solo

LEMMA UploadsStep ==
  ASSUME StoreTypes, NEW c \in Busy, StorageStep(c), kind = "azure",
         \A d \in Busy : call[d].op = "set", Uploads, known' = known
  PROVE  Uploads'
<1>1. Clients \subseteq Callers /\ Busy \subseteq Callers /\ c \in Callers
  BY CallersAssumption DEF Busy
<1>2. /\ call[c] \in Calls /\ CallOK(kind, files, call[c])
      /\ call \in [Callers -> Calls] /\ file \in 0..files
      /\ files \in 0..MaxFiles /\ MaxFiles \in Nat
      /\ data \in [1..MaxFiles -> Contents \cup {Torn, Empty}]
  BY <1>1, FilesAssumption DEF StoreTypes
<1>3. /\ call[c].op = "set"
      /\ call[c].at \in {"begin", "meta", "undo", "ok", "exists", "error"}
  BY <1>2, Values DEF CallOK, PlacesOf, Ops
<1>4. /\ \A d \in Callers : d # c => call'[d] = call[d]
      /\ call'[c].op = "set" /\ call'[c].content = call[c].content
      /\ call'[c].meta = call[c].meta
  BY <1>1, <1>3, StepIsOwn
<1>5. Busy' = Busy
  BY <1>1, <1>3, <1>4, Values DEF Busy, Ops
<1>6. ASSUME NEW place \in Places, Goto(c, place) PROVE call'[c].at = place
  BY <1>1, <1>2, <1>6, GotoEffect
<1>7. Results \subseteq Places /\ {"meta", "undo"} \subseteq Places
  BY DEF Places
<1>8. ASSUME ~HasPut(call[c])', call[c].at \in {"meta", "undo", "ok"}
             \/ UNCHANGED <<file, data, meta>>,
             call'[c].at \in {"begin", "exists"} => UNCHANGED <<file, data, meta>> /\
               call[c].at \in {"begin", "exists"}
      PROVE  Uploads'
  <2>1. ASSUME NEW d \in Busy, HasPut(call[d])'
        PROVE  UNCHANGED <<file, data, meta>> /\ d # c /\ call'[d] = call[d]
    BY <1>1, <1>4, <1>8, <2>1 DEF Uploads, HasPut
  <2>2. (\A d \in Busy : call'[d].at \in {"begin", "exists"}) => KnownIsTrue'
    BY <1>1, <1>4, <1>8, KnownStays DEF Uploads
  <2> QED
    BY <1>5, <2>1, <2>2 DEF Uploads, HasPut
<1>9. CASE Taken(c)
  BY <1>6, <1>7, <1>8, <1>9 DEF Taken, Doing, fileVars, Results, HasPut
<1>10. CASE AzurePut(c)
  <2>1. /\ file = 0 /\ file' = files + 1 /\ data' = [data EXCEPT ![file'] = call[c].content]
        /\ file' \in 1..MaxFiles
    BY <1>2, <1>10 DEF AzurePut, NewFile
  <2>2. \A d \in Busy : ~HasPut(call[d])
    BY <2>1 DEF Uploads
  <2>3. call'[c].at \in {"meta", "error"}
    BY <1>6, <1>7, <1>10 DEF AzurePut, Results
  <2>4. \A d \in Busy : HasPut(call[d])' => d = c /\ call'[c].at = "meta"
    BY <1>1, <1>4, <2>2, <2>3 DEF HasPut
  <2>5. file' # 0 /\ data'[file'] = call'[c].content
    BY <1>2, <1>4, <2>1
  <2> QED
    BY <1>5, <2>3, <2>4, <2>5 DEF Uploads
<1>11. CASE MetaFails(c) \/ PutMeta(c)
  <2>1. call[c].at = "meta" /\ file # 0 /\ data[file] = call[c].content
    BY <1>3, <1>11 DEF MetaFails, PutMeta, Doing, Uploads, HasPut
  <2>2. file' = file /\ data' = data
    BY <1>11 DEF MetaFails, PutMeta, fileVars
  <2>3. \/ call'[c].at = "undo"
        \/ call'[c].at = "ok" /\ meta' = call[c].meta
    BY <1>3, <1>6, <1>7, <1>11 DEF MetaFails, PutMeta, Results
  <2>4. \A d \in Busy : HasPut(call[d])' => d = c
    BY <1>1, <1>4, <2>1 DEF HasPut, Uploads
  <2>5. \A d \in Busy : d # c => ~HasPut(call[d])'
    BY <2>4
  <2> QED
    BY <1>4, <1>5, <2>1, <2>2, <2>3, <2>4, <2>5 DEF Uploads
<1>12. CASE Remove(c)
  <2>1. call[c].at = "undo" /\ call'[c].at = "error"
    BY <1>3, <1>6, <1>7, <1>12 DEF Remove, Doing, Results
  <2> QED
    BY <1>8, <2>1 DEF HasPut
<1>13. CASE Fails(c)
  <2>1. call'[c].at = "error" /\ UNCHANGED <<file, data, meta>>
    BY <1>6, <1>7, <1>13 DEF Fails, fileVars, Results
  <2> QED
    BY <1>8, <2>1 DEF HasPut
<1> QED
  BY <1>3, <1>9, <1>10, <1>11, <1>12, <1>13
  DEF StorageStep, Doing, Free, LocalCreate, LocalCopyBegin, LocalCopyEnd, S3Put, LocalLook,
      LocalCut, LocalWrite, ReadMeta, Open, DeleteLook, LocalRemove, LocalRemoveMeta, Missed

LEMMA StoryInit == Init => StoryInv
<1> SUFFICES ASSUME Init PROVE StoryInv
  OBVIOUS
<1>1. Busy = {}
  BY CallersAssumption DEF Init, StoreInit, Busy, Idle
<1>2. KnownIsTrue
  BY DEF Init, StoreInit, KnownIsTrue, Matches
<1> QED
  BY <1>1, <1>2 DEF StoryInv, Overlap, Uploads

(* The story goes on as it was when only the node does something.          *)
LEMMA StoryStays ==
  ASSUME StoryInv, UNCHANGED <<kind, file, data, shared, meta, known, during>>,
         \A d \in Clients : call'[d] = call[d]
  PROVE  StoryInv'
<1>1. Busy' = Busy /\ Busy \subseteq Clients
  BY DEF Busy
<1>2. KnownIsTrue <=> KnownIsTrue'
  BY KnownStays
<1>3. \A c \in Busy : (OnlySets(c) <=> OnlySets(c)') /\ (ToAzure(c) <=> ToAzure(c)')
  BY <1>1 DEF OnlySets, ToAzure
<1>4. ASSUME NEW c \in Busy, Solo(call[c]) PROVE Solo(call[c])'
  BY <1>1, <1>2, <1>4 DEF Solo, SoloSet, SoloGetMeta, SoloSetMeta, SoloDelete
<1>5. Uploads => Uploads'
  BY <1>1, <1>2 DEF Uploads, HasPut
<1>6. Overlap'
  BY <1>1, <1>3 DEF StoryInv, Overlap
<1> QED
  BY <1>1, <1>2, <1>3, <1>4, <1>5, <1>6 DEF StoryInv

LEMMA StoryStores == BundleTypes /\ StoryInv /\ Stores => StoryInv'
<1> SUFFICES ASSUME BundleTypes, StoryInv, Stores PROVE StoryInv'
  OBVIOUS
<1>1. PICK c \in Callers : StorageStep(c)
  BY DEF Stores
<1>2. /\ Clients \subseteq Callers /\ Busy \subseteq Clients
      /\ c \in Clients \/ c = Node
  BY CallersAssumption DEF Busy
<1>3. UNCHANGED <<known, during>> /\ StoreTypes
  BY DEF Stores, unmoved, BundleTypes
<1>4. /\ kind' = kind /\ call[c].op # None /\ call'[c].op = call[c].op
      /\ \A d \in Callers : d # c => call'[d] = call[d]
  BY <1>1, <1>3, StepIsOwn
<1>5. CASE c = Node
  <2>1. call[c].op = "get"
    BY <1>4, <1>5 DEF BundleTypes
  <2>2. UNCHANGED <<fileVars, meta>>
    BY <1>1, <1>3, <2>1, ReadsOnly
  <2>3. \A d \in Clients : call'[d] = call[d]
    BY <1>4, <1>5, CallersAssumption
  <2> QED
    BY <1>3, <1>4, <2>2, <2>3, StoryStays DEF fileVars
<1>6. CASE c \in Clients
  <2>1. c \in Busy /\ Busy' = Busy
    BY <1>2, <1>4, <1>6 DEF Busy
  <2>2. \A d \in Busy : /\ OnlySets(d) <=> OnlySets(d)'
                        /\ ToAzure(d) <=> ToAzure(d)'
    BY <1>2, <1>3, <1>4 DEF OnlySets, ToAzure
  <2>3. Overlap'
    BY <1>3, <2>1, <2>2 DEF StoryInv, Overlap
  <2>4. ASSUME NEW d \in Busy, during[d] = {}, ~ToAzure(d) PROVE Solo(call[d])'
    <3>1. d = c
      BY <2>1, <2>4 DEF StoryInv, Overlap
    <3>2. Solo(call[c]) /\ ~ToAzure(c)
      BY <2>4, <3>1 DEF StoryInv
    <3>3. Solo(call[c])'
      BY <1>1, <1>3, <3>2, SoloStep
    <3> QED
      BY <3>1, <3>3
  <2>5. ASSUME kind = "azure", \A d \in Busy : OnlySets(d) PROVE Uploads'
    <3>1. Uploads /\ \A d \in Busy : call[d].op = "set"
      BY <2>5 DEF StoryInv, OnlySets
    <3> QED
      BY <1>1, <1>3, <2>1, <2>5, <3>1, UploadsStep
  <2> QED
    BY <1>3, <1>4, <2>1, <2>2, <2>3, <2>4, <2>5 DEF StoryInv
<1> QED
  BY <1>2, <1>5, <1>6

LEMMA StoryRequest ==
  ASSUME BundleTypes, StoryInv, NEW r \in requests, NEW c \in Clients, Request(c, r)
  PROVE  StoryInv'
<1>1. /\ c \in Callers /\ Clients \subseteq Callers /\ Busy \subseteq Clients
      /\ StoreTypes /\ r \in Asked /\ r.op \in {"set", "getMeta", "delete"}
      /\ call \in [Callers -> Calls] /\ during \in [Clients -> SUBSET Ops]
  BY CallersAssumption DEF BundleTypes, StoreTypes, Request, Asked, Busy
<1>2. [type |-> TRUE, hash |-> r.hash] \in Metadata /\ r.op \in Ops
  BY <1>1 DEF Asked, Metadata, Ops
<1>3. UNCHANGED <<kind, file, files, data, shared, meta, known>>
  BY DEF Request, fileVars
<1>4. /\ call'[c].op = r.op /\ call'[c].at = "begin"
      /\ \A d \in Callers : d # c => call'[d] = call[d]
  BY <1>1, <1>2, <1>3, AskEffect DEF Request, BundleTypes, Asked
<1>5. Busy' = Busy \cup {c} /\ c \notin Busy
  BY <1>1, <1>2, <1>4, Values DEF Busy, Request
<1>6. /\ during'[c] = UNION {during[b] \cup {call[b].op} : b \in Busy}
      /\ \A d \in Busy : during'[d] = during[d] \cup {r.op}
  BY <1>1, <1>5 DEF Request
<1>7. KnownIsTrue => KnownIsTrue'
  BY <1>3, KnownStays
<1>8. \A d \in Busy : OnlySets(d)' <=> OnlySets(d) /\ r.op = "set"
  BY <1>1, <1>4, <1>5, <1>6 DEF OnlySets
<1>9. OnlySets(c)' <=> (\A d \in Busy : OnlySets(d)) /\ r.op = "set"
  <2>1. OnlySets(c)' <=> during'[c] \subseteq {"set"} /\ r.op = "set"
    BY <1>4 DEF OnlySets
  <2>2. during'[c] \subseteq {"set"} <=>
          \A b \in Busy : during[b] \cup {call[b].op} \subseteq {"set"}
    BY <1>6
  <2> QED
    BY <2>1, <2>2 DEF OnlySets
<1>10. Overlap'
  <2>1. \A d \in Busy : during'[d] # {} /\ during'[c] # {}
    BY <1>6
  <2>2. \A d, e \in Busy : OnlySets(d) <=> OnlySets(e)
    BY DEF StoryInv, Overlap
  <2>3. \A d, e \in Busy' : OnlySets(d)' <=> OnlySets(e)'
    BY <1>5, <1>8, <1>9, <2>2
  <2> QED
    BY <1>5, <2>1, <2>3 DEF Overlap
<1>11. ASSUME NEW d \in Busy', during'[d] = {} PROVE Solo(call[d])'
  <2>1. d = c /\ Busy = {}
    <3>1. \A b \in Busy : r.op \in during'[b] /\ call[b].op \in during'[c]
      BY <1>6
    <3> QED
      BY <1>5, <1>11, <3>1
  <2>2. KnownIsTrue'
    BY <1>7, <2>1 DEF StoryInv
  <2> QED
    BY <1>1, <1>4, <2>1, <2>2 DEF Solo, SoloSet, SoloGetMeta, SoloSetMeta, SoloDelete
<1>12. ASSUME kind = "azure", \A d \in Busy' : OnlySets(d)' PROVE Uploads'
  <2>1. Uploads
    BY <1>5, <1>8, <1>12 DEF StoryInv
  <2>2. ~HasPut(call[c])'
    BY <1>4 DEF HasPut
  <2>3. \A d \in Busy : call'[d] = call[d]
    BY <1>1, <1>4, <1>5
  <2> QED
    BY <1>3, <1>4, <1>5, <1>7, <2>1, <2>2, <2>3 DEF Uploads, HasPut
<1> QED
  BY <1>3, <1>5, <1>10, <1>11, <1>12 DEF StoryInv

LEMMA StoryUpdate ==
  ASSUME BundleTypes, StoryInv, NEW c \in Clients, Update(c)
  PROVE  StoryInv'
<1>1. /\ c \in Callers /\ Clients \subseteq Callers /\ Busy \subseteq Clients
      /\ StoreTypes /\ call \in [Callers -> Calls] /\ call[c] \in Calls
      /\ call[c].op = "getMeta" /\ call[c].at = "ok"
  BY CallersAssumption DEF BundleTypes, StoreTypes, Update, Busy, Doing
<1>2. SetNewMeta(c) \in Metadata /\ call[c].content \in Contents \cup {None}
  BY <1>1, SetNewMetaType DEF Doing, Calls
<1>3. UNCHANGED <<kind, file, files, data, shared, meta, known, during>>
  BY DEF Update, fileVars, histVars
<1>4. /\ call'[c].op = "setMeta" /\ call'[c].at = "begin"
      /\ call'[c].meta = SetNewMeta(c)
      /\ \A d \in Callers : d # c => call'[d] = call[d]
  BY <1>1, <1>2, <1>3, AskEffect DEF Update, Ops
<1>5. Busy' = Busy /\ c \in Busy
  BY <1>1, <1>4, Values DEF Busy, Ops
<1>6. \A d \in Busy : /\ OnlySets(d) <=> OnlySets(d)'
                      /\ ToAzure(d) <=> ToAzure(d)'
  BY <1>1, <1>3, <1>4, <1>5 DEF OnlySets, ToAzure
<1>7. Overlap'
  BY <1>3, <1>5, <1>6 DEF StoryInv, Overlap
<1>8. ASSUME NEW d \in Busy, during[d] = {}, ~ToAzure(d) PROVE Solo(call[d])'
  <2>1. d = c
    BY <1>5, <1>8 DEF StoryInv, Overlap
  <2>2. SoloGetMeta(call[c])
    BY <1>1, <1>8, <2>1 DEF StoryInv, Solo
  <2>3. known # Unknown =>
          /\ known \in Bundle /\ file # 0 /\ data[file] = known.content
          /\ call[c].meta = known.meta /\ known.meta \in Metadata
    BY <1>1, <2>2 DEF SoloGetMeta, KnownIsTrue, Matches, Bundle
  <2>4. known # Unknown => SetNewMeta(c).type = known.meta.type
    BY <2>3, Values DEF SetNewMeta, Metadata
  <2>5. SoloSetMeta(call[c])'
    BY <1>3, <1>4, <2>3, <2>4 DEF SoloSetMeta
  <2> QED
    BY <1>4, <2>1, <2>5 DEF Solo
<1>9. ~OnlySets(c)'
  BY <1>4 DEF OnlySets
<1> QED
  BY <1>3, <1>5, <1>6, <1>7, <1>8, <1>9 DEF StoryInv

LEMMA StoryAnswer ==
  ASSUME BundleTypes, StoryInv, NEW c \in Clients, Answer(c)
  PROVE  StoryInv'
<1>1. /\ c \in Callers /\ Clients \subseteq Callers /\ Busy \subseteq Clients
      /\ StoreTypes /\ call \in [Callers -> Calls] /\ call[c] \in Calls
      /\ CallOK(kind, files, call[c]) /\ call[c].at \in Results /\ kind \in Kinds
      /\ call[c].op # "get" /\ known \in Bundle \cup {None, Unknown}
  BY CallersAssumption DEF BundleTypes, StoreTypes, Answer, Busy, Answered
<1>2. /\ call[c].op \in Ops
      /\ call[c].op = "set" => call[c].at \in {"ok", "exists", "error"}
      /\ call[c].op # "set" => call[c].at \in {"ok", "missing", "error"}
      /\ ~Doing(c, "getMeta", "ok")
  BY <1>1, Values DEF CallOK, Calls, PlacesOf, Ops, Kinds, Results, Idle, Answer
<1>3. UNCHANGED <<kind, file, files, data, shared, meta, during>> /\ known' = Told(c)
  BY DEF Answer, fileVars
<1>4. call'[c] = Idle /\ \A d \in Callers : d # c => call'[d] = call[d]
  BY <1>1, <1>3, IdleEffect DEF Answer
<1>5. Busy' = Busy \ {c} /\ c \in Busy
  BY <1>1, <1>2, <1>4, Values DEF Busy, Idle
<1>6. \A d \in Busy' : /\ call'[d] = call[d]
                       /\ OnlySets(d) <=> OnlySets(d)'
                       /\ ToAzure(d) <=> ToAzure(d)'
  BY <1>1, <1>3, <1>4, <1>5 DEF OnlySets, ToAzure
<1>7. Overlap'
  BY <1>3, <1>5, <1>6 DEF StoryInv, Overlap
<1>8. \A d \in Busy' : during'[d] # {}
  BY <1>3, <1>5 DEF StoryInv, Overlap
<1>9. ~Alone(c) \/ call[c].at = "error" => KnownIsTrue'
  BY <1>3 DEF Told, KnownIsTrue
<1>10. ASSUME ~ToAzure(c), Alone(c) PROVE KnownIsTrue'
  <2>1. during[c] = {}
    BY <1>10 DEF Alone, ToAzure
  <2>2. Solo(call[c])
    BY <1>5, <1>10, <2>1 DEF StoryInv
  <2>3. CASE call[c].op = "set" /\ call[c].at = "exists"
    BY <1>3, <1>10, <2>2, <2>3, KnownStays DEF Solo, SoloSet, Told
  <2>4. CASE call[c].op = "set" /\ call[c].at = "ok"
    <3>1. known' = [content |-> call[c].content, meta |-> call[c].meta]
      BY <1>3, <1>10, <2>4 DEF Told
    <3>2. call[c].content \in Contents /\ call[c].meta \in Metadata
      BY <1>1, <2>4 DEF CallOK
    <3>3. file # 0 /\ data[file] = call[c].content /\ meta = call[c].meta
      BY <2>2, <2>4 DEF Solo, SoloSet
    <3> QED
      BY <1>3, <3>1, <3>2, <3>3 DEF KnownIsTrue, Matches, Bundle
  <2>5. CASE call[c].at = "missing"
    <3>1. call[c].op \in {"getMeta", "setMeta", "delete"}
      BY <1>1, <1>2, <2>5 DEF Ops
    <3>2. file = 0
      BY <2>2, <2>5, <3>1 DEF Solo, SoloGetMeta, SoloSetMeta, SoloDelete
    <3>3. known' = None
      BY <1>3, <1>10, <2>5 DEF Told
    <3> QED
      BY <1>3, <3>2, <3>3 DEF KnownIsTrue, Matches
  <2>6. CASE call[c].op = "delete" /\ call[c].at = "ok"
    <3>1. file = 0 /\ known' = None
      BY <1>3, <1>10, <2>2, <2>6 DEF Solo, SoloDelete, Told
    <3> QED
      BY <1>3, <3>1 DEF KnownIsTrue, Matches
  <2>7. CASE call[c].op = "setMeta" /\ call[c].at = "ok"
    <3>1. CASE known = Unknown
      BY <1>3, <1>10, <2>7, <3>1 DEF Told, KnownIsTrue
    <3>2. CASE known # Unknown
      <4>1. /\ known \in Bundle /\ file # 0 /\ data[file] = known.content
            /\ call[c].meta.type = known.meta.type /\ meta = call[c].meta
        BY <2>2, <2>7, <3>2 DEF Solo, SoloSetMeta
      <4>2. call[c].meta \in Metadata /\ known.meta \in Metadata
        BY <1>1, <2>7, <4>1 DEF CallOK, Bundle
      <4>3. known # None
        BY <4>1, UnknownAssumption DEF Bundle
      <4>4. known' = [known EXCEPT !.meta.hash = call[c].meta.hash]
        BY <1>3, <1>10, <2>7, <3>2, <4>3 DEF Told
      <4>5. known' = [known EXCEPT !.meta = call[c].meta]
        <5>1. [known.meta EXCEPT !.hash = call[c].meta.hash] = call[c].meta
          BY <4>1, <4>2 DEF Metadata
        <5> QED
          BY <4>1, <4>4, <5>1 DEF Bundle
      <4> QED
        BY <1>3, <4>1, <4>2, <4>5 DEF KnownIsTrue, Matches, Bundle
    <3> QED
      BY <3>1, <3>2
  <2> QED
    BY <1>1, <1>2, <1>9, <2>3, <2>4, <2>5, <2>6, <2>7 DEF Ops, Doing
<1>11. ASSUME kind = "azure", \A d \in Busy : OnlySets(d) PROVE Uploads'
  <2>1. Uploads /\ call[c].op = "set" /\ Alone(c)
    BY <1>5, <1>11 DEF StoryInv, OnlySets, Alone
  <2>2. CASE call[c].at = "error"
    BY <1>3, <1>6, <1>9, <2>1, <2>2, <1>5 DEF Uploads, HasPut
  <2>3. CASE call[c].at = "exists"
    <3>1. known' = known
      BY <1>3, <2>1, <2>3 DEF Told
    <3>2. KnownIsTrue => KnownIsTrue'
      BY <1>3, <3>1, KnownStays
    <3> QED
      BY <1>3, <1>5, <1>6, <2>1, <2>3, <3>2 DEF Uploads, HasPut
  <2>4. CASE call[c].at = "ok"
    <3>1. known' = [content |-> call[c].content, meta |-> call[c].meta]
      BY <1>3, <2>1, <2>4 DEF Told
    <3>2. call[c].content \in Contents /\ call[c].meta \in Metadata
      BY <1>1, <2>1 DEF CallOK
    <3>3. file # 0 /\ data[file] = call[c].content /\ meta = call[c].meta
      BY <1>5, <2>1, <2>4 DEF Uploads, HasPut
    <3>4. KnownIsTrue'
      BY <1>3, <3>1, <3>2, <3>3 DEF KnownIsTrue, Matches, Bundle
    <3> QED
      BY <1>3, <1>5, <1>6, <2>1, <3>4 DEF Uploads, HasPut
  <2> QED
    BY <1>2, <2>1, <2>2, <2>3, <2>4
<1>12. ASSUME Busy' = {} PROVE KnownIsTrue'
  <2>1. CASE ToAzure(c) /\ Alone(c)
    <3>1. kind = "azure" /\ \A d \in Busy : OnlySets(d)
      BY <1>5, <1>12, <2>1 DEF ToAzure, Alone, OnlySets
    <3> QED
      BY <1>11, <1>12, <3>1 DEF Uploads
  <2> QED
    BY <1>9, <1>10, <2>1
<1>13. ASSUME kind = "azure", \A d \in Busy' : OnlySets(d) PROVE Uploads'
  <2>1. CASE Busy' = {}
    BY <1>12, <2>1 DEF Uploads
  <2>2. CASE Busy' # {}
    <3>1. OnlySets(c)
      BY <1>5, <1>13, <2>2 DEF StoryInv, Overlap
    <3> QED
      BY <1>5, <1>11, <1>13, <3>1
  <2> QED
    BY <2>1, <2>2
<1> QED
  BY <1>3, <1>6, <1>7, <1>8, <1>12, <1>13 DEF StoryInv

(* The sync only reads what is stored.                                     *)
LEMMA StageIsOfNode ==
  ASSUME BundleTypes, Stage
  PROVE  /\ UNCHANGED <<kind, fileVars, meta, requests, layout, wanted, during, known>>
         /\ \A d \in Clients : call'[d] = call[d]
<1>1. UNCHANGED <<kind, fileVars, meta, requests, layout, wanted, during, known>>
  BY DEF unmoved, Stage, Begin, Create, NotFetched, Copy, CopyFails, Mismatch, Verified, WriteType,
     WriteTypeFails, MakeFolder, Unpack, UnpackFails, Lift, Drop, Move, LiftFails, Sweep, Breaks,
     Quiet, storeVars
<1>2. call' = call \/ \E q : call' = [call EXCEPT ![Node] = q]
  BY DEF Stage, Begin, Create, NotFetched, Copy, CopyFails, Mismatch, Verified, WriteType,
     WriteTypeFails, MakeFolder, Unpack, UnpackFails, Lift, Drop, Move, LiftFails, Sweep, Breaks,
     Quiet, storeVars, Ask
<1> QED
  BY <1>1, <1>2, CallersAssumption DEF BundleTypes, StoreTypes

LEMMA StoryNext == BundleTypes /\ StoryInv /\ [Next]_vars => StoryInv'
<1> SUFFICES ASSUME BundleTypes, StoryInv, [Next]_vars PROVE StoryInv'
  OBVIOUS
<1>1. CASE Stage
  BY <1>1, StageIsOfNode, StoryStays DEF fileVars, unmoved
<1>2. CASE \E r \in requests : SiteChanges(r)
  BY <1>2, StoryStays DEF SiteChanges, storeVars, fileVars
<1>3. CASE UNCHANGED vars
  BY <1>3, StoryStays DEF vars, storeVars, fileVars, histVars
<1>4. CASE Crash
  <2>1. Busy' = {}
    BY <1>4, CallersAssumption DEF Crash, Busy, Idle
  <2>2. UNCHANGED <<kind, file, data, shared, meta, during>>
    BY <1>4 DEF Crash, fileVars
  <2>3. KnownIsTrue'
    BY <1>4, <2>2, KnownStays DEF Crash, StoryInv, KnownIsTrue
  <2> QED
    BY <2>1, <2>3 DEF StoryInv, Overlap, Uploads
<1> QED
  BY <1>1, <1>2, <1>3, <1>4, StoryStores, StoryRequest, StoryUpdate, StoryAnswer DEF Next

(* When no request is being served, the storage holds what the answers     *)
(* have told, with each of the storages, however the requests before were  *)
(* interleaved and whichever of their steps failed.                        *)
THEOREM AnswersAreTrueAlways == Spec => []AnswersAreTrue
<1>1. StoryInv => AnswersAreTrue
  BY UnknownAssumption DEF StoryInv, AnswersAreTrue, KnownIsTrue, Matches, Bundle
<1> QED
  BY <1>1, TypesInit, TypesNext, StoryInit, StoryNext, PTL DEF Spec

-----------------------------------------------------------------------------
(* A sync that nothing disturbs *)

LEMMA CalmInit == Init => CalmInv
BY DEF Init, CalmInv

(* During such a sync the storage holds what was told.                     *)
LEMMA CalmMatches ==
  ASSUME BundleTypes, StoryInv, CalmInv, calm
  PROVE  /\ Busy = {} /\ known # Unknown /\ Matches
         /\ file # 0 => /\ known \in Bundle /\ known # None
                        /\ data[file] = known.content /\ known.content \in Contents
                        /\ meta = known.meta /\ meta \in Metadata
         /\ file = 0 => known = None
<1>1. Busy = {} /\ known # Unknown /\ Matches
  BY DEF CalmInv, StoryInv, KnownIsTrue
<1>2. None \notin Bundle
  BY UnknownAssumption DEF Bundle
<1> QED
  BY <1>1, <1>2 DEF Matches, Bundle

LEMMA CalmStores ==
  ASSUME BundleTypes, WholeInv, StoryInv, CalmInv, Stores, calm'
  PROVE  CalmInv'
<1>1. PICK c \in Callers : StorageStep(c)
  BY DEF Stores
<1>2. calm /\ faults' = faults /\ UNCHANGED <<unmoved, nodeVars, damaged, fetched>>
  BY DEF Stores, BundleTypes
<1>3. /\ call[c].op # None /\ call'[c].op = call[c].op /\ StoreTypes
      /\ \A d \in Callers : d # c => call'[d] = call[d]
  BY <1>1, StepIsOwn DEF BundleTypes
<1>4. c = Node /\ Busy = {}
  BY <1>2, <1>3, CallersAssumption DEF CalmInv, Busy
<1>5. call[Node].op = "get" /\ UNCHANGED <<file, data, meta>>
  BY <1>1, <1>3, <1>4, ReadsOnly DEF BundleTypes, fileVars
<1>6. Busy' = {}
  BY <1>3, <1>4, CallersAssumption DEF Busy
<1>7. ~Doing(Node, "get", "ok")
  BY <1>1, <1>4, AnswerIsLast DEF Doing, Results
<1>8. at \notin {"copy", "verify", "type"}
  BY <1>7 DEF BundleTypes
<1>9. ASSUME at = "fetch", ~damaged
      PROVE  /\ call'[Node].at \in {"read", "ok"} => Opened'
             /\ call'[Node].at = "missing" => file = 0
             /\ call'[Node].at # "error"
  <2>1. /\ call[Node] \in Calls /\ call \in [Callers -> Calls] /\ faults \in Nat
        /\ CallOK(kind, files, call[Node]) /\ kind \in Kinds /\ Node \in Callers
    BY <1>3, <1>4 DEF StoreTypes
  <2>2. call[Node].at \in {"begin", "read", "ok", "missing", "error"}
    BY <1>5, <2>1, Values DEF CallOK, PlacesOf, Ops, Kinds
  <2>3. ASSUME NEW place \in Places, Goto(Node, place)
        PROVE  call'[Node].at = place
    BY <2>1, <2>3, GotoEffect
  <2>4. Results \subseteq Places
    BY DEF Places
  <2>5. CASE Open(Node)
    <3>1. /\ call'[Node].fd = file /\ file # 0
          /\ \/ call'[Node].at = "read"
             \/ call'[Node].at = "ok" /\ call'[Node].meta = meta
      BY <2>1, <2>5 DEF Open, Found, Calls
    <3> QED
      BY <1>5, <3>1 DEF Opened
  <2>6. CASE ReadMeta(Node)
    <3>1. call[Node].at = "read" /\ Opened
      BY <1>2, <1>5, <1>9, <2>6 DEF ReadMeta, Doing, CalmInv
    <3>2. meta \in Metadata /\ meta # Torn /\ meta # Empty
      BY <1>2, <3>1, CalmMatches, Values DEF Opened
    <3>3. call'[Node].at = "ok" /\ call'[Node].meta = meta /\ call'[Node].fd = call[Node].fd
      BY <2>1, <2>6, <3>2 DEF ReadMeta, GotMeta, Calls
    <3> QED
      BY <1>5, <3>1, <3>3 DEF Opened
  <2>7. CASE Missed(Node)
    <3>1. call'[Node].at = "missing" /\ ~Found
      BY <1>5, <2>3, <2>4, <2>7 DEF Missed, Results
    <3>2. file = 0
      BY <1>2, <3>1, CalmMatches, Values DEF Found
    <3> QED
      BY <3>1, <3>2
  <2>8. ~Fails(Node)
    BY <1>2, <2>1 DEF Fails, Fault
  <2> QED
    BY <1>1, <1>4, <1>5, <2>2, <2>5, <2>6, <2>7, <2>8
    DEF StorageStep, Doing, Taken, Free, LocalCreate, LocalCopyBegin, LocalCopyEnd, S3Put,
        AzurePut, MetaFails, LocalLook, LocalCut, LocalWrite, PutMeta, DeleteLook, Remove,
        LocalRemove, LocalRemoveMeta
<1> QED
  BY <1>2, <1>5, <1>6, <1>8, <1>9 DEF CalmInv, Staged, unmoved, nodeVars

LEMMA CalmStage ==
  ASSUME BundleTypes, WholeInv, StoryInv, CalmInv, Stage, calm'
  PROVE  CalmInv'
<1>1. UNCHANGED <<kind, file, data, meta, requests, layout, wanted, known>> /\ Busy' = Busy
  BY StageIsOfNode DEF fileVars, Busy
<1> USE Values DEF Step
<1>2. CASE Begin
  <2>1. Busy = {} /\ known # Unknown /\ fetched' = FALSE /\ UNCHANGED <<cache, staged, damaged>>
    BY <1>2 DEF Begin
  <2>2. CASE at' = "fetch"
    <3>1. call'[Node].at = "begin"
      <4>1. Ask(Node, "get", None, None) /\ UNCHANGED <<kind, files>>
        BY <1>2, <2>2 DEF Begin, fileVars
      <4>2. Node \in Callers /\ StoreTypes /\ "get" \in Ops
        BY CallersAssumption DEF BundleTypes, Ops
      <4> QED
        BY <4>1, <4>2, AskEffect
    <3> QED
      BY <1>1, <1>2, <2>1, <2>2, <3>1 DEF Begin, WholeInv, CalmInv
  <2>3. CASE at' # "fetch"
    BY <1>1, <1>2, <2>1, <2>3 DEF Begin, WholeInv, CalmInv, Staged
  <2> QED
    BY <2>2, <2>3
<1>3. CASE ~Begin
  <2>0. listed' = listed
    BY <1>3 DEF Stage, Create, NotFetched, Copy, CopyFails, Mismatch, Verified, WriteType,
       WriteTypeFails, MakeFolder, Unpack, UnpackFails, Lift, Drop, Move, LiftFails, Sweep, Breaks,
       Quiet, unmoved
  <2>1. calm /\ ~CopyFails /\ ~WriteTypeFails /\ ~LiftFails
    BY <1>3 DEF Stage, Begin, Create, NotFetched, Copy, CopyFails, Mismatch, Verified, WriteType,
       WriteTypeFails, MakeFolder, Unpack, UnpackFails, Lift, Drop, Move, LiftFails, Sweep, Breaks,
       Quiet, BundleTypes
  <2>2. /\ Busy = {} /\ known # Unknown
        /\ file # 0 => /\ known \in Bundle /\ known # None
                       /\ data[file] = known.content /\ known.content \in Contents
                       /\ meta = known.meta /\ meta \in Metadata
        /\ file = 0 => known = None
    BY <2>1, CalmMatches
  <2>3. CASE damaged'
    BY <1>1, <2>2, <2>3 DEF CalmInv
  <2>4. CASE damaged
    <3>1. damaged'
      BY <1>3, <2>4 DEF Stage, Create, NotFetched, Copy, CopyFails, Mismatch, Verified, WriteType,
         WriteTypeFails, MakeFolder, Unpack, UnpackFails, Lift, Drop, Move, LiftFails, Sweep,
         Breaks, Quiet
    <3> QED
      BY <2>3, <3>1
  <2>5. CASE ~damaged /\ ~damaged'
    <3> USE <2>0, <2>1, <2>5
    <3>1. CASE Create
      BY <1>1, <2>2, <3>1 DEF Create, Quiet, storeVars, CalmInv, Opened, Doing
    <3>2. CASE NotFetched
      BY <1>1, <2>2, <3>2 DEF NotFetched, CalmInv, WholeInv, Staged
    <3>3. CASE Copy
      BY <1>1, <2>2, <3>3 DEF Copy, Quiet, storeVars, Stream, CalmInv, Opened
    <3>4. CASE Mismatch \/ Verified
      <4>1. GotMetadata = known.meta /\ cache = known.content /\ Opened /\ wanted /\ staged = None
        BY <2>2, <3>4 DEF Mismatch, Verified, GotMetadata, CalmInv, Opened, BundleTypes, Doing, WholeInv
      <4>2. CASE Mismatch
        BY <1>1, <2>2, <3>4, <4>1, <4>2 DEF Mismatch, CalmInv, Staged
      <4>3. CASE Verified
        BY <1>1, <2>2, <4>1, <4>3 DEF Verified, CalmInv, Opened, storeVars
      <4> QED
        BY <3>4, <4>2, <4>3
    <3>5. CASE WriteType
      BY <1>1, <2>2, <3>5 DEF WriteType, CalmInv, Opened
    <3>6. CASE MakeFolder
      BY <1>1, <2>2, <3>6 DEF MakeFolder, Quiet, CalmInv, WholeInv
    <3>7. CASE Unpack
      BY <1>1, <2>2, <3>7 DEF Unpack, Quiet, CalmInv, Staged
    <3>8. CASE UnpackFails
      BY <3>8 DEF UnpackFails, Breaks, WholeInv
    <3>9. CASE Lift \/ Drop
      BY <1>1, <2>2, <3>9 DEF Lift, Drop, Quiet, CalmInv, WholeInv
    <3>10. CASE Move
      BY <1>1, <2>2, <3>10 DEF Move, Quiet, CalmInv, WholeInv, Staged
    <3>11. CASE Sweep
      BY <1>1, <2>2, <3>11 DEF Sweep, Quiet, CalmInv, Staged
    <3> QED
      BY <1>3, <2>1, <3>1, <3>2, <3>3, <3>4, <3>5, <3>6, <3>7, <3>8, <3>9, <3>10, <3>11 DEF Stage
  <2> QED
    BY <2>3, <2>4, <2>5 DEF BundleTypes
<1> QED
  BY <1>2, <1>3

LEMMA CalmNext ==
  BundleTypes /\ WholeInv /\ StoryInv /\ CalmInv /\ [Next]_vars => CalmInv'
<1> SUFFICES ASSUME BundleTypes, WholeInv, StoryInv, CalmInv, [Next]_vars, calm'
             PROVE  CalmInv'
  BY DEF CalmInv
<1>1. CASE Stores
  BY <1>1, CalmStores
<1>2. CASE Crash \/ \E r \in requests : SiteChanges(r) \/ \E c \in Clients : Request(c, r)
  BY <1>2 DEF Crash, SiteChanges, Request
<1>3. CASE \E c \in Clients : Update(c) \/ Answer(c)
  <2>1. PICK c \in Clients : Update(c) \/ Answer(c)
    BY <1>3
  <2>2. calm
    BY <2>1 DEF Update, Answer, histVars
  <2>3. c \in Callers /\ CallOK(kind, files, call[c])
    BY CallersAssumption DEF BundleTypes, StoreTypes
  <2>4. call[c].at \in Results
    BY <2>1 DEF Update, Answer, Answered, Doing, Results
  <2>5. call[c].op # None
    BY <2>3, <2>4 DEF Results, CallOK, Idle
  <2> QED
    BY <2>2, <2>5 DEF CalmInv, Busy
<1>4. CASE UNCHANGED vars
  BY <1>4 DEF vars, storeVars, fileVars, nodeVars, histVars, CalmInv, Staged, Opened, Busy
<1>5. CASE Stage
  BY <1>5, CalmStage
<1> QED
  BY <1>1, <1>2, <1>3, <1>4, <1>5 DEF Next

(* A sync during which nothing else happens ends with the app of the site  *)
(* staged, from what was uploaded if it was fetched now, or fails and      *)
(* leaves nothing of a bundle that is not stored or not what its hash says.*)
THEOREM SyncStagesAlways == Spec => []SyncStages
<1>1. CalmInv => SyncStages
  BY DEF CalmInv, SyncStages, Staged
<1> QED
  BY <1>1, TypesInit, TypesNext, WholeInit, WholeNext, StoryInit, StoryNext, CalmInit, CalmNext,
     PTL
  DEF Spec
=============================================================================
