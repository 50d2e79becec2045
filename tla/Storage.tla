------------------------------ MODULE Storage ------------------------------
(***************************************************************************)
(* The file storage of the bundles (src/fs/), under one name: operations   *)
(* on different names touch different files.  What the storages do at once *)
(* differs:                                                                *)
(*   local  tests, creates, copies, then writes the metadata to a file of  *)
(*          its own, which is truncated first;                             *)
(*   s3     tests, then puts the content and the metadata at once;         *)
(*   azure  puts the content if there is none, then the metadata.          *)
(* A file that is open stays what it is when its name is removed or given  *)
(* to another file.                                                        *)
(***************************************************************************)
EXTENDS Naturals

CONSTANTS
  Callers,    (* goroutines that call the storage                          *)
  Contents,   (* contents of a bundle                                      *)
  MaxFiles,   (* bounds how many files are given the name                  *)
  None,       (* nothing                                                   *)
  Empty,      (* what a file holds that was just truncated                 *)
  Torn        (* a part of a content, or a mixture of two                  *)

(* What the callers keep in it: has it a type, and which hash.             *)
Metadata == [type : BOOLEAN, hash : Contents \cup {None}]

Ops     == {"set", "setMeta", "getMeta", "get", "delete"}
Kinds   == {"local", "s3", "azure"}
Results == {"ok", "exists", "missing", "error"}

ASSUME FilesAssumption == MaxFiles \in Nat
ASSUME ValuesAssumption ==
  /\ None # Empty /\ None # Torn /\ Empty # Torn
  /\ {None, Empty, Torn} \cap (Contents \cup Metadata) = {}
  /\ None \notin Ops

VARIABLES
  kind,     (* of the storage                                              *)
  file,     (* the file with the name, 0 if there is none                  *)
  files,    (* number of files made so far                                 *)
  data,     (* the data of each file                                       *)
  shared,   (* files that a second upload has truncated                    *)
  meta,     (* the metadata under the name                                 *)
  call,     (* for each caller: its operation, how far it is, content and  *)
            (* metadata it stores or has got, its open file, and what it   *)
            (* answers once the metadata is removed                        *)
  faults    (* errors and crashes that may still happen                    *)

fileVars  == <<file, files, data, shared>>
storeVars == <<kind, fileVars, meta, call, faults>>

Idle == [op |-> None, at |-> "idle", content |-> None, meta |-> None,
         fd |-> 0, next |-> "ok"]

StoreTypeOK ==
  /\ kind \in Kinds
  /\ file \in 0..files /\ files \in 0..MaxFiles
  /\ data \in [1..MaxFiles -> Contents \cup {Torn, Empty}]
  /\ shared \subseteq 1..files
  /\ meta \in Metadata \cup {None, Empty, Torn}
  /\ DOMAIN call = Callers

StoreInit ==
  /\ file = 0 /\ files = 0 /\ data = [f \in 1..MaxFiles |-> Empty]
  /\ shared = {} /\ meta = None
  /\ call = [c \in Callers |-> Idle]

Doing(c, op, place) == call[c].op = op /\ call[c].at = place
Goto(c, place) == call' = [call EXCEPT ![c].at = place]
Answered(c) == call[c].at \in Results

Ask(c, op, content, m) ==
  call' = [call EXCEPT ![c] = [Idle EXCEPT !.op = op, !.at = "begin",
                                           !.content = content, !.meta = m]]

Fault == faults > 0 /\ faults' = faults - 1

(* A new file gets the name.                                               *)
NewFile(content) ==
  /\ files < MaxFiles
  /\ files' = files + 1 /\ file' = files + 1
  /\ data' = [data EXCEPT ![files + 1] = content]
  /\ UNCHANGED shared

-----------------------------------------------------------------------------
(* SetWithContext *)

Taken(c) ==
  /\ Doing(c, "set", "begin") /\ file # 0
  /\ Goto(c, "exists")
  /\ UNCHANGED <<kind, fileVars, meta, faults>>

(* The local storage and S3 look first whether the name is free.           *)
Free(c) ==
  /\ kind # "azure" /\ Doing(c, "set", "begin") /\ file = 0
  /\ Goto(c, "put")
  /\ UNCHANGED <<kind, fileVars, meta, faults>>

(* os.Create: a file that has got the name meanwhile is truncated.         *)
LocalCreate(c) ==
  /\ kind = "local" /\ Doing(c, "set", "put")
  /\ IF file = 0
     THEN NewFile(Empty)
     ELSE /\ data' = [data EXCEPT ![file] = Empty]
          /\ shared' = shared \cup {file}
          /\ UNCHANGED <<file, files>>
  /\ call' = [call EXCEPT ![c].at = "copy", ![c].fd = file']
  /\ UNCHANGED <<kind, meta, faults>>

LocalCopyBegin(c) ==
  /\ Doing(c, "set", "copy") /\ data[call[c].fd] # Torn
  /\ data' = [data EXCEPT ![call[c].fd] = Torn]
  /\ UNCHANGED <<kind, file, files, shared, meta, call, faults>>

(* What two uploads write to one file may be a mixture.                    *)
LocalCopyEnd(c) ==
  /\ Doing(c, "set", "copy") /\ data[call[c].fd] = Torn
  /\ \E d \in {call[c].content}
               \cup (IF call[c].fd \in shared THEN {Torn} ELSE {}) :
       data' = [data EXCEPT ![call[c].fd] = d]
  /\ Goto(c, "cut")
  /\ UNCHANGED <<kind, file, files, shared, meta, faults>>

S3Put(c) ==
  /\ kind = "s3" /\ Doing(c, "set", "put")
  /\ NewFile(call[c].content) /\ meta' = call[c].meta
  /\ \/ Goto(c, "ok") /\ UNCHANGED faults
     \/ Goto(c, "error") /\ Fault          (* the answer is lost *)
  /\ UNCHANGED kind

AzurePut(c) ==
  /\ kind = "azure" /\ Doing(c, "set", "begin") /\ file = 0
  /\ NewFile(call[c].content) /\ meta' = None
  /\ \/ Goto(c, "meta") /\ UNCHANGED faults
     \/ Goto(c, "error") /\ Fault          (* the answer is lost *)
  /\ UNCHANGED kind

(* The blob is gone, or an error: whatever blob has the name is deleted.   *)
MetaFails(c) ==
  /\ \/ kind = "azure" /\ Doing(c, "set", "meta")
     \/ call[c].op = "set" /\ call[c].at \in {"cut", "write"}
  /\ \/ file = 0 /\ kind = "azure" /\ UNCHANGED faults
     \/ Fault
  /\ Goto(c, "undo")
  /\ UNCHANGED <<kind, fileVars, meta>>

-----------------------------------------------------------------------------
(* SetMetadata, and the metadata of SetWithContext *)

(* The files of the local storage are looked at, then written.             *)
LocalLook(c) ==
  /\ kind = "local" /\ file # 0
  /\ \/ Doing(c, "setMeta", "begin") /\ Goto(c, "cut")
     \/ Doing(c, "getMeta", "begin") /\ Goto(c, "read")
  /\ UNCHANGED <<kind, fileVars, meta, faults>>

LocalCut(c) ==
  /\ call[c].at = "cut"
  /\ meta' = Empty
  /\ Goto(c, "write")
  /\ UNCHANGED <<kind, fileVars, faults>>

(* Two that truncate, then write: it may be a mixture.                     *)
LocalWrite(c) ==
  /\ call[c].at = "write"
  /\ meta' \in {call[c].meta} \cup (IF meta = Empty THEN {} ELSE {Torn})
  /\ Goto(c, "ok")
  /\ UNCHANGED <<kind, fileVars, faults>>

PutMeta(c) ==
  /\ kind # "local" /\ file # 0
  /\ \/ Doing(c, "setMeta", "begin")
     \/ Doing(c, "set", "meta")
  /\ meta' = call[c].meta
  /\ \/ Goto(c, "ok") /\ UNCHANGED faults
     \/ Goto(c, IF call[c].op = "set" THEN "undo" ELSE "error") /\ Fault
  /\ UNCHANGED <<kind, fileVars>>

-----------------------------------------------------------------------------
(* GetMetadata and Get *)

(* The metadata is got, which ends the operation.                          *)
GotMeta(c) ==
  /\ IF meta = Torn
     THEN Goto(c, "error")
     ELSE call' = [call EXCEPT ![c].at = "ok",
                               ![c].meta = IF meta = Empty THEN None ELSE meta]
  /\ UNCHANGED <<kind, fileVars, meta, faults>>

ReadMeta(c) ==
  /\ \/ call[c].at = "read"
     \/ kind # "local" /\ Doing(c, "getMeta", "begin") /\ file # 0
  /\ GotMeta(c)

(* An empty file counts as none.  S3 and Azure answer with the metadata of *)
(* the file they send.                                                     *)
Found == file # 0 /\ data[file] # Empty

Open(c) ==
  /\ Doing(c, "get", "begin") /\ Found
  /\ call' = IF kind = "local"
             THEN [call EXCEPT ![c].at = "read", ![c].fd = file]
             ELSE [call EXCEPT ![c].at = "ok", ![c].fd = file,
                               ![c].meta = meta]
  /\ UNCHANGED <<kind, fileVars, meta, faults>>

(* What a reader gets from the file it has opened.                         *)
Stream(c) == data[call[c].fd]

-----------------------------------------------------------------------------
(* Delete, also of what could not be stored completely *)

DeleteLook(c) ==
  /\ kind = "s3" /\ Doing(c, "delete", "begin") /\ file # 0
  /\ Goto(c, "remove")
  /\ UNCHANGED <<kind, fileVars, meta, faults>>

(* S3 does not tell whether there was something to remove.                 *)
Remove(c) ==
  /\ \/ kind = "s3" /\ call[c].at = "remove"
     \/ kind = "azure" /\ call[c].at = "undo"
     \/ kind = "azure" /\ Doing(c, "delete", "begin") /\ file # 0
  /\ file' = 0 /\ meta' = None
  /\ \/ Goto(c, IF call[c].op = "set" THEN "error" ELSE "ok")
        /\ UNCHANGED faults
     \/ Goto(c, "error") /\ Fault          (* the answer is lost *)
  /\ UNCHANGED <<kind, files, data, shared>>

(* The metadata is removed whether or not the file could be.               *)
LocalRemove(c) ==
  /\ kind = "local"
  /\ \/ Doing(c, "delete", "begin")
     \/ call[c].at = "undo"
  /\ \/ /\ file' = 0 /\ UNCHANGED faults
        /\ call' = [call EXCEPT ![c].at = "unlink",
                                ![c].next = IF call[c].op = "set" THEN "error"
                                            ELSE IF file = 0 THEN "missing"
                                            ELSE "ok"]
     \/ /\ Fault /\ UNCHANGED file
        /\ call' = [call EXCEPT ![c].at = "unlink", ![c].next = "error"]
  /\ UNCHANGED <<kind, files, data, shared, meta>>

LocalRemoveMeta(c) ==
  /\ call[c].at = "unlink"
  /\ \/ meta' = None /\ Goto(c, call[c].next) /\ UNCHANGED faults
     \/ meta # None /\ UNCHANGED meta /\ Goto(c, "error") /\ Fault
  /\ UNCHANGED <<kind, fileVars>>

-----------------------------------------------------------------------------
(* Nothing has the name: every operation but SetWithContext says so.       *)
Missed(c) ==
  /\ call[c].at = "begin"
  /\ \/ call[c].op \in {"getMeta", "setMeta"} /\ file = 0
     \/ call[c].op = "delete" /\ kind # "local" /\ file = 0
     \/ call[c].op = "get" /\ ~Found
  /\ Goto(c, "missing")
  /\ UNCHANGED <<kind, fileVars, meta, faults>>

(* An error that changes nothing.  What was copied to a local file stays,  *)
(* as does what was truncated, when SetMetadata fails.                     *)
Fails(c) ==
  /\ \/ call[c].at \in {"begin", "put", "copy", "read", "remove"}
     \/ call[c].op = "setMeta" /\ call[c].at \in {"cut", "write"}
  /\ Fault
  /\ Goto(c, "error")
  /\ UNCHANGED <<kind, fileVars, meta>>

StorageStep(c) ==
  \/ Taken(c) \/ Free(c)
  \/ LocalCreate(c) \/ LocalCopyBegin(c) \/ LocalCopyEnd(c)
  \/ S3Put(c) \/ AzurePut(c) \/ MetaFails(c)
  \/ LocalLook(c) \/ LocalCut(c) \/ LocalWrite(c) \/ PutMeta(c)
  \/ ReadMeta(c) \/ Open(c)
  \/ DeleteLook(c) \/ Remove(c) \/ LocalRemove(c) \/ LocalRemoveMeta(c)
  \/ Missed(c) \/ Fails(c)
=============================================================================
