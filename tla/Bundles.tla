------------------------------ MODULE Bundles ------------------------------
(***************************************************************************)
(* The way of a bundle from its upload to the disk of a node: the handlers *)
(* of /app (src/api/routes/app.go) store bundle and metadata (Storage),    *)
(* StageApp and FetchBundle (src/appmanager/appmanager.go) fetch it,       *)
(* compare its hash, keep it in the cache and extract it.  One bundle, on  *)
(* one node.  Requests run concurrently with each other and with the syncs *)
(* of the node; the process may end between any two steps.                 *)
(***************************************************************************)
EXTENDS Storage

CONSTANTS
  Clients,    (* goroutines that serve requests                            *)
  Node,       (* the worker that stages the app                            *)
  Unknown,    (* what no answer has told                                   *)
  Scenarios   (* storages, faults and requests to explore                  *)

ASSUME CallersAssumption == Callers = Clients \cup {Node} /\ Node \notin Clients
ASSUME UnknownAssumption ==
  /\ Unknown # None
  /\ {Unknown, None} \cap [content : Contents, meta : Metadata] = {}

(* What is asked of /app, and of the site; an upload has content.          *)
Asked == [op : {"set", "getMeta", "delete", "site"},
          content : Contents \cup {None}, hash : Contents \cup {None}]

ASSUME ScenariosAssumption ==
  \A s \in Scenarios :
    /\ s.kind \in Kinds /\ s.faults \in Nat
    /\ s.layout \in {"flat", "nested", "hollow"}
    /\ s.requests \subseteq Asked
    /\ \A r \in s.requests : r.op = "set" => r.content \in Contents

VARIABLES
  requests,   (* requests still to come: an operation of /app with content *)
              (* and hash, or "site": the site with the app comes or goes  *)
  layout,     (* of the archive: flat, nested (in one folder), or hollow   *)
  wanted,     (* the app is in the list of sites                           *)
  at,         (* where the sync is                                         *)
  listed,     (* the app was in the list when the sync scanned it          *)
  cache,      (* the bundle in the cache, None if there is none            *)
  typeFile,   (* the file with its type: none, empty or ok                 *)
  staged,     (* the folder of the app: the content it comes from, Torn if *)
              (* that is incomplete, None if there is none                 *)
  aside,      (* the folder that is moved up                               *)
  (* history *)
  during,     (* for each client, operations concurrent with its request,  *)
              (* or with one of these                                      *)
  known,      (* content and metadata as of the last answer, or Unknown    *)
  damaged,    (* a transfer or extraction was cut short, or a bundle       *)
              (* without a hash or a type was taken as it was              *)
  calm,       (* nothing but this sync has happened since it began         *)
  fetched     (* this sync has fetched the bundle                          *)

nodeVars == <<at, listed, cache, typeFile, staged, aside>>
histVars == <<during, known, damaged, calm, fetched>>
vars == <<storeVars, requests, layout, wanted, nodeVars, histVars>>

TypeOK ==
  /\ StoreTypeOK
  /\ cache \in Contents \cup {None, Empty, Torn}
  /\ staged \in Contents \cup {None, Torn} /\ aside \in Contents \cup {None}
  /\ typeFile \in {"none", "empty", "ok"} /\ listed \in BOOLEAN
  /\ known \in {None, Unknown} \cup [content : Contents, meta : Metadata]

Init ==
  /\ StoreInit
  /\ \E s \in Scenarios :
       /\ kind = s.kind /\ faults = s.faults /\ requests = s.requests
       /\ layout = s.layout
  /\ wanted = TRUE /\ at = "idle" /\ listed = FALSE
  /\ cache = None /\ typeFile = "none" /\ staged = None /\ aside = None
  /\ during = [c \in Clients |-> {}]
  /\ known = None /\ damaged = FALSE /\ calm = FALSE /\ fetched = FALSE

-----------------------------------------------------------------------------
(* The handlers of /app *)

Busy == {c \in Clients : call[c].op # None}

(* The request begins.  An upload comes with a type.                       *)
Request(c, r) ==
  /\ c \notin Busy /\ r \in requests /\ r.op # "site"
  /\ requests' = requests \ {r}
  /\ Ask(c, r.op, r.content, [type |-> TRUE, hash |-> r.hash])
  /\ during' = [d \in Clients |->
                  IF d = c
                  THEN UNION {during[b] \cup {call[b].op} : b \in Busy}
                  ELSE IF d \in Busy THEN during[d] \cup {r.op}
                  ELSE during[d]]
  /\ calm' = FALSE
  /\ UNCHANGED <<kind, fileVars, meta, faults, layout, wanted, nodeVars,
                 known, damaged, fetched>>

(* Mutant: the metadata is made anew.                                      *)
SetNewMeta_Anew(c) == [type |-> FALSE, hash |-> call[c].content]

(* The hash of AppUpdateHandler replaces the one there is; the rest of the *)
(* metadata is stored as it was got.                                       *)
SetNewMeta(c) ==
  [type |-> call[c].meta # None /\ call[c].meta.type, hash |-> call[c].content]

Update(c) ==
  /\ c \in Clients /\ Doing(c, "getMeta", "ok")
  /\ Ask(c, "setMeta", call[c].content, SetNewMeta(c))
  /\ UNCHANGED <<kind, fileVars, meta, faults, requests, layout, wanted,
                 nodeVars, histVars>>

(* History: what an answer tells.  The blob of an upload to Azure is put   *)
(* only once.                                                              *)
Alone(c) ==
  during[c] \subseteq (IF kind = "azure" /\ call[c].op = "set" THEN {"set"}
                       ELSE {})

Told(c) ==
  IF call[c].at = "error" \/ ~Alone(c) THEN Unknown
  ELSE IF call[c].at = "missing" THEN None
  ELSE IF call[c].at = "exists" THEN known
  ELSE CASE call[c].op = "set"    -> [content |-> call[c].content,
                                      meta |-> call[c].meta]
         [] call[c].op = "delete" -> None
         [] OTHER -> IF known \in {None, Unknown} THEN known
                     ELSE [known EXCEPT !.meta.hash = call[c].meta.hash]

Answer(c) ==
  /\ Answered(c) /\ ~Doing(c, "getMeta", "ok")
  /\ call' = [call EXCEPT ![c] = Idle]
  /\ known' = Told(c)
  /\ UNCHANGED <<kind, fileVars, meta, faults, requests, layout, wanted,
                 nodeVars, during, damaged, calm, fetched>>

(* The site with the app is added or deleted.                              *)
SiteChanges(r) ==
  /\ r \in requests /\ r.op = "site"
  /\ requests' = requests \ {r}
  /\ wanted' = ~wanted
  /\ calm' = FALSE
  /\ UNCHANGED <<storeVars, layout, nodeVars, during, known, damaged, fetched>>

-----------------------------------------------------------------------------
(* StageApp *)

unmoved == <<requests, layout, wanted, listed, during, known>>

Step(from, to) == at = from /\ at' = to

(* An error of the disk, which ends the staging.                           *)
Breaks(from) ==
  /\ Step(from, "sweep")
  /\ Fault
  /\ damaged' = TRUE /\ calm' = FALSE
  /\ UNCHANGED <<kind, fileVars, meta, call, unmoved, fetched>>

Quiet == UNCHANGED <<storeVars, unmoved, damaged, calm, fetched>>

(* A folder that exists counts as staged, a bundle in the cache as fetched.*)
Begin ==
  /\ at = "idle"
  /\ at' = IF ~wanted \/ staged # None THEN "sweep"
           ELSE IF cache # None THEN "folder" ELSE "fetch"
  /\ IF at' = "fetch" THEN Ask(Node, "get", None, None) ELSE UNCHANGED call
  /\ listed' = wanted
  /\ calm' = (Busy = {} /\ known # Unknown) /\ fetched' = FALSE
  /\ UNCHANGED <<kind, fileVars, meta, faults, requests, layout, wanted,
                 during, known, cache, typeFile, staged, aside, damaged>>

(* os.Create of the file in the cache.                                     *)
Create ==
  /\ Doing(Node, "get", "ok") /\ Step("fetch", "copy")
  /\ cache' = Empty
  /\ UNCHANGED <<typeFile, staged, aside>> /\ Quiet

NotFetched ==
  /\ call[Node].at \in {"missing", "error"} /\ Step("fetch", "sweep")
  /\ call' = [call EXCEPT ![Node] = Idle]
  /\ calm' = (calm /\ call[Node].at = "missing")
  /\ UNCHANGED <<kind, fileVars, meta, faults, unmoved, cache, typeFile,
                 staged, aside, damaged, fetched>>

Copy ==
  /\ Step("copy", "verify")
  /\ cache' = Stream(Node)
  /\ UNCHANGED <<typeFile, staged, aside>> /\ Quiet

(* The bundle stays in the cache as far as it was copied.                  *)
CopyFails ==
  /\ Breaks("copy")
  /\ cache' \in {Empty, Torn}
  /\ UNCHANGED <<typeFile, staged, aside>>

GotMetadata == IF call[Node].meta \in Metadata THEN call[Node].meta
               ELSE [type |-> FALSE, hash |-> None]

(* Mutant: a bundle that does not match stays in the cache.                *)
Mismatch_Kept ==
  /\ GotMetadata.hash \notin {None, cache} /\ Step("verify", "sweep")
  /\ call' = [call EXCEPT ![Node] = Idle]
  /\ UNCHANGED <<kind, fileVars, meta, faults, unmoved, typeFile, staged,
                 aside, damaged, calm, fetched, cache>>

(* A bundle that does not match its hash is removed.                       *)
Mismatch ==
  /\ GotMetadata.hash \notin {None, cache} /\ Step("verify", "sweep")
  /\ cache' = None
  /\ call' = [call EXCEPT ![Node] = Idle]
  /\ UNCHANGED <<kind, fileVars, meta, faults, unmoved, typeFile, staged,
                 aside, damaged, calm, fetched>>

Verified ==
  /\ GotMetadata.hash \in {None, cache} /\ Step("verify", "type")
  /\ damaged' = (damaged \/ cache \notin Contents)
  /\ UNCHANGED <<storeVars, unmoved, cache, typeFile, staged, aside, calm,
                 fetched>>

(* The file with the type stays what it was when there is no type.         *)
WriteType ==
  /\ Step("type", "folder")
  /\ typeFile' = IF GotMetadata.type THEN "ok" ELSE typeFile
  /\ damaged' = (damaged \/ typeFile' # "ok")
  /\ call' = [call EXCEPT ![Node] = Idle]
  /\ fetched' = TRUE
  /\ UNCHANGED <<kind, fileVars, meta, faults, unmoved, cache, staged, aside,
                 calm>>

(* Mutant: the bundle stays in the cache without its type.                 *)
WriteTypeFails_Kept ==
  /\ Step("type", "sweep") /\ GotMetadata.type
  /\ Fault /\ calm' = FALSE
  /\ typeFile' \in {typeFile, "empty"}
  /\ call' = [call EXCEPT ![Node] = Idle]
  /\ UNCHANGED <<kind, fileVars, meta, unmoved, staged, aside, damaged,
                 fetched, cache>>

WriteTypeFails ==
  /\ Step("type", "sweep") /\ GotMetadata.type
  /\ Fault /\ calm' = FALSE
  /\ typeFile' \in {typeFile, "empty"}
  /\ cache' = None
  /\ call' = [call EXCEPT ![Node] = Idle]
  /\ UNCHANGED <<kind, fileVars, meta, unmoved, staged, aside, damaged,
                 fetched>>

(* An empty type is an error before the folder is made, no type is one     *)
(* when it exists: the name of the bundle has no extension.                *)
MakeFolder ==
  /\ \/ Step("folder", "sweep") /\ typeFile = "empty" /\ UNCHANGED staged
     \/ Step("folder", "sweep") /\ typeFile = "none" /\ staged' = Torn
     \/ Step("folder", "unpack") /\ typeFile = "ok" /\ staged' = Torn
  /\ UNCHANGED <<cache, typeFile, aside>> /\ Quiet

(* ExtractArchive; a folder that is still empty is removed.                *)
Unpack ==
  /\ cache \in Contents
  /\ \/ layout = "nested" /\ Step("unpack", "lift") /\ UNCHANGED staged
     \/ layout = "flat" /\ Step("unpack", "sweep") /\ staged' = cache
     \/ layout = "hollow" /\ Step("unpack", "sweep") /\ staged' = None
  /\ UNCHANGED <<cache, typeFile, aside>> /\ Quiet

(* Not an archive, or not all of it: the folder stays.                     *)
UnpackFails ==
  /\ \/ cache \notin Contents /\ Step("unpack", "sweep") /\ Quiet
     \/ cache \in Contents /\ Breaks("unpack")
  /\ UNCHANGED <<cache, typeFile, staged, aside>>

(* The single folder takes the place of the folder of the app: it is moved *)
(* aside, unless one is there already, ...                                 *)
Lift ==
  /\ IF aside = None
     THEN Step("lift", "drop") /\ aside' = cache
     ELSE Step("lift", "sweep") /\ UNCHANGED aside
  /\ UNCHANGED <<cache, typeFile, staged>> /\ Quiet

(* ... the folder, now empty, is removed, ...                              *)
Drop ==
  /\ Step("drop", "move") /\ staged' = None
  /\ UNCHANGED <<cache, typeFile, aside>> /\ Quiet

(* ... and the other one gets its name.                                    *)
Move ==
  /\ Step("move", "sweep") /\ staged' = aside /\ aside' = None
  /\ UNCHANGED <<cache, typeFile>> /\ Quiet

LiftFails ==
  /\ \E place \in {"lift", "drop", "move"} : Breaks(place)
  /\ UNCHANGED <<cache, typeFile, staged, aside>>

(* The end of SyncApps removes what is not the folder of a site's app, by  *)
(* the list as it was scanned: the site may have come or gone since.       *)
Sweep ==
  /\ Step("sweep", "idle")
  /\ staged' = IF listed THEN staged ELSE None
  /\ aside' = None
  /\ UNCHANGED <<cache, typeFile>> /\ Quiet

-----------------------------------------------------------------------------
(* The process ends.  What was written or moved is cut short.              *)
Crash ==
  /\ Fault
  /\ call' = [c \in Callers |-> Idle]
  /\ known' = IF Busy = {} THEN known ELSE Unknown
  /\ damaged' = (damaged \/ at \in {"copy", "verify", "type", "unpack",
                                    "lift", "drop", "move"})
  /\ \/ UNCHANGED <<cache, typeFile>>
     \/ at = "copy" /\ cache' = Torn /\ UNCHANGED typeFile
     \/ at = "type" /\ typeFile' = "empty" /\ UNCHANGED cache
  /\ at' = "idle" /\ calm' = FALSE /\ fetched' = FALSE
  /\ UNCHANGED <<kind, fileVars, meta, requests, layout, wanted, listed,
                 staged, aside, during>>

Stores ==
  /\ \E c \in Callers : StorageStep(c)
  /\ calm' = (calm /\ faults' = faults)
  /\ UNCHANGED <<unmoved, nodeVars, damaged, fetched>>

Stage ==
  \/ Begin \/ Create \/ NotFetched \/ Copy \/ CopyFails
  \/ Mismatch \/ Verified \/ WriteType \/ WriteTypeFails
  \/ MakeFolder \/ Unpack \/ UnpackFails
  \/ Lift \/ Drop \/ Move \/ LiftFails \/ Sweep

Next ==
  \/ Stores \/ Stage \/ Crash
  \/ \E r \in requests : SiteChanges(r) \/ \E c \in Clients : Request(c, r)
  \/ \E c \in Clients : Update(c) \/ Answer(c)

Spec == Init /\ [][Next]_vars

-----------------------------------------------------------------------------
(* Properties *)

(* When no request is being served, the storage holds what the answers     *)
(* have told: the content and the metadata of the upload that succeeded    *)
(* last, with the hash of the update that succeeded since, or nothing.     *)
(* Errors, crashes and concurrent requests leave it unknown until a later  *)
(* answer tells, except uploads to Azure, of which one succeeds.           *)
AnswersAreTrue ==
  Busy = {} =>
    \/ known = Unknown
    \/ known = None /\ file = 0
    \/ /\ known \notin {None, Unknown} /\ file # 0
       /\ data[file] = known.content /\ meta = known.meta

(* What is in the cache and what is staged is complete, and no folder is   *)
(* left aside, unless a transfer, an extraction or a move was cut short or *)
(* a bundle was taken without a hash or a type, whatever else has failed   *)
(* before: both stay for the syncs to come, which do not look into them.   *)
OnlyWholeBundles ==
  at = "idle" /\ ~damaged =>
    /\ cache \in Contents \cup {None}
    /\ staged \in Contents \cup {None}
    /\ aside = None

(* A sync during which nothing else has happened ends with the app of the  *)
(* site staged: the content that was uploaded if it was fetched now.  It   *)
(* fails for a bundle that is not stored or not what its hash says, and    *)
(* leaves nothing of it, so that a later sync stages the bundle once its   *)
(* hash is corrected, and for an archive without files.  Without the site  *)
(* it leaves no folder.                                                    *)
SyncStages ==
  at = "idle" /\ calm /\ ~damaged =>
    IF ~wanted THEN staged = None
    ELSE \/ staged \in Contents /\ (fetched => staged = known.content)
         \/ staged = None /\ cache # None /\ layout = "hollow"
         \/ /\ staged = None /\ cache = None
            /\ known # None => known.meta.hash \notin {None, known.content}
=============================================================================
