----------------------------- MODULE AppManager -----------------------------
(***************************************************************************)
(* The first half of a sync: SyncState of src/appmanager/appmanager.go     *)
(* makes the staged apps and the folders of the sites what the list of     *)
(* sites says.  Bundles are fetched and extracted by goroutines of their   *)
(* own.  An error is stored as the health of a site, which the rest of the *)
(* sync then skips.                                                        *)
(***************************************************************************)
EXTENDS Sites

VARIABLES
  pc,         (* what the sync does                                        *)
  at,         (* the index in its list of sites                            *)
  updated,    (* the web server has to be restarted                        *)
  outcome,    (* how the last sync has ended: none (yet), ok or error      *)
  booting,    (* the sync at the start of the process has not succeeded    *)
  (* the disk *)
  cache,      (* the bundles: none, partial or full                        *)
  staged,     (* the folders of the apps: none, partial or full            *)
  dirs,       (* the sites that have a folder                              *)
  www,        (* the app each link points to; NoApp is the default app     *)
  (* locals of SyncApps and SyncSiteFolders *)
  jobs,       (* the staging of each app: none, fetch, extract or done     *)
  requester,  (* the site it was requested for                             *)
  index,      (* appIndexes: where in the list the app was seen last, or 0 *)
  expected,   (* expectFolders                                             *)
  broken      (* history: apps whose staging has failed or was interrupted *)

diskVars == <<cache, staged, dirs, www>>
stagingVars == <<jobs, requester, index>>
resultVars == <<outcome, booting>>
appVars == <<pc, at, updated, resultVars, diskVars, stagingVars,
             expected, broken>>

Steps == {"idle", "scan", "apps", "folders", "trim", "desired", "existing",
          "write", "test", "restart"}

Staging == {a \in Apps : jobs[a] \in {"fetch", "extract"}}

(* No bundle is fetched or extracted after SyncApps: it has waited for all *)
(* that it has requested.                                                  *)
AppTypeOK ==
  /\ pc \in Steps /\ at \in 1..seen + 1
  /\ updated \in BOOLEAN /\ outcome \in {"none", "ok", "error"}
  /\ booting \in BOOLEAN
  /\ cache \in [Apps -> {"none", "partial", "full"}]
  /\ staged \in [Apps -> {"none", "partial", "full"}]
  /\ dirs \subseteq Domains /\ expected \subseteq Domains
  /\ www \in [Domains -> Apps \cup {NoApp}]
  /\ jobs \in [Apps -> {"none", "fetch", "extract", "done"}]
  /\ requester \in [Apps -> Domains]
  /\ index \in [Apps -> 0..seen]
  /\ broken \subseteq Apps
  /\ pc # "scan" => Staging = {}

AppInit ==
  /\ pc = "idle" /\ at = 1 /\ updated = FALSE /\ outcome = "none"
  /\ booting = TRUE
  /\ cache = [a \in Apps |-> "none"]
  /\ staged = [a \in Apps |-> "none"]
  /\ dirs = {} /\ expected = {}
  /\ www = [d \in Domains |-> NoApp]
  /\ jobs = [a \in Apps |-> "none"]
  /\ requester = [a \in Apps |-> CHOOSE d \in Domains : TRUE]
  /\ index = [a \in Apps |-> 0]
  /\ broken = {}

(* The sync goes on with the next loop over the sites.                     *)
Goto(from, to) == pc = from /\ pc' = to /\ at' = 1

(* The next site of a loop.                                                *)
Here == Slot(at)
Loop(step) == pc = step /\ at <= seen /\ at' = at + 1 /\ UNCHANGED pc
LoopEnds(from, to) == at > seen /\ Goto(from, to)

Finish(how) ==
  /\ pc' = "idle" /\ at' = 1 /\ updated' = FALSE /\ outcome' = how
  /\ booting' = (booting /\ how # "ok")
  /\ seen' = 0 /\ own' = <<>>
  /\ jobs' = [a \in Apps |-> "none"]
  /\ index' = [a \in Apps |-> 0]
  /\ expected' = {}
  /\ UNCHANGED requester

-----------------------------------------------------------------------------
(* SyncApps *)

(* A sync that fails before it has done anything.                          *)
BeginFails ==
  /\ pc = "idle" /\ queued
  /\ Fault("disk")
  /\ queued' = FALSE /\ stale' = FALSE
  /\ Finish("error")
  /\ UNCHANGED <<array, count, loaded, health, scenario, changes, diskVars,
                 broken>>

Begin ==
  /\ queued /\ Goto("idle", "scan")
  /\ queued' = FALSE /\ stale' = FALSE
  /\ seen' = count /\ own' = <<>>
  /\ outcome' = "none"
  /\ UNCHANGED <<array, count, loaded, health, scenario, changes, faults,
                 updated, booting, diskVars, stagingVars, expected, broken>>

(* One site: its error is reset; an app that is not on the disk, and was   *)
(* not requested for another site, is requested.                           *)
Scan ==
  /\ Loop("scan")
  /\ SetHealth(Here.domain, "ok")
  /\ IF Here.app = NoApp
     THEN UNCHANGED stagingVars
     ELSE /\ index' = [index EXCEPT ![Here.app] = at]
          /\ IF staged[Here.app] = "none" /\ jobs[Here.app] = "none"
             THEN /\ jobs' = [jobs EXCEPT ![Here.app] = "fetch"]
                  /\ requester' = [requester EXCEPT ![Here.app] = Here.domain]
             ELSE UNCHANGED <<jobs, requester>>
  /\ UNCHANGED <<array, count, seen, own, loaded, queued, stale, scenario,
                 changes, faults, updated, resultVars, diskVars, expected,
                 broken>>

(* StageApp, in a goroutine: a bundle in the cache is not fetched again.   *)
Fetch(a) ==
  /\ jobs[a] = "fetch"
  /\ cache[a] # "none" \/ a \in scenario.stored
  /\ jobs' = [jobs EXCEPT ![a] = "extract"]
  /\ cache' = [cache EXCEPT ![a] = IF @ = "none" THEN "full" ELSE @]
  /\ UNCHANGED <<siteVars, pc, at, updated, resultVars, staged, dirs, www,
                 requester, index, expected, broken>>

StagingFails(a) ==
  /\ jobs' = [jobs EXCEPT ![a] = "done"]
  /\ SetHealth(requester[a], "failed")
  /\ broken' = broken \cup {a}
  /\ UNCHANGED <<array, count, seen, own, loaded, queued, stale, scenario,
                 changes, pc, at, updated, resultVars, dirs, www, requester,
                 index, expected>>

(* The bundle does not exist, or it does not match its hash and is         *)
(* deleted, or its transfer breaks off.                                    *)
FetchFails(a) ==
  /\ jobs[a] = "fetch" /\ cache[a] = "none"
  /\ \/ a \notin scenario.stored /\ UNCHANGED <<faults, cache>>
     \/ /\ a \in scenario.stored /\ Fault("fetch")
        /\ \E c \in {"none", "partial"} : cache' = [cache EXCEPT ![a] = c]
  /\ StagingFails(a)
  /\ UNCHANGED staged

Extract(a) ==
  /\ jobs[a] = "extract" /\ cache[a] = "full"
  /\ jobs' = [jobs EXCEPT ![a] = "done"]
  /\ staged' = [staged EXCEPT ![a] = "full"]
  /\ UNCHANGED <<siteVars, pc, at, updated, resultVars, cache, dirs, www,
                 requester, index, expected, broken>>

(* The folder of the app stays.                                            *)
ExtractFails(a) ==
  /\ jobs[a] = "extract"
  /\ \/ cache[a] = "partial" /\ UNCHANGED faults
     \/ cache[a] = "full" /\ Fault("extract")
  /\ staged' = [staged EXCEPT ![a] = "partial"]
  /\ StagingFails(a)
  /\ UNCHANGED cache

(* All workers have answered.                                              *)
Staged ==
  /\ Staging = {}
  /\ LoopEnds("scan", "apps")
  /\ UNCHANGED <<siteVars, updated, resultVars, diskVars, stagingVars,
                 expected, broken>>

(* Mutant: a folder is extraneous when its app was not requested now.      *)
Extraneous_NotRequested ==
  {a \in Apps : staged[a] # "none" /\ jobs[a] = "none"}

Extraneous == {a \in Apps : staged[a] # "none" /\ index[a] = 0}

Expected == {a \in Apps : staged[a] # "none" /\ index[a] # 0}

(* The apps of some folders that have a manifest file.  A folder that is   *)
(* not complete may have one.                                              *)
HaveManifest(folders) ==
  {f \in SUBSET folders :
     \A a \in folders :
       /\ staged[a] = "full" => (a \in f <=> Manifest[a] # "none")
       /\ Manifest[a] = "none" => a \notin f}

(* Mutant: a manifest that has been read once is kept.                     *)
ReadManifests_Once(found) ==
  loaded' = [o \in DOMAIN loaded |->
               IF /\ loaded[o] = NoApp
                  /\ \E a \in found : Slot(index[a]).object = o
               THEN CHOOSE a \in found : Slot(index[a]).object = o
               ELSE loaded[o]]

(* The manifest goes to the element that the list has now at the index of  *)
(* the app.  An element without an app is a nil pointer.                   *)
ReadManifests(found) ==
  loaded' = [o \in DOMAIN loaded |->
               IF \E a \in found : Slot(index[a]).object = o
               THEN CHOOSE a \in found : Slot(index[a]).object = o
               ELSE loaded[o]]

Remove(gone) ==
  staged' = [a \in Apps |-> IF a \in gone THEN "none" ELSE staged[a]]

(* Extraneous folders are removed, then the manifests of the others are    *)
(* read.  The error of a removal is ignored.                               *)
SyncApps ==
  /\ Goto("apps", "folders")
  /\ \/ Remove(Extraneous) /\ UNCHANGED faults
     \/ \E a \in Extraneous :
          /\ Manifest[a] = "none" /\ Fault("remove")
          /\ Remove(Extraneous \ {a})
  /\ \E found \in HaveManifest(Expected) :
       /\ \A a \in found : Slot(index[a]).app # NoApp
       /\ ReadManifests(found)
  /\ UNCHANGED <<array, count, seen, own, health, queued, stale, scenario,
                 changes, updated, resultVars, cache, dirs, www, stagingVars,
                 expected, broken>>

(* The manifest of a folder that is still there belongs to no site: the    *)
(* sync ends, with some of the other folders done.                         *)
SyncAppsFails ==
  /\ pc = "apps"
  /\ Fault("remove")
  /\ \E a \in Extraneous :
       /\ Manifest[a] # "none"
       /\ \E gone \in SUBSET (Extraneous \ {a}) : Remove(gone)
  /\ \E found \in HaveManifest(Expected) : \E read \in SUBSET found :
       /\ \A a \in read : Slot(index[a]).app # NoApp
       /\ ReadManifests(read)
  /\ Finish("error")
  /\ UNCHANGED <<array, count, health, queued, stale, scenario, changes,
                 cache, dirs, www, broken>>

-----------------------------------------------------------------------------
(* SyncSiteFolders *)

(* The sites whose app could not be staged are skipped.                    *)
SkipSite ==
  /\ Loop("folders")
  /\ health[Here.domain] # "ok"
  /\ UNCHANGED <<siteVars, updated, resultVars, diskVars, stagingVars,
                 expected, broken>>

SyncFolder ==
  /\ Loop("folders")
  /\ health[Here.domain] = "ok"
  /\ dirs' = dirs \cup {Here.domain}
  /\ updated' = (updated \/ Here.domain \notin dirs)
  /\ www' = [www EXCEPT ![Here.domain] = Here.app]
  /\ expected' = expected \cup {Here.domain}
  /\ UNCHANGED <<siteVars, resultVars, cache, staged, stagingVars, broken>>

(* No TLS certificate: the site has a folder, which is not expected.       *)
SyncFolderFails ==
  /\ Loop("folders")
  /\ health[Here.domain] = "ok"
  /\ Fault("certificate")
  /\ SetHealth(Here.domain, "failed")
  /\ dirs' = dirs \cup {Here.domain}
  /\ updated' = (updated \/ Here.domain \notin dirs)
  /\ UNCHANGED <<array, count, seen, own, loaded, queued, stale, scenario,
                 changes, resultVars, cache, staged, www, stagingVars,
                 expected, broken>>

FoldersDone ==
  /\ LoopEnds("folders", "trim")
  /\ UNCHANGED <<siteVars, updated, resultVars, diskVars, stagingVars,
                 expected, broken>>

(* Folders that are not expected are removed; an error is ignored.         *)
TrimFolders ==
  /\ Goto("trim", "desired")
  /\ \/ dirs' = dirs \cap expected /\ UNCHANGED faults
     \/ dirs \ expected # {} /\ Fault("remove") /\ UNCHANGED dirs
  /\ updated' = (updated \/ dirs \ expected # {})
  /\ UNCHANGED <<array, count, seen, own, loaded, health, queued, stale,
                 scenario, changes, resultVars, cache, staged, www,
                 stagingVars, expected, broken>>

(* The folders cannot be listed.                                           *)
TrimFails ==
  /\ pc = "trim"
  /\ Fault("disk")
  /\ Finish("error")
  /\ UNCHANGED <<array, count, loaded, health, queued, stale, scenario,
                 changes, diskVars, broken>>
=============================================================================
