------------------------------- MODULE Deploy -------------------------------
(***************************************************************************)
(* A node that deploys: requests change its list of sites (Sites), syncs   *)
(* run one at a time (src/sync/run.go, SyncQueue) and each applies the     *)
(* list to the disk (AppManager) and to nginx (Nginx).  The process may    *)
(* end between any two steps and starts again with a sync, while the disk  *)
(* and nginx stay as they are.                                             *)
(***************************************************************************)
EXTENDS Nginx

vars == <<siteVars, appVars, confVars>>

TypeOK == SitesTypeOK /\ AppTypeOK /\ NginxTypeOK

Init == SitesInit /\ AppInit /\ NginxInit

(* The API is served when the first sync has succeeded.                    *)
Requests == ~booting /\ Change /\ UNCHANGED <<appVars, confVars>>

(* The sizes of the array that a list of n sites may be decoded to: it     *)
(* begins with four elements and grows by half of them when it is full.    *)
Decoded(n) == IF n = 0 THEN {0} ELSE IF n <= 4 THEN {4} ELSE n..(n + n \div 2)

(* The process ends and starts again.  What was being fetched, extracted   *)
(* or written is cut short.                                                *)
Ends ==
  /\ seen' = 0 /\ own' = <<>>
  /\ \E size \in Decoded(count) :
       array' = Array(SubSeq(array, 1, count), size)
  /\ loaded' = [o \in DOMAIN loaded |-> NoApp]
  /\ health' = [d \in Domains |-> "ok"]
  /\ queued' = TRUE /\ stale' = FALSE
  /\ pc' = "idle" /\ at' = 1 /\ updated' = FALSE /\ outcome' = "none"
  /\ booting' = TRUE
  /\ \E cut \in SUBSET {a \in Apps : jobs[a] = "fetch" /\ cache[a] = "none"} :
       cache' = [a \in Apps |-> IF a \in cut THEN "partial" ELSE cache[a]]
  /\ \E cut \in SUBSET {a \in Apps : jobs[a] = "extract"} :
       staged' = [a \in Apps |-> IF a \in cut THEN "partial" ELSE staged[a]]
  /\ broken' = broken \cup Staging
  /\ jobs' = [a \in Apps |-> "none"]
  /\ index' = [a \in Apps |-> 0]
  /\ expected' = {}
  /\ \/ UNCHANGED conf
     \/ pc = "write" /\ \E d \in todo : conf' = [conf EXCEPT ![d] = Torn]
  /\ desired' = [d \in Domains |-> Missing]
  /\ todo' = {} /\ written' = {}
  /\ interrupted' = TRUE
  /\ LeftUntested
  /\ UNCHANGED <<count, scenario, changes, dirs, www, requester, served>>

Crash == Fault("crash") /\ Ends

(* The manifest of an app is stored in an element of the list that has no  *)
(* app: a nil pointer ends the process.                                    *)
Panic ==
  /\ pc = "apps"
  /\ \E found \in HaveManifest(Expected) :
       \E a \in found : Slot(index[a]).app = NoApp
  /\ Ends
  /\ UNCHANGED faults

(* An error of the first sync ends the process.                            *)
Exit ==
  /\ booting /\ outcome = "error"
  /\ Ends
  /\ UNCHANGED faults

SyncState ==
  \/ Begin \/ BeginFails \/ Scan \/ Staged \/ SyncApps \/ SyncAppsFails
  \/ SkipSite \/ SyncFolder \/ SyncFolderFails \/ FoldersDone \/ TrimFolders
  \/ TrimFails

Stage(a) == Fetch(a) \/ FetchFails(a) \/ Extract(a) \/ ExtractFails(a)

SyncConfiguration ==
  \/ DesiredConfiguration \/ DesiredFails
  \/ ExistingConfiguration \/ ExistingFails
  \/ \E d \in Domains :
       WriteConfig(d) \/ WriteFails(d) \/ Test(d) \/ TestFails(d)
  \/ ConfigurationDone \/ RestartServer \/ RestartFails

Next ==
  \/ Requests \/ Crash \/ Panic \/ Exit
  \/ (SyncState \/ \E a \in Apps : Stage(a)) /\ UNCHANGED confVars
  \/ SyncConfiguration

Spec == Init /\ [][Next]_vars

-----------------------------------------------------------------------------
(* Properties *)

(* A sync has ended without an error and the sites are those it began with *)
Settled == pc = "idle" /\ outcome = "ok" /\ ~stale

(* Whatever has failed, crashed or changed before: when a sync has ended   *)
(* without an error, and the sites are those it began with, exactly the    *)
(* healthy sites have a configuration file, with the rules that were read  *)
(* for them, a folder and a link to their app, and the sites that are gone *)
(* have none (unless their folder could not be removed).                   *)
DiskMatches ==
  Settled =>
    /\ \A s \in Listed :
         \/ /\ health[s.domain] = "ok"
            /\ conf[s.domain] = Render(s)
            /\ s.domain \in dirs /\ www[s.domain] = s.app
         \/ /\ health[s.domain] # "ok"
            /\ conf[s.domain] = Missing
    /\ \A d \in Domains :
         (\A s \in Listed : s.domain # d) =>
           /\ conf[d] = Missing
           /\ d \notin dirs \/ "remove" \in scenario.faults

(* A healthy site has the rules of its app's manifest after such a sync,   *)
(* unless it shares the app with another one.                              *)
RulesApplied ==
  Settled =>
    \A s \in Listed :
      /\ s.app # NoApp /\ health[s.domain] = "ok"
      /\ staged[s.app] = "full" /\ Manifest[s.app] # "none"
      /\ \A t \in Listed : t.app = s.app => t = s
      => conf[s.domain] = s.app

(* After such a sync the app of a healthy site is on the disk, complete,   *)
(* unless its staging has failed once: concurrent requests, the removal of *)
(* extraneous folders and the join of the workers never lose an app.       *)
AppsComplete ==
  Settled =>
    \A s \in Listed :
      s.app \in Apps \ broken /\ health[s.domain] = "ok"
      => staged[s.app] = "full"

(* nginx serves what is on the disk when a sync has ended without an       *)
(* error, unless one has ended badly since nginx was last reloaded.        *)
ServedIsCurrent ==
  pc = "idle" /\ outcome = "ok" /\ ~interrupted => served = conf

(* As long as every file that was written was also tested, a site is only  *)
(* rejected for the rules of its own app.                                  *)
BlameIsFair ==
  [][\A d \in Domains :
       /\ health[d] # "rejected" /\ health'[d] = "rejected" /\ ~untested
       => desired[d] \in Apps /\ Manifest[desired[d]] = "bad"]_vars
=============================================================================
