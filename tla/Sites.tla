------------------------------- MODULE Sites -------------------------------
(***************************************************************************)
(* The list of sites of one node, as the operations of src/state/state.go  *)
(* change it and as a synchronization reads it, and the health of a site.  *)
(*                                                                         *)
(* GetSites returns a slice: the sync keeps its length, but reads the      *)
(* elements of the array it shares with the state, where the operations    *)
(* go on replacing, moving and appending them.  Only an append to a full   *)
(* array (or a new state) leaves the sync with an array of its own.        *)
(***************************************************************************)
EXTENDS Naturals, Sequences

CONSTANTS
  Domains,    (* the domains of the sites                                  *)
  Apps,       (* the names of the bundles                                  *)
  NoApp,      (* a site without an app, an app without a manifest          *)
  NoSite,     (* an element of the array that has never been used          *)
  Manifest,   (* the rules in each app's manifest: none, good, or bad for  *)
              (* nginx                                                     *)
  Scenarios   (* a set of the records below                                *)

(* The sites that are loaded when the process starts: a sequence of their  *)
(* domains and apps; the size of the array that holds them; the bundles    *)
(* that are in the storage; the number of requests, and what may fail and  *)
(* how often.                                                              *)
Fields == {"sites", "size", "stored", "changes", "faults", "maxFaults"}

(* No two sites of the list have the same domain.                          *)
ASSUME SitesAssumption ==
  /\ NoApp \notin Apps
  /\ Manifest \in [Apps -> {"none", "good", "bad"}]
  /\ \A s \in Scenarios :
       /\ DOMAIN s = Fields /\ s.size \in Nat
       /\ s.sites \in Seq([domain : Domains, app : Apps \cup {NoApp}])
       /\ Len(s.sites) <= s.size
       /\ \A i, j \in 1..Len(s.sites) :
            s.sites[i].domain = s.sites[j].domain => i = j

VARIABLES
  array,      (* the array behind state.Sites                              *)
  count,      (* the length of state.Sites                                 *)
  seen,       (* the length of the slice that the sync reads               *)
  own,        (* its array, when it is no longer the state's; else <<>>    *)
  loaded,     (* for each SiteApp object: the app whose manifest it has    *)
  health,     (* siteHealth: ok, failed or rejected (by nginx)             *)
  queued,     (* a sync has been asked for and has not begun               *)
  stale,      (* history: the sites have changed since the last sync began *)
  scenario, changes, faults

siteVars == <<array, count, seen, own, loaded, health, queued, stale,
              scenario, changes, faults>>

(* The pointer to the SiteApp of a site is a number: an index of loaded,   *)
(* 0 when there is no app.                                                 *)
Site == [domain : Domains, app : Apps \cup {NoApp}, object : Nat]

SitesTypeOK ==
  /\ \A i \in DOMAIN array : array[i] \in Site \cup {NoSite}
  /\ \A i \in 1..count : array[i] # NoSite
  /\ count \in 0..Len(array) /\ seen \in 0..Len(array)
  /\ \A i \in DOMAIN own : own[i] \in Site
  /\ \A o \in DOMAIN loaded : loaded[o] \in Apps \cup {NoApp}
  /\ health \in [Domains -> {"ok", "failed", "rejected"}]
  /\ queued \in BOOLEAN /\ stale \in BOOLEAN
  /\ scenario \in Scenarios
  /\ changes \in 0..scenario.changes /\ faults \in 0..scenario.maxFaults

(* A new array with some elements, and unused ones up to its size.         *)
Array(elements, size) ==
  [i \in 1..size |-> IF i <= Len(elements) THEN elements[i] ELSE NoSite]

(* The list that is read from the store.                                   *)
Load(sites, size) ==
  /\ array = Array([i \in DOMAIN sites |->
                      [domain |-> sites[i].domain, app |-> sites[i].app,
                       object |-> IF sites[i].app = NoApp THEN 0 ELSE i]],
                    size)
  /\ count = Len(sites)
  /\ loaded = [i \in DOMAIN sites |-> NoApp]

SitesInit ==
  /\ scenario \in Scenarios
  /\ Load(scenario.sites, scenario.size)
  /\ seen = 0 /\ own = <<>>
  /\ health = [d \in Domains |-> "ok"]
  /\ queued = TRUE /\ stale = FALSE
  /\ changes = 0 /\ faults = 0

(* What the sync finds at an index, and what the state has.                *)
Slot(i) == IF own = <<>> THEN array[i] ELSE own[i]
Listed == {array[i] : i \in 1..count}

SetHealth(d, h) == health' = [health EXCEPT ![d] = h]

Fault(kind) ==
  /\ kind \in scenario.faults
  /\ faults < scenario.maxFaults
  /\ faults' = faults + 1

-----------------------------------------------------------------------------
(* Requests of the API: each changes the list and then asks for a sync.    *)
Request ==
  /\ changes < scenario.changes
  /\ changes' = changes + 1
  /\ queued' = TRUE
  /\ UNCHANGED <<health, scenario, faults>>

AddSite(d) ==
  /\ Request
  /\ \A s \in Listed : s.domain # d
  /\ LET s == [domain |-> d, app |-> NoApp, object |-> 0] IN
     IF count < Len(array)
     THEN array' = [array EXCEPT ![count + 1] = s] /\ UNCHANGED own
     ELSE /\ array' = Array(Append(array, s),
                            IF count = 0 THEN 1 ELSE 2 * count)
          /\ own' = IF own = <<>> THEN SubSeq(array, 1, seen) ELSE own
  /\ count' = count + 1
  /\ stale' = TRUE
  /\ UNCHANGED <<seen, loaded>>

(* A deploy: the site is replaced by a copy that has a new SiteApp.        *)
UpdateSite(d, a) ==
  /\ Request
  /\ loaded' = Append(loaded, NoApp)
  /\ \E i \in 1..count :
       /\ array[i].domain = d
       /\ array' = [array EXCEPT ![i] =
                      [@ EXCEPT !.app = a, !.object = Len(loaded')]]
  /\ stale' = TRUE
  /\ UNCHANGED <<count, seen, own>>

(* The last element takes the place of the one that is removed.            *)
DeleteSite(d) ==
  /\ Request
  /\ \E i \in 1..count :
       /\ array[i].domain = d
       /\ array' = [array EXCEPT ![i] = array[count]]
  /\ count' = count - 1
  /\ stale' = TRUE
  /\ UNCHANGED <<seen, own, loaded>>

(* A sync is asked for and nothing has changed.                            *)
Resync ==
  /\ Request
  /\ UNCHANGED <<array, count, seen, own, loaded, stale>>

Change ==
  \/ Resync
  \/ \E d \in Domains :
       \/ AddSite(d) \/ DeleteSite(d)
       \/ \E a \in Apps : UpdateSite(d, a)
=============================================================================
