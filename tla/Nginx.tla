------------------------------- MODULE Nginx -------------------------------
(***************************************************************************)
(* The second half of a sync: SyncConfiguration of src/webserver/nginx.go  *)
(* compares the files that the healthy sites need with those on disk,      *)
(* writes the differences, asks nginx to test each, and reloads nginx when *)
(* this sync has changed something.                                        *)
(*                                                                         *)
(* A configuration file is known by the app whose rules it has, NoApp when *)
(* it has none; Missing when there is no file, Torn when it was cut short. *)
(***************************************************************************)
EXTENDS AppManager

CONSTANTS Missing, Torn

ASSUME FilesAssumption == {Missing, Torn} \cap (Apps \cup {NoApp}) = {}

VARIABLES
  conf,       (* the file of each site on disk                             *)
  served,     (* the files nginx has loaded                                *)
  desired,    (* the files the sync has rendered                           *)
  todo,       (* those that are still to be written                        *)
  written,    (* the file that was written and is about to be tested       *)
  interrupted, (* history: a sync did not end well since nginx's last load *)
  untested    (* history: a file was left on disk without a test           *)

confVars == <<conf, served, desired, todo, written, interrupted, untested>>

File == Apps \cup {NoApp}

NginxTypeOK ==
  /\ conf \in [Domains -> File \cup {Missing, Torn}]
  /\ served \in [Domains -> File \cup {Missing}]
  /\ desired \in [Domains -> File \cup {Missing}]
  /\ todo \subseteq Domains /\ written \subseteq Domains
  /\ written # {} <=> pc = "test"
  /\ interrupted \in BOOLEAN /\ untested \in BOOLEAN

NginxInit ==
  /\ conf = [d \in Domains |-> Missing]
  /\ served = conf /\ desired = conf
  /\ todo = {} /\ written = {}
  /\ interrupted = FALSE /\ untested = FALSE

(* nginx's own test of all files on disk.                                  *)
Valid(d) ==
  \/ conf[d] \in {Missing, NoApp}
  \/ conf[d] \in Apps /\ Manifest[conf[d]] # "bad"
ConfigTest == \A d \in Domains : Valid(d)

(* The rules in a site's file are those that were read for its SiteApp.    *)
Render(s) == IF s.app = NoApp THEN NoApp ELSE loaded[s.object]

(* Mutant: a site that is not healthy is not skipped.                      *)
HealthySlots_All == 1..seen

(* The indices of the sites that are rendered and expected.                *)
HealthySlots == {i \in 1..seen : health[Slot(i).domain] = "ok"}

(* What is left on the disk by a sync that is cut short.                   *)
LeftUntested ==
  untested' = (untested \/ written # {} \/ \E d \in Domains : conf'[d] = Torn)

(* The sync ends with an error; nginx is not reloaded.                     *)
Abort ==
  /\ Finish("error")
  /\ interrupted' = TRUE
  /\ LeftUntested
  /\ desired' = [d \in Domains |-> Missing]
  /\ todo' = {} /\ written' = {}
  /\ UNCHANGED <<array, count, loaded, queued, stale, scenario, changes,
                 diskVars, broken, served>>

-----------------------------------------------------------------------------
DesiredConfiguration ==
  /\ Goto("desired", "existing")
  /\ desired' =
       [d \in Domains |->
          LET slots == {i \in HealthySlots : Slot(i).domain = d} IN
          IF slots = {} THEN Missing
          ELSE Render(Slot(CHOOSE i \in slots : \A k \in slots : k <= i))]
  /\ UNCHANGED <<siteVars, updated, resultVars, diskVars, stagingVars,
                 expected, broken, conf, served, todo, written, interrupted,
                 untested>>

(* A file cannot be rendered, or the folders cannot be made.               *)
DesiredFails ==
  /\ pc = "desired"
  /\ Fault("disk")
  /\ UNCHANGED <<conf, health>>
  /\ Abort

(* Files of sites that are not expected are removed, the others read.      *)
ExistingConfiguration ==
  LET kept == {Slot(i).domain : i \in HealthySlots}
      extra == {d \in Domains \ kept : conf[d] # Missing} IN
  /\ Goto("existing", "write")
  /\ conf' = [d \in Domains |-> IF d \in kept THEN conf[d] ELSE Missing]
  /\ updated' = (updated \/ extra # {})
  /\ todo' = {d \in Domains : desired[d] # Missing /\ desired[d] # conf'[d]}
  /\ UNCHANGED <<siteVars, resultVars, diskVars, stagingVars, expected,
                 broken, served, desired, written, interrupted, untested>>

(* A file cannot be read or removed; those before it are gone.             *)
ExistingFails ==
  /\ pc = "existing"
  /\ Fault("disk")
  /\ \E gone \in SUBSET (Domains \ {Slot(i).domain : i \in HealthySlots}) :
       conf' = [d \in Domains |-> IF d \in gone THEN Missing ELSE conf[d]]
  /\ UNCHANGED health
  /\ Abort

(* Mutant: a change of a file is not remembered.                           *)
WriteConfig_NotUpdated(d) ==
  /\ pc = "write" /\ d \in todo
  /\ pc' = "test"
  /\ conf' = [conf EXCEPT ![d] = desired[d]]
  /\ todo' = todo \ {d}
  /\ written' = {d}
  /\ UNCHANGED <<siteVars, at, updated, resultVars, diskVars, stagingVars,
                 expected, broken, served, desired, interrupted, untested>>

WriteConfig(d) ==
  /\ pc = "write" /\ d \in todo
  /\ pc' = "test"
  /\ conf' = [conf EXCEPT ![d] = desired[d]]
  /\ updated' = TRUE
  /\ todo' = todo \ {d}
  /\ written' = {d}
  /\ UNCHANGED <<siteVars, at, resultVars, diskVars, stagingVars, expected,
                 broken, served, desired, interrupted, untested>>

(* The file cannot be opened, or it exists with what could be written.     *)
WriteFails(d) ==
  /\ pc = "write" /\ d \in todo
  /\ Fault("disk")
  /\ \E f \in {conf[d], Torn} : conf' = [conf EXCEPT ![d] = f]
  /\ UNCHANGED health
  /\ Abort

(* A site is blamed for a failed test, if the list still has it.           *)
Blame(d) ==
  IF \E i \in 1..seen : Slot(i).domain = d
  THEN SetHealth(d, "rejected") ELSE UNCHANGED health

(* Mutant: the site is rejected and its file stays.                        *)
Test_NotRemoved(d) ==
  /\ pc = "test" /\ d \in written
  /\ pc' = "write" /\ written' = {}
  /\ IF ConfigTest THEN UNCHANGED health ELSE Blame(d)
  /\ UNCHANGED <<array, count, seen, own, loaded, queued, stale, scenario,
                 changes, faults, at, updated, resultVars, diskVars,
                 stagingVars, expected, broken, conf, served, desired, todo,
                 interrupted, untested>>

(* The test of all files fails: the one just written is to blame, and is   *)
(* removed.                                                                *)
Test(d) ==
  /\ pc = "test" /\ d \in written
  /\ pc' = "write" /\ written' = {}
  /\ IF ConfigTest
     THEN UNCHANGED <<conf, health>>
     ELSE Blame(d) /\ conf' = [conf EXCEPT ![d] = Missing]
  /\ UNCHANGED <<array, count, seen, own, loaded, queued, stale, scenario,
                 changes, faults, at, updated, resultVars, diskVars,
                 stagingVars, expected, broken, served, desired, todo,
                 interrupted, untested>>

(* The command of the test cannot be run, or the file cannot be removed.   *)
TestFails(d) ==
  /\ pc = "test" /\ d \in written
  /\ \/ Fault("test") /\ UNCHANGED health
     \/ ~ConfigTest /\ Fault("disk") /\ Blame(d)
  /\ UNCHANGED conf
  /\ Abort

ConfigurationDone ==
  /\ todo = {} /\ Goto("write", "restart")
  /\ UNCHANGED <<siteVars, updated, resultVars, diskVars, stagingVars,
                 expected, broken, confVars>>

-----------------------------------------------------------------------------
(* The end of the sync: a reload, if this sync has updated something.      *)
RestartServer ==
  /\ pc = "restart"
  /\ IF updated
     THEN ConfigTest /\ served' = conf /\ interrupted' = FALSE
     ELSE UNCHANGED <<served, interrupted>>
  /\ Finish("ok")
  /\ desired' = [d \in Domains |-> Missing]
  /\ UNCHANGED <<array, count, loaded, health, queued, stale, scenario,
                 changes, faults, diskVars, broken, conf, todo, written,
                 untested>>

(* nginx refuses files that are not valid; or the command fails.           *)
RestartFails ==
  /\ pc = "restart" /\ updated
  /\ \/ ~ConfigTest /\ UNCHANGED faults
     \/ ConfigTest /\ Fault("restart")
  /\ UNCHANGED <<conf, health>>
  /\ Abort
=============================================================================
