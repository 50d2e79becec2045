---------------------------- MODULE DeployProofs ----------------------------
(***************************************************************************)
(* Proofs about Deploy, for any sites, apps, manifests and scenarios.      *)
(*                                                                         *)
(* The first part is about ServedIsCurrent, the second (FairInv) about     *)
(* BlameIsFair; the third (SyncInv) follows a sync through its loops, and  *)
(* gives DiskMatches, AppsComplete and RulesApplied.                       *)
(*                                                                         *)
(* ServedIsCurrent says something about the end of a sync.  In between,    *)
(* the files on disk differ from those nginx has loaded only while this    *)
(* sync knows that it has updated something, or one has ended badly; and   *)
(* what it has updated can only be lost before it touches the files.       *)
(***************************************************************************)
EXTENDS Deploy, SequenceTheorems, FiniteSetTheorems, WellFoundedInduction,
        TLAPS

(* The steps of a sync at which it may have changed a file.                *)
Changing == {"write", "test", "restart"}

ServedInv ==
  /\ updated \in BOOLEAN /\ interrupted \in BOOLEAN
  /\ conf = [d \in Domains |-> conf[d]]
  /\ conf # served /\ ~interrupted => updated /\ pc \in Changing
  /\ pc = "test" => updated

LEMMA ServedInit == Init => ServedInv
BY DEF Init, AppInit, NginxInit, ServedInv

(* The first half of a sync does not touch the files, and is not at one of *)
(* the steps above.                                                        *)
LEMMA ServedSyncState ==
  ASSUME ServedInv, SyncState, UNCHANGED confVars
  PROVE  ServedInv'
<1> USE DEF ServedInv, confVars, Changing
<1>1. CASE Begin
  BY <1>1 DEF Begin, Goto
<1>2. CASE BeginFails \/ SyncAppsFails \/ TrimFails
  BY <1>2 DEF BeginFails, SyncAppsFails, TrimFails, Finish
<1>3. CASE Scan \/ SkipSite \/ SyncFolder \/ SyncFolderFails
  BY <1>3 DEF Scan, SkipSite, SyncFolder, SyncFolderFails, Loop
<1>4. CASE Staged \/ SyncApps \/ FoldersDone \/ TrimFolders
  BY <1>4 DEF Staged, SyncApps, FoldersDone, TrimFolders, LoopEnds, Goto
<1> QED
  BY <1>1, <1>2, <1>3, <1>4 DEF SyncState

(* Every step of the second half that changes a file sets updated, or ends *)
(* the sync and sets interrupted; only a reload resets both.               *)
LEMMA ServedSyncConfiguration ==
  ASSUME ServedInv, SyncConfiguration
  PROVE  ServedInv'
<1> USE DEF ServedInv, Changing
<1>1. CASE DesiredConfiguration \/ ConfigurationDone
  BY <1>1 DEF DesiredConfiguration, ConfigurationDone, Goto, confVars
<1>2. CASE ExistingConfiguration
  <2> DEFINE kept == {Slot(i).domain : i \in HealthySlots}
             extra == {d \in Domains \ kept : conf[d] # Missing}
  <2>1. /\ conf' = [d \in Domains |-> IF d \in kept THEN conf[d] ELSE Missing]
        /\ updated' = (updated \/ extra # {})
        /\ pc = "existing" /\ pc' = "write"
        /\ UNCHANGED <<served, interrupted>>
    BY <1>2 DEF ExistingConfiguration, Goto
  <2>2. extra = {} => conf' = conf
    BY <2>1
  <2> QED
    BY <2>1, <2>2
<1>3. ASSUME Abort, conf' = [d \in Domains |-> conf'[d]]
      PROVE  ServedInv'
  BY <1>3 DEF Abort, Finish
<1>4. CASE DesiredFails \/ ExistingFails \/ RestartFails
  BY <1>3, <1>4 DEF DesiredFails, ExistingFails, RestartFails
<1>5. ASSUME NEW d \in Domains, WriteConfig(d) \/ Test(d)
      PROVE  ServedInv'
  BY <1>5 DEF WriteConfig, Test, resultVars
<1>6. ASSUME NEW d \in Domains, WriteFails(d) \/ TestFails(d)
      PROVE  ServedInv'
  BY <1>3, <1>6 DEF WriteFails, TestFails
<1>7. CASE RestartServer
  BY <1>7 DEF RestartServer, Finish
<1> QED
  BY <1>1, <1>2, <1>4, <1>5, <1>6, <1>7 DEF SyncConfiguration

LEMMA ServedNext == ServedInv /\ [Next]_vars => ServedInv'
<1> SUFFICES ASSUME ServedInv, [Next]_vars PROVE ServedInv'
  OBVIOUS
<1>1. CASE Requests
  BY <1>1 DEF Requests, ServedInv, appVars, confVars
<1>2. ASSUME Ends PROVE ServedInv'
  BY <1>2 DEF Ends, ServedInv, Changing
<1>3. CASE Crash \/ Panic \/ Exit
  BY <1>2, <1>3 DEF Crash, Panic, Exit
<1>4. CASE SyncState /\ UNCHANGED confVars
  BY <1>4, ServedSyncState
<1>5. ASSUME NEW a \in Apps, Stage(a), UNCHANGED confVars
      PROVE  ServedInv'
  BY <1>5 DEF Stage, Fetch, FetchFails, Extract, ExtractFails, StagingFails,
              resultVars, ServedInv, confVars
<1>6. CASE SyncConfiguration
  BY <1>6, ServedSyncConfiguration
<1>7. CASE UNCHANGED vars
  BY <1>7 DEF vars, appVars, confVars, ServedInv
<1> QED
  BY <1>1, <1>3, <1>4, <1>5, <1>6, <1>7 DEF Next

(* nginx serves what is on the disk when a sync has ended without an       *)
(* error, unless one has ended badly since nginx was last reloaded.        *)
THEOREM ServedIsCurrentAlways == Spec => []ServedIsCurrent
<1>1. ServedInv => ServedIsCurrent
  BY DEF ServedInv, ServedIsCurrent, Changing
<1> QED
  BY <1>1, ServedInit, ServedNext, PTL DEF Spec
-----------------------------------------------------------------------------
(* What the rest needs to know of the list, whoever changes it: a site     *)
(* that has an app has a SiteApp object that exists, also in the array     *)
(* that only the sync has.                                                 *)
Sound(s, objects) ==
  s \in Site /\ (s.app # NoApp => s.object \in 1..objects)

ListInv ==
  /\ array \in Seq(Site \cup {NoSite}) /\ own \in Seq(Site \cup {NoSite})
  /\ loaded \in Seq(File)
  /\ count \in 0..Len(array) /\ seen \in Nat
  /\ \A i \in 1..count : Sound(array[i], Len(loaded))
  /\ IF own = <<>> THEN seen <= Len(array) ELSE seen = Len(own)
  /\ \A i \in 1..seen : Sound(Slot(i), Len(loaded))

(* As long as nothing was left untested, every file on the disk is valid   *)
(* but the one that was just written, which is what the sync has rendered. *)
FairInv ==
  /\ health \in [Domains -> {"ok", "failed", "rejected"}]
  /\ conf \in [Domains -> File \cup {Missing, Torn}]
  /\ desired \in [Domains -> File \cup {Missing}]
  /\ written \subseteq Domains
  /\ untested \in BOOLEAN
  /\ pc # "test" => written = {}
  /\ pc = "test" => \E d \in Domains : written = {d} /\ conf[d] = desired[d]
  /\ ~untested => \A d \in Domains \ written : Valid(d)

-----------------------------------------------------------------------------
(* The sites have different domains and different SiteApp objects.         *)
DistinctInv ==
  \A i, j \in 1..count :
    /\ array[i].domain = array[j].domain => i = j
    /\ /\ array[i].app # NoApp /\ array[j].app # NoApp
       /\ array[i].object = array[j].object
       => i = j

(* The variables of the sync, and what they are when none runs.            *)
SyncTypes ==
  /\ pc \in Steps /\ at \in Nat \ {0}
  /\ stale \in BOOLEAN /\ outcome \in {"none", "ok", "error"}
  /\ staged \in [Apps -> {"none", "partial", "full"}]
  /\ jobs \in [Apps -> {"none", "fetch", "extract", "done"}]
  /\ index \in [Apps -> Nat]
  /\ www \in [Domains -> File] /\ dirs \subseteq Domains
  /\ expected \subseteq Domains /\ broken \subseteq Apps
  /\ todo \subseteq Domains

LocalsInv ==
  /\ SyncTypes
  /\ pc # "scan" => Staging = {}
  /\ pc = "idle" => /\ jobs = [a \in Apps |-> "none"]
                    /\ index = [a \in Apps |-> 0]
  /\ pc = "scan" =>
       \A a \in Apps : jobs[a] = "done" => a \in broken \/ staged[a] = "full"
  /\ pc \in {"idle", "scan", "apps"} => expected = {}
  /\ \A a \in Apps : staged[a] = "partial" => a \in broken

(* What follows is about a sync that reads the sites it has begun with; it *)
(* reads them in the array of the state then.                              *)
Steady == ~stale /\ pc # "idle"
FrozenInv == Steady => own = <<>> /\ seen = count

(* One of some steps of such a sync, and what follows.                     *)
Later(steps) == Settled \/ (Steady /\ pc \in steps)

(* While the list is scanned: every app the sync has come by is seen, and  *)
(* is on the disk, on its way, or has failed.                              *)
ScanInv ==
  Steady /\ pc \in {"scan", "apps"} =>
    /\ \A a \in Apps :
         index[a] # 0 => index[a] \in 1..count /\ array[index[a]].app = a
    /\ \A i \in 1..count :
         array[i].app # NoApp /\ (pc = "scan" => i < at) =>
           /\ index[array[i].app] # 0
           /\ \/ array[i].app \in broken \cup Staging
              \/ staged[array[i].app] = "full"

AfterApps ==
  {"folders", "trim", "desired", "existing", "write", "test", "restart"}

(* The apps are on the disk, and their manifests have been read.           *)
StagedInv ==
  Later(AfterApps) =>
    \A i \in 1..count :
      array[i].app # NoApp =>
        /\ array[i].app \in broken \/ staged[array[i].app] = "full"
        /\ /\ staged[array[i].app] = "full" /\ Manifest[array[i].app] # "none"
           /\ \A j \in 1..count : array[j].app = array[i].app => i = j
           => loaded[array[i].object] = array[i].app

Healthy(i) == health[array[i].domain] = "ok"

HasFolder(i) ==
  array[i].domain \in dirs /\ www[array[i].domain] = array[i].app

ListedDomains == {array[i].domain : i \in 1..count}

(* The loop over the folders, and what remains of it.                      *)
FoldersInv ==
  /\ Steady /\ pc \in {"folders", "trim"} =>
       /\ \A i \in 1..count :
            (pc = "folders" => i < at) /\ Healthy(i)
            => HasFolder(i) /\ array[i].domain \in expected
       /\ expected \subseteq ListedDomains
  /\ Later(AfterApps \ {"folders", "trim"}) =>
       /\ \A i \in 1..count : Healthy(i) => HasFolder(i)
       /\ \A d \in Domains \ ListedDomains :
            d \notin dirs \/ "remove" \in scenario.faults

(* A file is written once.                                                 *)
TodoInv == todo \cap written = {} /\ (pc = "restart" => todo = {})

(* The files that are rendered, and then those on the disk.                *)
FilesInv ==
  /\ Steady /\ pc = "existing" =>
       /\ \A i \in 1..count : desired[array[i].domain] =
            IF Healthy(i) THEN Render(array[i]) ELSE Missing
       /\ \A d \in Domains \ ListedDomains : desired[d] = Missing
  /\ Steady /\ pc \in {"write", "test", "restart"} =>
       /\ \A i \in 1..count :
            LET d == array[i].domain IN
            IF Healthy(i)
            THEN /\ desired[d] = Render(array[i])
                 /\ d \notin todo => conf[d] = desired[d]
            ELSE d \notin todo \cup written /\ conf[d] = Missing
       /\ \A d \in Domains \ ListedDomains :
            d \notin todo \cup written /\ conf[d] = Missing
  /\ Settled =>
       /\ \A i \in 1..count :
            conf[array[i].domain] =
              IF Healthy(i) THEN Render(array[i]) ELSE Missing
       /\ \A d \in Domains \ ListedDomains : conf[d] = Missing

ApplyInv ==
  FrozenInv /\ ScanInv /\ StagedInv /\ FoldersInv /\ TodoInv /\ FilesInv

SyncInv == ListInv /\ FairInv /\ DistinctInv /\ LocalsInv /\ ApplyInv

-----------------------------------------------------------------------------
(* Lemmas about the operators of Sites.                                    *)
LEMMA ArrayType ==
  ASSUME NEW elements \in Seq(Site \cup {NoSite}), NEW size \in Nat
  PROVE  /\ Array(elements, size) \in Seq(Site \cup {NoSite})
         /\ Len(Array(elements, size)) = size
         /\ \A i \in 1..size : i <= Len(elements) =>
              Array(elements, size)[i] = elements[i]
<1> DEFINE A == Array(elements, size)
<1>1. A = [i \in 1..size |-> IF i <= Len(elements) THEN elements[i] ELSE NoSite]
  BY DEF Array
<1>2. \A i \in 1..size : A[i] \in Site \cup {NoSite}
  BY <1>1, ElementOfSeq
<1>3. A \in [1..size -> Site \cup {NoSite}]
  BY <1>1, <1>2
<1>4. A \in Seq(Site \cup {NoSite}) /\ Len(A) = size
  BY <1>1, <1>3
<1> QED
  BY <1>1, <1>4

(* A list that stays the same is sound after any step that only adds       *)
(* SiteApp objects.                                                        *)
LEMMA SoundStays ==
  ASSUME NEW m \in Nat, NEW n \in Nat, m <= n, NEW s, Sound(s, m)
  PROVE  Sound(s, n)
BY DEF Sound

LEMMA ListStays ==
  ASSUME ListInv, UNCHANGED <<array, count>>,
         loaded' \in Seq(File), Len(loaded') >= Len(loaded),
         \/ UNCHANGED <<seen, own>>
         \/ seen' = 0 /\ own' = <<>>
         \/ seen' = count /\ own' = <<>>
  PROVE  ListInv'
<1>1. \A s : Sound(s, Len(loaded)) => Sound(s, Len(loaded'))
  BY LenProperties, SoundStays DEF ListInv
<1>2. array' = array /\ count' = count
  OBVIOUS
<1>3. CASE seen' = seen /\ own' = own
  <2>1. \A i : Slot(i)' = Slot(i)
    BY <1>2, <1>3 DEF Slot
  <2> QED
    BY <1>1, <1>2, <1>3, <2>1 DEF ListInv
<1>4. CASE seen' = 0 /\ own' = <<>>
  BY <1>1, <1>2, <1>4, EmptySeq, LenProperties DEF ListInv
<1>5. CASE seen' = count /\ own' = <<>>
  <2>1. \A i : Slot(i)' = array[i]
    BY <1>2, <1>5 DEF Slot
  <2>2. Len(array) \in Nat /\ <<>> \in Seq(Site \cup {NoSite})
    BY LenProperties, EmptySeq DEF ListInv
  <2>3. seen' \in Nat /\ seen' <= Len(array')
    BY <1>2, <1>5, <2>2 DEF ListInv
  <2>4. \A i \in 1..seen' : Sound(Slot(i)', Len(loaded'))
    BY <1>1, <1>2, <1>5, <2>1 DEF ListInv
  <2> QED
    BY <1>1, <1>2, <1>5, <2>2, <2>3, <2>4 DEF ListInv
<1> QED
  BY <1>3, <1>4, <1>5

LEMMA ListFrame ==
  ASSUME ListInv, UNCHANGED <<array, count, loaded>>,
         \/ UNCHANGED <<seen, own>>
         \/ seen' = 0 /\ own' = <<>>
         \/ seen' = count /\ own' = <<>>
  PROVE  ListInv'
<1>1. loaded' \in Seq(File) /\ Len(loaded') >= Len(loaded)
  BY DEF ListInv
<1> QED
  BY <1>1, ListStays
LEMMA ListInit == Init => ListInv
<1> SUFFICES ASSUME Init PROVE ListInv
  OBVIOUS
<1> DEFINE sites == scenario.sites
           list == [i \in DOMAIN sites |->
                      [domain |-> sites[i].domain, app |-> sites[i].app,
                       object |-> IF sites[i].app = NoApp THEN 0 ELSE i]]
<1>1. /\ sites \in Seq([domain : Domains, app : File]) /\ scenario.size \in Nat
      /\ Len(sites) <= scenario.size
  BY SitesAssumption DEF Init, SitesInit, File
<1>2. /\ array = Array(list, scenario.size) /\ count = Len(sites)
      /\ loaded = [i \in DOMAIN sites |-> NoApp]
      /\ seen = 0 /\ own = <<>>
  BY DEF Init, SitesInit, Load
<1> HIDE DEF sites
<1>3. DOMAIN sites = 1..Len(sites) /\ Len(sites) \in Nat
      /\ \A i \in 1..Len(sites) : sites[i] \in [domain : Domains, app : File]
  BY <1>1, LenProperties, ElementOfSeq
<1>4. list \in Seq(Site \cup {NoSite}) /\ Len(list) = Len(sites)
  BY <1>3 DEF Site, File
<1>5. /\ array \in Seq(Site \cup {NoSite}) /\ Len(array) = scenario.size
      /\ \A i \in 1..count : array[i] = list[i]
  <2>1. /\ Array(list, scenario.size) \in Seq(Site \cup {NoSite})
        /\ Len(Array(list, scenario.size)) = scenario.size
        /\ \A i \in 1..scenario.size : i <= Len(list) =>
             Array(list, scenario.size)[i] = list[i]
    BY <1>1, <1>4, ArrayType
  <2>2. \A i \in 1..count : i \in 1..scenario.size /\ i <= Len(list)
    BY <1>1, <1>2, <1>3, <1>4
  <2> HIDE DEF list
  <2> QED
    BY <1>2, <2>1, <2>2
<1>6. loaded \in Seq(File) /\ Len(loaded) = count
  BY <1>2, <1>3 DEF File
<1>7. \A i \in 1..count : Sound(array[i], Len(loaded))
  <2> SUFFICES ASSUME NEW i \in 1..count PROVE Sound(array[i], Len(loaded))
    OBVIOUS
  <2>1. /\ i \in 1..Len(sites) /\ i \in 1..Len(loaded)
        /\ array[i] = list[i] /\ list[i] \in Site
        /\ list[i].app # NoApp => list[i].object = i
    <3>1. /\ i \in 1..Len(sites) /\ i \in 1..Len(loaded)
          /\ array[i] = list[i] /\ sites[i] \in [domain : Domains, app : File]
      BY <1>2, <1>3, <1>5, <1>6
    <3>2. list[i] = [domain |-> sites[i].domain, app |-> sites[i].app,
                     object |-> IF sites[i].app = NoApp THEN 0 ELSE i]
      BY <1>3, <3>1
    <3> HIDE DEF list
    <3> QED
      BY <3>1, <3>2 DEF Site, File
  <2> HIDE DEF list
  <2> QED
    BY <2>1 DEF Sound
<1> QED
  BY <1>1, <1>2, <1>3, <1>5, <1>6, <1>7, EmptySeq DEF ListInv

(* One element of the array is replaced, the list gets no longer.          *)
LEMMA ListReplaced ==
  ASSUME ListInv, UNCHANGED <<seen, own>>,
         count' \in 0..count,
         loaded' \in Seq(File), Len(loaded') >= Len(loaded),
         array' \in Seq(Site \cup {NoSite}), Len(array') = Len(array),
         NEW i \in 1..count, NEW s, Sound(s, Len(loaded')),
         \A j \in 1..Len(array) : array'[j] = IF j = i THEN s ELSE array[j]
  PROVE  ListInv'
<1>1. \A t : Sound(t, Len(loaded)) => Sound(t, Len(loaded'))
  BY LenProperties, SoundStays DEF ListInv
<1>2. Len(array) \in Nat /\ count \in 0..Len(array) /\ seen \in Nat
  BY LenProperties DEF ListInv
<1>3. \A j \in 1..count' : Sound(array[j], Len(loaded')) /\ j \in 1..Len(array)
  BY <1>1, <1>2 DEF ListInv
<1>4. \A j \in 1..count' : Sound(array'[j], Len(loaded'))
  BY <1>3
<1>5. ASSUME NEW j \in 1..seen PROVE Sound(Slot(j)', Len(loaded'))
  <2>1. CASE own = <<>>
    <3>1. /\ j \in 1..Len(array) /\ Slot(j) = array[j]
          /\ Slot(j)' = array'[j]
      BY <1>2, <2>1 DEF ListInv, Slot
    <3>2. Sound(array[j], Len(loaded'))
      BY <1>1, <3>1 DEF ListInv
    <3> QED
      BY <3>1, <3>2
  <2>2. CASE own # <<>>
    <3>1. Slot(j)' = Slot(j)
      BY <2>2 DEF Slot
    <3> QED
      BY <1>1, <3>1 DEF ListInv
  <2> QED
    BY <2>1, <2>2
<1>6. count' \in 0..Len(array')
  BY <1>2
<1> QED
  BY <1>2, <1>4, <1>5, <1>6 DEF ListInv

LEMMA ReadManifestsType ==
  ASSUME ListInv, NEW found, found \subseteq Apps, ReadManifests(found)
  PROVE  loaded' \in Seq(File) /\ Len(loaded') = Len(loaded)
<1> DEFINE of(o) == CHOOSE a \in found : Slot(index[a]).object = o
           new(o) == IF \E a \in found : Slot(index[a]).object = o
                     THEN of(o) ELSE loaded[o]
<1>1. DOMAIN loaded = 1..Len(loaded) /\ Len(loaded) \in Nat
      /\ \A o \in 1..Len(loaded) : loaded[o] \in File
  BY LenProperties, ElementOfSeq DEF ListInv
<1>2. loaded' = [o \in 1..Len(loaded) |-> new(o)]
  BY <1>1 DEF ReadManifests
<1>3. \A o \in 1..Len(loaded) : new(o) \in File
  BY <1>1 DEF File
<1> HIDE DEF new
<1> QED
  BY <1>1, <1>2, <1>3

(* The second half of a sync does not touch the list.                      *)
LEMMA ConfigurationKeepsList ==
  ASSUME SyncConfiguration
  PROVE  /\ UNCHANGED <<array, count, loaded>>
         /\ UNCHANGED <<seen, own>> \/ (seen' = 0 /\ own' = <<>>)
<1>1. CASE DesiredConfiguration \/ ExistingConfiguration \/ ConfigurationDone
  BY <1>1 DEF DesiredConfiguration, ExistingConfiguration, ConfigurationDone,
              siteVars
<1>2. ASSUME NEW d \in Domains,
             WriteConfig(d) \/ Test(d)
      PROVE  UNCHANGED <<array, count, loaded, seen, own>>
  BY <1>2 DEF WriteConfig, Test, siteVars
<1>3. CASE RestartServer
  BY <1>3 DEF RestartServer, Finish
<1>4. ASSUME Abort
      PROVE  UNCHANGED <<array, count, loaded>> /\ seen' = 0 /\ own' = <<>>
  BY <1>4 DEF Abort, Finish
<1>5. CASE DesiredFails \/ ExistingFails \/ RestartFails
  BY <1>4, <1>5 DEF DesiredFails, ExistingFails, RestartFails
<1>6. ASSUME NEW d \in Domains, WriteFails(d) \/ TestFails(d) PROVE Abort
  BY <1>6 DEF WriteFails, TestFails
<1> QED
  BY <1>1, <1>2, <1>3, <1>4, <1>5, <1>6 DEF SyncConfiguration

(* The requests.                                                           *)
LEMMA ListChange == ASSUME ListInv, Change PROVE ListInv'
<1>1. /\ \A i \in 1..Len(array) : array[i] \in Site \cup {NoSite}
      /\ Len(array) \in Nat /\ count \in Nat /\ count <= Len(array)
      /\ Len(loaded) \in Nat
  BY LenProperties, ElementOfSeq DEF ListInv
<1>2. CASE Resync
  BY <1>2, ListFrame DEF Resync
<1>3. ASSUME NEW d \in Domains, AddSite(d) PROVE ListInv'
  <2> DEFINE s == [domain |-> d, app |-> NoApp, object |-> 0]
  <2>1. s \in Site /\ Sound(s, Len(loaded))
    BY DEF Site, Sound
  <2>2. loaded' = loaded /\ seen' = seen
    BY <1>3 DEF AddSite
  <2>3. CASE count < Len(array)
    <3>1. /\ array' = [array EXCEPT ![count + 1] = s] /\ count' = count + 1
          /\ UNCHANGED <<own, seen, loaded>>
      BY <1>3, <2>3 DEF AddSite
    <3> HIDE DEF s
    <3>2. /\ array' \in Seq(Site \cup {NoSite}) /\ Len(array') = Len(array)
          /\ \A i \in 1..Len(array) :
               array'[i] = IF i = count + 1 THEN s ELSE array[i]
      BY <1>1, <2>1, <2>3, <3>1, ExceptSeq DEF ListInv
    <3>3. \A i \in 1..count' : Sound(array'[i], Len(loaded))
      BY <1>1, <2>1, <2>3, <3>1, <3>2 DEF ListInv
    <3>4. \A i \in 1..seen : Sound(Slot(i)', Len(loaded))
      <4> SUFFICES ASSUME NEW i \in 1..seen PROVE Sound(Slot(i)', Len(loaded))
        OBVIOUS
      <4>1. CASE own = <<>>
        <5>1. i \in 1..Len(array) /\ Slot(i) = array[i] /\ Slot(i)' = array'[i]
          BY <1>1, <3>1, <4>1 DEF Slot, ListInv
        <5> QED
          BY <2>1, <3>2, <5>1 DEF ListInv
      <4>2. CASE own # <<>>
        <5>1. Slot(i)' = Slot(i)
          BY <3>1, <4>2 DEF Slot
        <5> QED
          BY <5>1 DEF ListInv
      <4> QED
        BY <4>1, <4>2
    <3> QED
      BY <1>1, <2>2, <2>3, <3>1, <3>2, <3>3, <3>4 DEF ListInv
  <2>4. CASE count = Len(array)
    <3> DEFINE size == IF count = 0 THEN 1 ELSE 2 * count
               longer == Append(array, s)
    <3>1. /\ array' = Array(longer, size) /\ count' = count + 1
          /\ own' = IF own = <<>> THEN SubSeq(array, 1, seen) ELSE own
          /\ UNCHANGED <<seen, loaded>>
      BY <1>3, <2>4, <1>1 DEF AddSite
    <3>2. /\ longer \in Seq(Site \cup {NoSite}) /\ Len(longer) = count + 1
          /\ \A i \in 1..count : longer[i] = array[i]
          /\ longer[count + 1] = s
      BY <1>1, <2>1, <2>4, AppendProperties DEF ListInv
    <3>3. size \in Nat /\ count + 1 <= size
      BY <1>1
    <3> HIDE DEF size, longer, s
    <3>4. /\ array' \in Seq(Site \cup {NoSite}) /\ Len(array') = size
          /\ \A i \in 1..(count + 1) : array'[i] = longer[i]
      <4>1. /\ Array(longer, size) \in Seq(Site \cup {NoSite})
            /\ Len(Array(longer, size)) = size
            /\ \A i \in 1..size : i <= Len(longer) =>
                 Array(longer, size)[i] = longer[i]
        BY <3>2, <3>3, ArrayType
      <4>2. \A i \in 1..(count + 1) : i \in 1..size /\ i <= Len(longer)
        BY <1>1, <3>2, <3>3
      <4> QED
        BY <3>1, <4>1, <4>2
    <3>5. \A i \in 1..count' : Sound(array'[i], Len(loaded))
      BY <1>1, <2>1, <3>1, <3>2, <3>4 DEF ListInv
    <3>6. CASE own = <<>>
      <4>1. /\ seen \in Nat /\ seen <= Len(array)
            /\ own' = SubSeq(array, 1, seen)
            /\ \A i \in 1..seen : array[i] \in Site \cup {NoSite}
                                /\ Sound(array[i], Len(loaded))
        BY <1>1, <3>1, <3>6 DEF ListInv, Slot
      <4>2. /\ own' \in Seq(Site \cup {NoSite}) /\ Len(own') = seen
            /\ \A i \in 1..seen : own'[i] = array[i]
        BY <4>1, SubSeqProperties
      <4>3. IF own' = <<>> THEN seen <= Len(array') ELSE seen = Len(own')
        BY <3>3, <3>4, <4>1, <4>2, <1>1, <2>4
      <4>4. \A i \in 1..seen : Sound(Slot(i)', Len(loaded))
        <5>1. CASE own' = <<>>
          BY <4>2, <5>1, EmptySeq
        <5>2. CASE own' # <<>>
          BY <4>1, <4>2, <5>2 DEF Slot
        <5> QED
          BY <5>1, <5>2
      <4>5. count' \in 0..Len(array')
        BY <1>1, <3>1, <3>3, <3>4
      <4> QED
        BY <2>2, <3>4, <3>5, <4>1, <4>2, <4>3, <4>4, <4>5 DEF ListInv
    <3>7. CASE own # <<>>
      <4>1. own' = own /\ \A i : Slot(i)' = Slot(i)
        BY <3>1, <3>7 DEF Slot
      <4> QED
        BY <1>1, <2>2, <3>1, <3>3, <3>4, <3>5, <3>7, <4>1 DEF ListInv
    <3> QED
      BY <3>6, <3>7
  <2> QED
    BY <1>1, <2>3, <2>4
<1>4. ASSUME NEW d \in Domains, NEW a \in Apps, UpdateSite(d, a)
      PROVE  ListInv'
  <2>1. PICK i \in 1..count :
          array' = [array EXCEPT ![i] =
                      [@ EXCEPT !.app = a, !.object = Len(loaded')]]
    BY <1>4 DEF UpdateSite
  <2>2. loaded' = Append(loaded, NoApp) /\ UNCHANGED <<count, seen, own>>
    BY <1>4 DEF UpdateSite
  <2>3. loaded' \in Seq(File) /\ Len(loaded') = Len(loaded) + 1
    BY <2>2, AppendProperties DEF ListInv, File
  <2> DEFINE s == [array[i] EXCEPT !.app = a, !.object = Len(loaded')]
  <2>4. array[i] \in Site
    BY DEF ListInv, Sound
  <2>5. Len(loaded') \in Nat /\ Len(loaded') >= 1
    BY <1>1, <2>3
  <2>6. i \in 1..Len(array) /\ array' = [array EXCEPT ![i] = s]
    BY <1>1, <2>1
  <2>7. s \in Site /\ Sound(s, Len(loaded'))
    <3>1. s \in Site /\ s.object = Len(loaded')
      BY <2>4, <2>5 DEF Site
    <3> HIDE DEF s
    <3> QED
      BY <2>5, <3>1 DEF Sound
  <2> HIDE DEF s
  <2>8. /\ array' \in Seq(Site \cup {NoSite}) /\ Len(array') = Len(array)
        /\ \A j \in 1..Len(array) : array'[j] = IF j = i THEN s ELSE array[j]
    BY <2>6, <2>7, ExceptSeq DEF ListInv
  <2> QED
    <3>1. count' \in 0..count /\ Len(loaded') >= Len(loaded)
      BY <1>1, <2>2, <2>3
    <3> QED
      BY <2>2, <2>3, <2>7, <2>8, <3>1, ListReplaced
<1>5. ASSUME NEW d \in Domains, DeleteSite(d) PROVE ListInv'
  <2>1. PICK i \in 1..count : array' = [array EXCEPT ![i] = array[count]]
    BY <1>5 DEF DeleteSite
  <2>2. count' = count - 1 /\ UNCHANGED <<seen, own, loaded>>
    BY <1>5 DEF DeleteSite
  <2>3. count \in 1..count /\ Sound(array[count], Len(loaded))
    BY <1>1 DEF ListInv
  <2>4. /\ array' \in Seq(Site \cup {NoSite}) /\ Len(array') = Len(array)
        /\ \A j \in 1..Len(array) :
             array'[j] = IF j = i THEN array[count] ELSE array[j]
    BY <1>1, <2>1, <2>3, ExceptSeq DEF ListInv
  <2>5. loaded' \in Seq(File) /\ Len(loaded') >= Len(loaded)
        /\ Sound(array[count], Len(loaded'))
    BY <1>1, <2>2, <2>3, SoundStays DEF ListInv
  <2> QED
    BY <1>1, <2>2, <2>3, <2>4, <2>5, ListReplaced
<1> QED
  BY <1>2, <1>3, <1>4, <1>5 DEF Change

(* The process starts again with the list it had.                          *)
LEMMA ListEnds == ASSUME ListInv, Ends PROVE ListInv'
<1> DEFINE kept == SubSeq(array, 1, count)
<1>1. /\ count \in Nat /\ count <= Len(array) /\ Len(array) \in Nat
      /\ \A i \in 1..count : /\ array[i] \in Site \cup {NoSite}
                            /\ Sound(array[i], Len(loaded))
  BY LenProperties, ElementOfSeq DEF ListInv
<1>2. PICK size \in Decoded(count) : array' = Array(kept, size)
  BY DEF Ends
<1>3. size \in Nat /\ count <= size
  BY <1>1 DEF Decoded
<1>4. /\ kept \in Seq(Site \cup {NoSite}) /\ Len(kept) = count
      /\ \A i \in 1..count : kept[i] = array[i]
  BY <1>1, SubSeqProperties
<1>5. /\ count' = count /\ seen' = 0 /\ own' = <<>>
      /\ loaded' = [o \in DOMAIN loaded |-> NoApp]
  BY DEF Ends
<1> HIDE DEF kept
<1>6. /\ array' \in Seq(Site \cup {NoSite}) /\ Len(array') = size
      /\ \A i \in 1..count : array'[i] = array[i]
  <2>1. /\ Array(kept, size) \in Seq(Site \cup {NoSite})
        /\ Len(Array(kept, size)) = size
        /\ \A i \in 1..size : i <= Len(kept) => Array(kept, size)[i] = kept[i]
    BY <1>3, <1>4, ArrayType
  <2> QED
    BY <1>1, <1>2, <1>3, <1>4, <2>1
<1>7. loaded' \in Seq(File) /\ Len(loaded') = Len(loaded)
  BY <1>5, LenProperties DEF ListInv, File
<1>8. \A i \in 1..count' : Sound(array'[i], Len(loaded'))
  BY <1>1, <1>5, <1>6, <1>7
<1> QED
  BY <1>1, <1>3, <1>5, <1>6, <1>7, <1>8, EmptySeq DEF ListInv

LEMMA ListNext == ListInv /\ [Next]_vars => ListInv'
<1> SUFFICES ASSUME ListInv, [Next]_vars PROVE ListInv'
  OBVIOUS
<1>1. CASE Requests
  BY <1>1, ListChange DEF Requests
<1>2. CASE Crash \/ Panic \/ Exit
  BY <1>2, ListEnds DEF Crash, Panic, Exit
<1>3. CASE SyncState /\ UNCHANGED confVars
  <2>1. CASE Begin
    BY <2>1, ListFrame DEF Begin
  <2>2. CASE BeginFails \/ TrimFails
    BY <2>2, ListFrame DEF BeginFails, TrimFails, Finish
  <2>3. CASE Scan \/ SkipSite \/ SyncFolder \/ SyncFolderFails
    BY <2>3, ListFrame DEF Scan, SkipSite, SyncFolder, SyncFolderFails, siteVars
  <2>4. CASE Staged \/ FoldersDone \/ TrimFolders
    BY <2>4, ListFrame DEF Staged, FoldersDone, TrimFolders, siteVars
  <2>5. ASSUME NEW found, found \subseteq Apps, ReadManifests(found)
        PROVE  loaded' \in Seq(File) /\ Len(loaded') = Len(loaded)
    BY <2>5, ReadManifestsType
  <2>6. CASE SyncApps
    <3>1. PICK found \in HaveManifest(Expected) : ReadManifests(found)
      BY <2>6 DEF SyncApps
    <3>2. found \subseteq Apps
      BY DEF HaveManifest, Expected
    <3> QED
      BY <2>5, <2>6, <3>1, <3>2, ListStays, LenProperties DEF SyncApps, ListInv
  <2>7. CASE SyncAppsFails
    <3>1. PICK found \in HaveManifest(Expected) :
            \E read \in SUBSET found : ReadManifests(read)
      BY <2>7 DEF SyncAppsFails
    <3>2. PICK read \in SUBSET found : ReadManifests(read)
      BY <3>1
    <3>3. read \subseteq Apps
      BY DEF HaveManifest, Expected
    <3> QED
      BY <2>5, <2>7, <3>2, <3>3, ListStays, LenProperties
      DEF SyncAppsFails, Finish, ListInv
  <2> QED
    BY <1>3, <2>1, <2>2, <2>3, <2>4, <2>6, <2>7 DEF SyncState
<1>4. ASSUME NEW a \in Apps, Stage(a) PROVE ListInv'
  BY <1>4, ListFrame DEF Stage, Fetch, FetchFails, Extract, ExtractFails,
                         StagingFails, siteVars
<1>5. CASE SyncConfiguration
  BY <1>5, ConfigurationKeepsList, ListFrame
<1>6. CASE UNCHANGED vars
  BY <1>6, ListFrame DEF vars, siteVars
<1> QED
  BY <1>1, <1>2, <1>3, <1>4, <1>5, <1>6 DEF Next

-----------------------------------------------------------------------------
(* A set of indices has a last one: the sets of those after an index have  *)
(* a smallest.                                                             *)
LEMMA LastIndex ==
  ASSUME NEW n \in Nat, NEW S, S \subseteq 1..n, S # {}
  PROVE  \E i \in S : \A k \in S : k <= i
<1> DEFINE After(i) == {k \in S : k > i}
           T == {After(i) : i \in S}
<1>1. IsFiniteSet(S) /\ FiniteSubsetsOf(S) = SUBSET S
  <2>1. IsFiniteSet(1..n)
    BY FS_Interval
  <2>2. IsFiniteSet(S)
    BY <2>1, FS_Subset
  <2> QED
    BY <2>2, FS_FiniteSubsetsOfFinite
<1>2. IsWellFoundedOn(StrictSubsetOrdering(S), SUBSET S)
  BY <1>1, FS_StrictSubsetOrderingWellFounded
<1>3. T \subseteq SUBSET S /\ T # {}
  OBVIOUS
<1> HIDE DEF T
<1>4. PICK U \in T : \A V \in T : <<V, U>> \notin StrictSubsetOrdering(S)
  BY <1>2, <1>3, WFMin
<1>5. PICK i \in S : U = After(i)
  BY <1>4 DEF T
<1>6. ASSUME NEW k \in S, k > i PROVE FALSE
  <2>1. After(k) \in T
    BY DEF T
  <2>2. k \in U /\ k \notin After(k) /\ After(k) \subseteq U
    <3>1. \A j \in S : j \in Nat
      OBVIOUS
    <3>2. k \in U
      BY <1>5, <1>6
    <3>3. k \notin After(k)
      BY <3>1
    <3>4. ASSUME NEW j \in After(k) PROVE j \in After(i)
      BY <1>6, <3>1, <3>4
    <3> QED
      BY <1>5, <3>2, <3>3, <3>4
  <2>3. <<After(k), U>> \in StrictSubsetOrdering(S)
    BY <1>3, <1>4, <2>1, <2>2 DEF StrictSubsetOrdering
  <2> QED
    BY <1>4, <2>1, <2>3
<1> QED
  BY <1>6

LEMMA LastChosen ==
  ASSUME NEW n \in Nat, NEW S, S \subseteq 1..n, S # {}
  PROVE  (CHOOSE i \in S : \A k \in S : k <= i) \in S
BY LastIndex

LEMMA RenderType ==
  ASSUME ListInv, NEW s, Sound(s, Len(loaded))
  PROVE  Render(s) \in File
<1>1. \A o \in 1..Len(loaded) : loaded[o] \in File
  BY ElementOfSeq DEF ListInv
<1> QED
  BY <1>1 DEF Render, Sound, File

LEMMA DesiredType ==
  ASSUME ListInv, DesiredConfiguration
  PROVE  desired' \in [Domains -> File \cup {Missing}]
<1> DEFINE slots(d) == {i \in HealthySlots : Slot(i).domain = d}
           last(d) == CHOOSE i \in slots(d) : \A k \in slots(d) : k <= i
<1>1. ASSUME NEW d, slots(d) # {}
      PROVE  Render(Slot(last(d))) \in File
  <2>1. slots(d) \subseteq 1..seen /\ seen \in Nat
    BY DEF HealthySlots, ListInv
  <2>2. last(d) \in slots(d)
    BY <1>1, <2>1, LastChosen
  <2>3. Sound(Slot(last(d)), Len(loaded))
    BY <2>1, <2>2 DEF ListInv
  <2> QED
    BY <2>3, RenderType
<1> DEFINE file(d) == IF slots(d) = {} THEN Missing ELSE Render(Slot(last(d)))
<1>2. desired' = [d \in Domains |-> file(d)]
  BY DEF DesiredConfiguration
<1>3. \A d \in Domains : file(d) \in File \cup {Missing}
  BY <1>1
<1> HIDE DEF file
<1> QED
  BY <1>2, <1>3

LEMMA FairInit == Init => FairInv
<1> SUFFICES ASSUME Init PROVE FairInv
  OBVIOUS
<1>1. health = [d \in Domains |-> "ok"] /\ pc = "idle"
  BY DEF Init, SitesInit, AppInit
<1>2. /\ conf = [d \in Domains |-> Missing] /\ desired = conf
      /\ written = {} /\ untested = FALSE
  BY DEF Init, NginxInit
<1> QED
  BY <1>1, <1>2 DEF FairInv, Valid

(* The disk and what was rendered stay the same.                           *)
LEMMA FairFrame ==
  ASSUME FairInv, UNCHANGED <<conf, desired, written, untested>>,
         pc' # "test", pc # "test",
         health' \in [Domains -> {"ok", "failed", "rejected"}]
  PROVE  FairInv'
BY DEF FairInv, Valid

(* A sync is cut short: a file that was just written, or that is torn, is  *)
(* left without a test.                                                    *)
LEMMA FairCut ==
  ASSUME FairInv, LeftUntested, written' = {}, pc' = "idle",
         desired' = [d \in Domains |-> Missing],
         health' \in [Domains -> {"ok", "failed", "rejected"}],
         conf' \in [Domains -> File \cup {Missing, Torn}],
         \A d \in Domains : conf'[d] \in {conf[d], Torn, Missing}
  PROVE  FairInv'
<1>1. untested' \in BOOLEAN
  BY DEF LeftUntested, FairInv
<1>2. ASSUME ~untested', NEW d \in Domains PROVE Valid(d)'
  <2>1. ~untested /\ written = {} /\ conf'[d] # Torn
    BY <1>2 DEF LeftUntested, FairInv
  <2>2. Valid(d)
    BY <2>1 DEF FairInv
  <2> QED
    BY <2>1, <2>2 DEF Valid
<1> QED
  BY <1>1, <1>2 DEF FairInv

LEMMA FairSyncState ==
  ASSUME FairInv, SyncState, UNCHANGED confVars
  PROVE  FairInv'
<1>1. pc # "test" /\ pc' # "test"
  BY DEF SyncState, Begin, BeginFails, Scan, Staged, SyncApps, SyncAppsFails,
         SkipSite, SyncFolder, SyncFolderFails, FoldersDone, TrimFolders,
         TrimFails, Goto, Loop, LoopEnds, Finish
<1>2. health' = health \/ \E d, h : SetHealth(d, h) /\ h \in {"ok", "failed"}
  BY DEF SyncState, Begin, BeginFails, Scan, Staged, SyncApps, SyncAppsFails,
         SkipSite, SyncFolder, SyncFolderFails, FoldersDone, TrimFolders,
         TrimFails, siteVars
<1>3. health' \in [Domains -> {"ok", "failed", "rejected"}]
  BY <1>2 DEF FairInv, SetHealth
<1> QED
  BY <1>1, <1>3, FairFrame DEF confVars

LEMMA FairSyncConfiguration ==
  ASSUME ListInv, FairInv, SyncConfiguration
  PROVE  FairInv'
<1>1. CASE DesiredConfiguration
  <2>1. desired' \in [Domains -> File \cup {Missing}]
    BY <1>1, DesiredType
  <2> QED
    BY <1>1, <2>1 DEF DesiredConfiguration, Goto, FairInv, Valid, siteVars
<1>2. CASE ExistingConfiguration
  BY <1>2 DEF ExistingConfiguration, Goto, FairInv, Valid, siteVars
<1>3. CASE ConfigurationDone
  BY <1>3, FairFrame DEF ConfigurationDone, Goto, FairInv, confVars, siteVars
<1>4. ASSUME NEW d \in Domains, WriteConfig(d) PROVE FairInv'
  <2>1. /\ conf' = [conf EXCEPT ![d] = desired[d]] /\ written' = {d}
        /\ pc = "write" /\ pc' = "test"
        /\ UNCHANGED <<desired, health, untested>>
    BY <1>4 DEF WriteConfig, siteVars
  <2> QED
    BY <2>1 DEF FairInv, Valid
<1>5. ASSUME NEW d \in Domains, Test(d) PROVE FairInv'
  <2>1. /\ written = {d} /\ written' = {} /\ pc' = "write"
        /\ UNCHANGED <<desired, untested>>
    BY <1>5 DEF Test, FairInv
  <2>2. CASE ConfigTest /\ UNCHANGED <<conf, health>>
    BY <2>1, <2>2 DEF FairInv, ConfigTest, Valid
  <2>3. CASE Blame(d) /\ conf' = [conf EXCEPT ![d] = Missing]
    BY <2>1, <2>3 DEF FairInv, Blame, SetHealth, Valid
  <2> QED
    BY <1>5, <2>2, <2>3 DEF Test
<1>6. CASE RestartServer
  BY <1>6 DEF RestartServer, Finish, FairInv, Valid
<1>7. ASSUME Abort, UNCHANGED health,
             conf' \in [Domains -> File \cup {Missing, Torn}],
             \A d \in Domains : conf'[d] \in {conf[d], Torn, Missing}
      PROVE  FairInv'
  BY <1>7, FairCut DEF Abort, Finish, FairInv
<1>8. CASE DesiredFails \/ RestartFails
  BY <1>7, <1>8 DEF DesiredFails, RestartFails, FairInv
<1>9. CASE ExistingFails
  BY <1>7, <1>9 DEF ExistingFails, FairInv
<1>10. ASSUME NEW d \in Domains, WriteFails(d) PROVE FairInv'
  <2>1. PICK f \in {conf[d], Torn} : conf' = [conf EXCEPT ![d] = f]
    BY <1>10 DEF WriteFails
  <2> QED
    BY <1>7, <1>10, <2>1 DEF WriteFails, FairInv
<1>11. ASSUME NEW d \in Domains, TestFails(d) PROVE FairInv'
  <2>1. Abort /\ UNCHANGED conf /\ (UNCHANGED health \/ Blame(d))
    BY <1>11 DEF TestFails
  <2>2. health' \in [Domains -> {"ok", "failed", "rejected"}]
    BY <2>1 DEF FairInv, Blame, SetHealth
  <2> QED
    BY <2>1, <2>2, FairCut DEF Abort, Finish, FairInv
<1> QED
  BY <1>1, <1>2, <1>3, <1>4, <1>5, <1>6, <1>8, <1>9, <1>10, <1>11
  DEF SyncConfiguration

LEMMA FairNext == ListInv /\ FairInv /\ [Next]_vars => FairInv'
<1> SUFFICES ASSUME ListInv, FairInv, [Next]_vars PROVE FairInv'
  OBVIOUS
<1>1. CASE Requests
  <2>1. UNCHANGED <<health, pc, conf, desired, written, untested>>
    BY <1>1 DEF Requests, Change, Resync, AddSite, UpdateSite, DeleteSite,
                Request, appVars, confVars
  <2> QED
    BY <2>1 DEF FairInv, Valid
<1>2. ASSUME Ends PROVE FairInv'
  <2>1. /\ LeftUntested /\ written' = {} /\ pc' = "idle"
        /\ desired' = [d \in Domains |-> Missing]
        /\ health' = [d \in Domains |-> "ok"]
        /\ \/ conf' = conf
           \/ \E d \in todo : conf' = [conf EXCEPT ![d] = Torn]
    BY <1>2 DEF Ends
  <2>2. /\ conf' \in [Domains -> File \cup {Missing, Torn}]
        /\ \A d \in Domains : conf'[d] \in {conf[d], Torn, Missing}
    BY <2>1 DEF FairInv
  <2> QED
    BY <2>1, <2>2, FairCut
<1>3. CASE Crash \/ Panic \/ Exit
  BY <1>2, <1>3 DEF Crash, Panic, Exit
<1>4. CASE SyncState /\ UNCHANGED confVars
  BY <1>4, FairSyncState
<1>5. ASSUME NEW a \in Apps, Stage(a), UNCHANGED confVars
      PROVE  FairInv'
  <2>1. health' = health \/ SetHealth(requester[a], "failed")
    BY <1>5 DEF Stage, Fetch, FetchFails, Extract, ExtractFails, StagingFails,
                siteVars
  <2>2. pc' = pc
    BY <1>5 DEF Stage, Fetch, FetchFails, Extract, ExtractFails, StagingFails
  <2> QED
    BY <1>5, <2>1, <2>2 DEF FairInv, SetHealth, Valid, confVars
<1>6. CASE SyncConfiguration
  BY <1>6, FairSyncConfiguration
<1>7. CASE UNCHANGED vars
  BY <1>7 DEF vars, siteVars, appVars, confVars, FairInv, Valid
<1> QED
  BY <1>1, <1>3, <1>4, <1>5, <1>6, <1>7 DEF Next

(* The file that was written is the one to blame when all the others are   *)
(* valid.                                                                  *)
LEMMA BlamedForItsRules ==
  ASSUME FairInv, ~untested, NEW d \in Domains, pc = "test", d \in written,
         ~ConfigTest
  PROVE  desired[d] \in Apps /\ Manifest[desired[d]] = "bad"
<1>1. written = {d} /\ conf[d] = desired[d] /\ conf[d] \in File \cup {Missing}
  BY DEF FairInv
<1>2. \A e \in Domains \ {d} : Valid(e)
  BY <1>1 DEF FairInv
<1>3. ~Valid(d)
  BY <1>2 DEF ConfigTest
<1> QED
  BY <1>1, <1>3 DEF Valid, File

LEMMA BlameStep ==
  ASSUME FairInv, [Next]_vars, NEW d \in Domains,
         health[d] # "rejected", health'[d] = "rejected", ~untested
  PROVE  desired[d] \in Apps /\ Manifest[desired[d]] = "bad"
<1>1. ASSUME UNCHANGED health PROVE FALSE
  BY <1>1
<1>2. ASSUME NEW e, NEW h, SetHealth(e, h), h # "rejected" PROVE FALSE
  BY <1>2 DEF SetHealth, FairInv
<1>3. CASE Requests
  BY <1>1, <1>3 DEF Requests, Change, Resync, AddSite, UpdateSite,
                    DeleteSite, Request
<1>4. CASE Crash \/ Panic \/ Exit
  BY <1>4 DEF Crash, Panic, Exit, Ends
<1>5. CASE SyncState
  <2>1. health' = health \/ \E e, h : SetHealth(e, h) /\ h # "rejected"
    BY <1>5 DEF SyncState, Begin, BeginFails, Scan, Staged, SyncApps,
         SyncAppsFails, SkipSite, SyncFolder, SyncFolderFails, FoldersDone,
         TrimFolders, TrimFails, siteVars
  <2> QED
    BY <1>1, <1>2, <2>1
<1>6. ASSUME NEW a \in Apps, Stage(a) PROVE FALSE
  BY <1>1, <1>2, <1>6 DEF Stage, Fetch, FetchFails, Extract, ExtractFails,
                          StagingFails, siteVars
<1>7. CASE SyncConfiguration
  <2>1. PICK e \in Domains : Test(e) \/ TestFails(e)
    BY <1>1, <1>7 DEF SyncConfiguration, DesiredConfiguration, DesiredFails,
         ExistingConfiguration, ExistingFails, WriteConfig, WriteFails,
         ConfigurationDone, RestartServer, RestartFails, siteVars
  <2>2. pc = "test" /\ e \in written /\ ~ConfigTest /\ Blame(e)
    BY <1>1, <2>1 DEF Test, TestFails
  <2>3. e = d
    BY <1>1, <2>2 DEF Blame, SetHealth, FairInv
  <2> QED
    BY <2>2, <2>3, BlamedForItsRules
<1>8. CASE UNCHANGED vars
  BY <1>1, <1>8 DEF vars, siteVars
<1> QED
  BY <1>3, <1>4, <1>5, <1>6, <1>7, <1>8 DEF Next

(* As long as every file that was written was also tested, a site is only  *)
(* rejected for the rules of its own app.                                  *)
THEOREM BlameIsFairAlways == Spec => BlameIsFair
<1>1. Init => ListInv /\ FairInv
  BY ListInit, FairInit
<1>2. ListInv /\ FairInv /\ [Next]_vars => (ListInv /\ FairInv)'
  BY ListNext, FairNext
<1>3. FairInv /\ [Next]_vars =>
        [\A d \in Domains :
           /\ health[d] # "rejected" /\ health'[d] = "rejected" /\ ~untested
           => desired[d] \in Apps /\ Manifest[desired[d]] = "bad"]_vars
  BY BlameStep
<1> QED
  BY <1>1, <1>2, <1>3, PTL DEF Spec, BlameIsFair

-----------------------------------------------------------------------------
LEMMA DistinctInit == Init => DistinctInv
<1> SUFFICES ASSUME Init, NEW i \in 1..count, NEW j \in 1..count,
                    \/ array[i].domain = array[j].domain
                    \/ /\ array[i].app # NoApp /\ array[j].app # NoApp
                       /\ array[i].object = array[j].object
             PROVE  i = j
  BY DEF DistinctInv
<1> DEFINE sites == scenario.sites
           list == [k \in DOMAIN sites |->
                      [domain |-> sites[k].domain, app |-> sites[k].app,
                       object |-> IF sites[k].app = NoApp THEN 0 ELSE k]]
<1>1. /\ sites \in Seq([domain : Domains, app : Apps \cup {NoApp}])
      /\ scenario.size \in Nat /\ Len(sites) <= scenario.size
      /\ \A k, l \in 1..Len(sites) : sites[k].domain = sites[l].domain => k = l
  BY SitesAssumption DEF Init, SitesInit
<1>2. array = Array(list, scenario.size) /\ count = Len(sites)
  BY DEF Init, SitesInit, Load
<1> HIDE DEF sites
<1>3. DOMAIN sites = 1..Len(sites) /\ Len(sites) \in Nat
  BY <1>1, LenProperties
<1>4. Len(list) = Len(sites)
  BY <1>3
<1>5. ASSUME NEW k \in 1..count
      PROVE  /\ k \in 1..Len(sites)
             /\ array[k].domain = sites[k].domain
             /\ array[k].app = sites[k].app
             /\ array[k].object = IF sites[k].app = NoApp THEN 0 ELSE k
  <2>1. k \in 1..scenario.size /\ k <= Len(list) /\ k \in 1..Len(sites)
    BY <1>1, <1>2, <1>3, <1>4
  <2>2. array[k] = list[k]
    BY <1>2, <2>1 DEF Array
  <2> QED
    BY <1>3, <2>1, <2>2
<1>6. CASE array[i].domain = array[j].domain
  BY <1>1, <1>5, <1>6
<1>7. CASE /\ array[i].app # NoApp /\ array[j].app # NoApp
           /\ array[i].object = array[j].object
  BY <1>5, <1>7
<1> QED
  BY <1>6, <1>7

(* Every element of the new list is one of the old, a site of a domain     *)
(* that was free, or a site that got a new object.                         *)
LEMMA DistinctChange == ASSUME ListInv, DistinctInv, Change PROVE DistinctInv'
<1>1. Len(array) \in Nat /\ count \in Nat /\ count <= Len(array)
  BY LenProperties DEF ListInv
<1>0. \A i \in 1..Len(array) : i \in DOMAIN array
  BY LenProperties DEF ListInv
<1>2. CASE Resync
  BY <1>2 DEF Resync, DistinctInv
<1>3. ASSUME NEW d \in Domains, AddSite(d) PROVE DistinctInv'
  <2> DEFINE s == [domain |-> d, app |-> NoApp, object |-> 0]
  <2>1. count' = count + 1
    BY <1>3 DEF AddSite
  <2>2. array'[count + 1] = s /\ \A i \in 1..count : array'[i] = array[i]
    <3>1. CASE count < Len(array)
      <4>1. array' = [array EXCEPT ![count + 1] = s]
        BY <1>3, <3>1 DEF AddSite
      <4> QED
        BY <1>0, <1>1, <3>1, <4>1
    <3>2. CASE count = Len(array)
      <4> DEFINE longer == Append(array, s)
                 size == IF count = 0 THEN 1 ELSE 2 * count
      <4>1. array' = Array(longer, size)
        BY <1>1, <1>3, <3>2 DEF AddSite
      <4>2. /\ Len(longer) = count + 1 /\ longer[count + 1] = s
            /\ \A i \in 1..count : longer[i] = array[i]
        BY <1>1, <3>2, AppendProperties DEF ListInv, Site
      <4>3. size \in Nat /\ count + 1 <= size
        BY <1>1
      <4> HIDE DEF longer, size, s
      <4> QED
        BY <1>1, <4>1, <4>2, <4>3 DEF Array
    <3>3. count < Len(array) \/ count = Len(array)
      BY <1>1
    <3> QED
      BY <3>1, <3>2, <3>3
  <2>3. \A i \in 1..count : array[i].domain # d
    BY <1>3 DEF AddSite, Listed
  <2>4. s.domain = d /\ s.app = NoApp
    OBVIOUS
  <2> HIDE DEF s
  <2> QED
    BY <1>1, <2>1, <2>2, <2>3, <2>4 DEF DistinctInv
<1>4. ASSUME NEW d \in Domains, NEW a \in Apps, UpdateSite(d, a)
      PROVE  DistinctInv'
  <2>1. PICK i \in 1..count :
          array' = [array EXCEPT ![i] =
                      [@ EXCEPT !.app = a, !.object = Len(loaded')]]
    BY <1>4 DEF UpdateSite
  <2>2. count' = count /\ Len(loaded') = Len(loaded) + 1
    BY <1>4, AppendProperties DEF UpdateSite, ListInv, File
  <2>3. array[i] \in Site /\ Len(loaded) \in Nat
    BY LenProperties DEF ListInv, Sound
  <2>4. /\ array'[i].domain = array[i].domain
        /\ array'[i].object = Len(loaded')
    <3> DEFINE s == [array[i] EXCEPT !.app = a, !.object = Len(loaded')]
    <3>1. s.domain = array[i].domain /\ s.object = Len(loaded')
      BY <2>2, <2>3 DEF Site
    <3>2. array' = [array EXCEPT ![i] = s]
      BY <2>1
    <3> HIDE DEF s
    <3> QED
      BY <1>0, <1>1, <3>1, <3>2
  <2>5. \A j \in 1..count : j # i => array'[j] = array[j]
    <3> DEFINE s == [array[i] EXCEPT !.app = a, !.object = Len(loaded')]
    <3>1. array' = [array EXCEPT ![i] = s]
      BY <2>1
    <3> HIDE DEF s
    <3> QED
      BY <1>0, <1>1, <3>1
  <2>6. \A j \in 1..count : array[j].app # NoApp => array[j].object <= Len(loaded)
    BY <2>3 DEF ListInv, Sound
  <2>7. \A j \in 1..count : j # i /\ array'[j].app # NoApp
                           => array'[j].object # array'[i].object
    BY <2>2, <2>3, <2>4, <2>5, <2>6 DEF ListInv, Sound
  <2> QED
    BY <2>2, <2>4, <2>5, <2>7 DEF DistinctInv
<1>5. ASSUME NEW d \in Domains, DeleteSite(d) PROVE DistinctInv'
  <2>1. PICK i \in 1..count : array' = [array EXCEPT ![i] = array[count]]
    BY <1>5 DEF DeleteSite
  <2>2. count' = count - 1
    BY <1>5 DEF DeleteSite
  <2>3. \A j \in 1..count' : array'[j] = array[IF j = i THEN count ELSE j]
    BY <1>0, <1>1, <2>1, <2>2
  <2> QED
    BY <1>1, <2>2, <2>3 DEF DistinctInv
<1> QED
  BY <1>2, <1>3, <1>4, <1>5 DEF Change

LEMMA DistinctEnds == ASSUME ListInv, DistinctInv, Ends PROVE DistinctInv'
<1>1. count \in Nat /\ count <= Len(array) /\ Len(array) \in Nat
  BY LenProperties DEF ListInv
<1>2. PICK size \in Decoded(count) :
        array' = Array(SubSeq(array, 1, count), size)
  BY DEF Ends
<1>3. size \in Nat /\ count <= size /\ count' = count
  BY <1>1 DEF Decoded, Ends
<1>4. ASSUME NEW i \in 1..count PROVE array'[i] = array[i]
  <2>1. /\ Len(SubSeq(array, 1, count)) = count
        /\ SubSeq(array, 1, count)[i] = array[i]
    BY <1>1, SubSeqProperties DEF ListInv, Sound
  <2> QED
    BY <1>1, <1>2, <1>3, <2>1 DEF Array
<1> QED
  BY <1>3, <1>4 DEF DistinctInv

LEMMA DistinctNext == ListInv /\ DistinctInv /\ [Next]_vars => DistinctInv'
<1> SUFFICES ASSUME ListInv, DistinctInv, [Next]_vars PROVE DistinctInv'
  OBVIOUS
<1>1. ASSUME UNCHANGED <<array, count>> PROVE DistinctInv'
  BY <1>1 DEF DistinctInv
<1>2. CASE Requests
  BY <1>2, DistinctChange DEF Requests
<1>3. CASE Crash \/ Panic \/ Exit
  BY <1>3, DistinctEnds DEF Crash, Panic, Exit
<1>4. CASE SyncState
  BY <1>1, <1>4 DEF SyncState, Begin, BeginFails, Scan, Staged, SyncApps,
       SyncAppsFails, SkipSite, SyncFolder, SyncFolderFails, FoldersDone,
       TrimFolders, TrimFails, siteVars
<1>5. ASSUME NEW a \in Apps, Stage(a) PROVE DistinctInv'
  BY <1>1, <1>5 DEF Stage, Fetch, FetchFails, Extract, ExtractFails,
                    StagingFails, siteVars
<1>6. CASE SyncConfiguration
  BY <1>1, <1>6, ConfigurationKeepsList
<1>7. CASE UNCHANGED vars
  BY <1>1, <1>7 DEF vars, siteVars
<1> QED
  BY <1>2, <1>3, <1>4, <1>5, <1>6, <1>7 DEF Next

-----------------------------------------------------------------------------
LEMMA LocalsInit == Init => LocalsInv
<1> SUFFICES ASSUME Init PROVE LocalsInv
  OBVIOUS
<1>1. stale \in BOOLEAN /\ todo = {}
  BY DEF Init, SitesInit, NginxInit
<1>2. /\ pc = "idle" /\ at = 1 /\ outcome = "none"
      /\ staged = [a \in Apps |-> "none"] /\ jobs = [a \in Apps |-> "none"]
      /\ index = [a \in Apps |-> 0] /\ www = [d \in Domains |-> NoApp]
      /\ dirs = {} /\ expected = {} /\ broken = {}
  BY DEF Init, AppInit
<1>3. Staging = {} /\ \A a \in Apps : staged[a] # "partial"
  BY <1>2 DEF Staging
<1>4. SyncTypes
  <2>1. stale \in BOOLEAN /\ todo \subseteq Domains
    BY <1>1
  <2> QED
    BY <1>2, <2>1 DEF SyncTypes, Steps, File
<1> QED
  BY <1>2, <1>3, <1>4 DEF LocalsInv

(* A sync ends, or the process does.                                       *)
LEMMA LocalsOver ==
  ASSUME LocalsInv, stale' \in BOOLEAN,
         pc' = "idle", at' = 1, outcome' \in {"none", "ok", "error"},
         jobs' = [a \in Apps |-> "none"], index' = [a \in Apps |-> 0],
         expected' = {}, todo' \in {todo, {}}, UNCHANGED <<dirs, www>>,
         staged' \in [Apps -> {"none", "partial", "full"}],
         broken' \subseteq Apps, broken \subseteq broken',
         \A a \in Apps : staged'[a] = "partial" =>
           staged[a] = "partial" \/ a \in broken'
  PROVE  LocalsInv'
BY DEF LocalsInv, SyncTypes, Steps, Staging

LEMMA LocalsEnds == ASSUME LocalsInv, Ends PROVE LocalsInv'
<1>1. PICK cut \in SUBSET {a \in Apps : jobs[a] = "extract"} :
        staged' = [a \in Apps |-> IF a \in cut THEN "partial" ELSE staged[a]]
  BY DEF Ends
<1>2. broken' = broken \cup Staging /\ cut \subseteq Staging
  BY DEF Ends, Staging
<1>3. /\ staged' \in [Apps -> {"none", "partial", "full"}]
      /\ \A a \in Apps : staged'[a] = "partial" =>
           staged[a] = "partial" \/ a \in broken'
      /\ broken' \subseteq Apps /\ broken \subseteq broken'
  BY <1>1, <1>2 DEF LocalsInv, SyncTypes, Staging
<1>4. /\ stale' = FALSE /\ pc' = "idle" /\ at' = 1 /\ outcome' = "none"
      /\ jobs' = [a \in Apps |-> "none"] /\ index' = [a \in Apps |-> 0]
      /\ expected' = {} /\ todo' = {} /\ UNCHANGED <<dirs, www>>
  BY DEF Ends
<1> QED
  BY <1>3, <1>4, LocalsOver

LEMMA LocalsFinish ==
  ASSUME LocalsInv, NEW how \in {"ok", "error"}, Finish(how),
         stale' \in BOOLEAN, todo' \in {todo, {}},
         UNCHANGED <<dirs, www, broken>>,
         staged' = staged \/ \E gone : Remove(gone)
  PROVE  LocalsInv'
<1>1. /\ staged' \in [Apps -> {"none", "partial", "full"}]
      /\ \A a \in Apps : staged'[a] = "partial" => staged[a] = "partial"
  <2>1. CASE staged' = staged
    BY <2>1 DEF LocalsInv, SyncTypes
  <2>2. ASSUME NEW gone, Remove(gone)
        PROVE  /\ staged' \in [Apps -> {"none", "partial", "full"}]
               /\ \A a \in Apps : staged'[a] = "partial" => staged[a] = "partial"
    BY <2>2 DEF Remove, LocalsInv, SyncTypes
  <2> QED
    BY <2>1, <2>2
<1> QED
  BY <1>1, LocalsOver DEF Finish, LocalsInv, SyncTypes

(* What the sync reads at its place in the list.                           *)
LEMMA HereIsSite ==
  ASSUME ListInv, LocalsInv, at <= seen
  PROVE  /\ Here \in Site
         /\ Here.domain \in Domains /\ Here.app \in File
<1>1. at \in 1..seen
  BY DEF ListInv, LocalsInv, SyncTypes
<1> QED
  BY <1>1 DEF Here, ListInv, Sound, Site, File

LEMMA LocalsSyncState ==
  ASSUME ListInv, LocalsInv, SyncState, UNCHANGED confVars
  PROVE  LocalsInv'
<1> USE DEF LocalsInv, SyncTypes, Steps, Staging, confVars
<1>1. CASE Begin
  <2>1. /\ pc = "idle" /\ pc' = "scan" /\ at' = 1 /\ stale' \in BOOLEAN
        /\ outcome' = "none"
        /\ UNCHANGED <<staged, www, dirs, jobs, index, expected, broken, todo>>
    BY <1>1 DEF Begin, Goto, diskVars, stagingVars
  <2>2. \A a \in Apps : jobs'[a] = "none"
    BY <2>1
  <2>3. SyncTypes'
    BY <2>1
  <2> HIDE DEF SyncTypes
  <2> QED
    BY <2>1, <2>2, <2>3
<1>2. CASE BeginFails \/ TrimFails
  BY <1>2, LocalsFinish DEF BeginFails, TrimFails, diskVars
<1>3. CASE SyncAppsFails
  <2>1. PICK a \in Extraneous : \E gone \in SUBSET (Extraneous \ {a}) : Remove(gone)
    BY <1>3 DEF SyncAppsFails
  <2> QED
    BY <1>3, <2>1, LocalsFinish DEF SyncAppsFails
<1>4. CASE Scan
  <2>1. /\ pc = "scan" /\ pc' = "scan" /\ at' = at + 1 /\ at <= seen
        /\ UNCHANGED <<stale, outcome, staged, www, dirs, expected, broken>>
    BY <1>4 DEF Scan, Loop, resultVars, diskVars
  <2>2. \/ UNCHANGED <<jobs, index>>
        \/ /\ Here.app # NoApp
           /\ index' = [index EXCEPT ![Here.app] = at]
           /\ \/ jobs' = jobs
              \/ jobs' = [jobs EXCEPT ![Here.app] = "fetch"]
    BY <1>4 DEF Scan, stagingVars
  <2>3. Here.app # NoApp => Here.app \in Apps
    BY <2>1, HereIsSite DEF File
  <2> QED
    BY <2>1, <2>2, <2>3
<1>5. CASE Staged \/ FoldersDone
  BY <1>5 DEF Staged, FoldersDone, LoopEnds, Goto, siteVars, resultVars,
              diskVars, stagingVars
<1>6. CASE SyncApps
  <2>1. \E gone : Remove(gone)
    BY <1>6 DEF SyncApps
  <2>2. /\ staged' \in [Apps -> {"none", "partial", "full"}]
        /\ \A a \in Apps : staged'[a] = "partial" => staged[a] = "partial"
    BY <2>1 DEF Remove
  <2> QED
    BY <1>6, <2>2 DEF SyncApps, Goto, resultVars, stagingVars
<1>7. CASE SkipSite
  BY <1>7 DEF SkipSite, Loop, siteVars, resultVars, diskVars, stagingVars
<1>8. CASE SyncFolder
  <2>1. Here.domain \in Domains /\ Here.app \in File
    BY <1>8, HereIsSite DEF SyncFolder, Loop
  <2> QED
    BY <1>8, <2>1 DEF SyncFolder, Loop, siteVars, resultVars, stagingVars
<1>9. CASE SyncFolderFails
  <2>1. Here.domain \in Domains
    BY <1>9, HereIsSite DEF SyncFolderFails, Loop
  <2> QED
    BY <1>9, <2>1 DEF SyncFolderFails, Loop, resultVars, stagingVars
<1>10. CASE TrimFolders
  BY <1>10 DEF TrimFolders, Goto, resultVars, stagingVars
<1> QED
  BY <1>1, <1>2, <1>3, <1>4, <1>5, <1>6, <1>7, <1>8, <1>9, <1>10 DEF SyncState

LEMMA LocalsStage ==
  ASSUME LocalsInv, NEW a \in Apps, Stage(a), UNCHANGED confVars
  PROVE  LocalsInv'
<1>1. /\ UNCHANGED <<pc, at, stale, outcome, www, dirs, expected, todo, index>>
      /\ pc = "scan"
      /\ jobs' \in {[jobs EXCEPT ![a] = "extract"], [jobs EXCEPT ![a] = "done"]}
  BY DEF Stage, Fetch, FetchFails, Extract, ExtractFails, StagingFails,
         siteVars, resultVars, confVars, LocalsInv, SyncTypes, Staging
<1>2. CASE Fetch(a)
  BY <1>1, <1>2 DEF Fetch, LocalsInv, SyncTypes, Steps, Staging
<1>3. CASE Extract(a)
  BY <1>1, <1>3 DEF Extract, LocalsInv, SyncTypes, Steps, Staging
<1>4. CASE FetchFails(a)
  BY <1>1, <1>4 DEF FetchFails, StagingFails, LocalsInv, SyncTypes, Steps,
                    Staging
<1>5. CASE ExtractFails(a)
  BY <1>1, <1>5 DEF ExtractFails, StagingFails, LocalsInv, SyncTypes,
                    Steps, Staging
<1> QED
  BY <1>2, <1>3, <1>4, <1>5 DEF Stage

LEMMA LocalsSyncConfiguration ==
  ASSUME LocalsInv, SyncConfiguration
  PROVE  LocalsInv'
<1>1. ASSUME UNCHANGED <<stale, outcome, staged, jobs, index, www, dirs,
                         expected, broken>>,
             at' \in {at, 1}, todo' \subseteq Domains,
             pc \in Steps \ {"idle", "scan", "apps"},
             pc' \in Steps \ {"idle", "scan", "apps"}
      PROVE  LocalsInv'
  BY <1>1 DEF LocalsInv, SyncTypes, Staging
<1>2. CASE DesiredConfiguration \/ ConfigurationDone
  BY <1>1, <1>2 DEF DesiredConfiguration, ConfigurationDone, Goto, siteVars,
       resultVars, diskVars, stagingVars, confVars, Steps, LocalsInv, SyncTypes
<1>3. CASE ExistingConfiguration
  BY <1>1, <1>3 DEF ExistingConfiguration, Goto, siteVars, resultVars,
       diskVars, stagingVars, Steps
<1>4. ASSUME NEW d \in Domains, WriteConfig(d) PROVE LocalsInv'
  BY <1>1, <1>4 DEF WriteConfig, siteVars, resultVars, diskVars, stagingVars,
       Steps, LocalsInv, SyncTypes
<1>5. ASSUME NEW d \in Domains, Test(d) PROVE LocalsInv'
  BY <1>1, <1>5 DEF Test, siteVars, resultVars, diskVars, stagingVars,
       Steps, LocalsInv, SyncTypes
<1>6. CASE RestartServer
  BY <1>6, LocalsFinish DEF RestartServer, diskVars, LocalsInv, SyncTypes
<1>7. ASSUME Abort PROVE LocalsInv'
  BY <1>7, LocalsFinish DEF Abort, diskVars, LocalsInv, SyncTypes
<1>8. CASE DesiredFails \/ ExistingFails \/ RestartFails
  BY <1>7, <1>8 DEF DesiredFails, ExistingFails, RestartFails
<1>9. ASSUME NEW d \in Domains, WriteFails(d) \/ TestFails(d) PROVE LocalsInv'
  BY <1>7, <1>9 DEF WriteFails, TestFails
<1> QED
  BY <1>2, <1>3, <1>4, <1>5, <1>6, <1>8, <1>9 DEF SyncConfiguration

LEMMA LocalsNext == ListInv /\ LocalsInv /\ [Next]_vars => LocalsInv'
<1> SUFFICES ASSUME ListInv, LocalsInv, [Next]_vars PROVE LocalsInv'
  OBVIOUS
<1>1. CASE Requests
  <2>1. UNCHANGED <<appVars, todo>> /\ stale' \in BOOLEAN
    BY <1>1 DEF Requests, Change, Resync, AddSite, UpdateSite, DeleteSite,
                confVars, LocalsInv, SyncTypes
  <2> QED
    BY <2>1 DEF LocalsInv, SyncTypes, appVars, resultVars, diskVars, stagingVars, Staging
<1>2. CASE Crash \/ Panic \/ Exit
  BY <1>2, LocalsEnds DEF Crash, Panic, Exit
<1>3. CASE SyncState /\ UNCHANGED confVars
  BY <1>3, LocalsSyncState
<1>4. ASSUME NEW a \in Apps, Stage(a), UNCHANGED confVars PROVE LocalsInv'
  BY <1>4, LocalsStage
<1>5. CASE SyncConfiguration
  BY <1>5, LocalsSyncConfiguration
<1>6. CASE UNCHANGED vars
  BY <1>6 DEF vars, siteVars, appVars, confVars, resultVars, diskVars,
              stagingVars, LocalsInv, SyncTypes, Staging
<1> QED
  BY <1>1, <1>2, <1>3, <1>4, <1>5, <1>6 DEF Next

-----------------------------------------------------------------------------
(* What has to be shown after each step of a sync.                         *)
LEMMA AfterChange ==
  ASSUME ~Steady', ~Settled', TodoInv'
  PROVE  ApplyInv'
BY DEF ApplyInv, FrozenInv, ScanInv, StagedInv, FoldersInv, FilesInv, Steady,
       Later

LEMMA AtScan ==
  ASSUME pc' \in {"scan", "apps"}, FrozenInv', ScanInv', TodoInv'
  PROVE  ApplyInv'
BY DEF ApplyInv, StagedInv, FoldersInv, FilesInv, Steady, Later, Settled,
       AfterApps

LEMMA AtFolders ==
  ASSUME pc' \in {"folders", "trim"}, FrozenInv', StagedInv', FoldersInv',
         TodoInv'
  PROVE  ApplyInv'
BY DEF ApplyInv, ScanInv, FilesInv, Steady, Settled

LEMMA AtFiles ==
  ASSUME pc' \notin {"scan", "apps"}, FrozenInv', StagedInv', FoldersInv',
         TodoInv', FilesInv'
  PROVE  ApplyInv'
BY DEF ApplyInv, ScanInv

LEMMA StagedKept ==
  ASSUME StagedInv, UNCHANGED <<array, count, loaded, staged, broken>>,
         Later(AfterApps)' => Later(AfterApps)
  PROVE  StagedInv'
BY DEF StagedInv

LEMMA FoldersKept ==
  ASSUME FoldersInv, UNCHANGED <<array, count, dirs, www, scenario>>,
         \A i \in 1..count : Healthy(i)' => Healthy(i),
         pc' \notin {"folders", "trim"},
         Later(AfterApps \ {"folders", "trim"})'
           => Later(AfterApps \ {"folders", "trim"})
  PROVE  FoldersInv'
BY DEF FoldersInv, HasFolder, ListedDomains

(* The sync reads the list of the node.                                    *)
LEMMA SteadyList ==
  ASSUME FrozenInv, Steady
  PROVE  seen = count /\ \A i : Slot(i) = array[i]
BY DEF FrozenInv, Slot

(* Nothing that a sync has done changes when it ends with an error, when   *)
(* the process ends or when a site changes.                                *)
LEMMA ApplyBreaks ==
  ASSUME TodoInv,
         \/ /\ stale' /\ UNCHANGED <<todo, written>>
            /\ pc' = pc \/ pc' # "restart"
         \/ pc' = "idle" /\ outcome' # "ok" /\ written' = {}
  PROVE  ApplyInv'
<1>1. ~Steady' /\ ~Settled'
  BY DEF Steady, Settled
<1>2. TodoInv'
  BY DEF TodoInv
<1> QED
  BY <1>1, <1>2, AfterChange

LEMMA ApplyFrame ==
  ASSUME ApplyInv,
         UNCHANGED <<array, count, seen, own, loaded, health, stale, scenario>>,
         UNCHANGED <<pc, at, outcome, staged, dirs, www, jobs, index, expected,
                     broken>>,
         UNCHANGED <<conf, desired, todo, written>>
  PROVE  ApplyInv'
<1>1. /\ Steady' = Steady /\ Settled' = Settled /\ Staging' = Staging
      /\ ListedDomains' = ListedDomains
      /\ \A i : /\ Healthy(i)' = Healthy(i) /\ HasFolder(i)' = HasFolder(i)
                /\ Render(array[i])' = Render(array[i])
  BY DEF Steady, Settled, Staging, Healthy, HasFolder, ListedDomains, Render
<1>2. FrozenInv' /\ TodoInv'
  BY <1>1 DEF ApplyInv, FrozenInv, TodoInv
<1>3. ScanInv'
  BY <1>1 DEF ApplyInv, ScanInv
<1>4. StagedInv'
  BY <1>1 DEF ApplyInv, StagedInv, Later
<1>5. FoldersInv'
  BY <1>1 DEF ApplyInv, FoldersInv, Later
<1>6. FilesInv'
  BY <1>1 DEF ApplyInv, FilesInv
<1> QED
  BY <1>2, <1>3, <1>4, <1>5, <1>6 DEF ApplyInv

(* The first steps: the list is read, the apps are staged.                 *)
LEMMA ApplyBegin == ASSUME SyncInv, Begin, UNCHANGED confVars PROVE ApplyInv'
<1>1. /\ pc = "idle" /\ pc' = "scan" /\ at' = 1
      /\ seen' = count /\ own' = <<>>
      /\ UNCHANGED <<array, count, jobs, index, staged, broken, todo, written>>
  BY DEF Begin, Goto, diskVars, stagingVars, confVars
<1>2. \A a \in Apps : index'[a] = 0
  BY <1>1 DEF SyncInv, LocalsInv
<1>3. \A i \in 1..count : ~(i < 1)
  OBVIOUS
<1>4. ScanInv'
  BY <1>1, <1>2, <1>3 DEF ScanInv
<1>5. FrozenInv' /\ TodoInv'
  BY <1>1 DEF FrozenInv, TodoInv, SyncInv, ApplyInv
<1> QED
  BY <1>1, <1>4, <1>5, AtScan

LEMMA ApplyScan == ASSUME SyncInv, Scan, UNCHANGED confVars PROVE ApplyInv'
<1>1. /\ pc = "scan" /\ pc' = "scan" /\ at' = at + 1 /\ at <= seen
      /\ UNCHANGED <<array, count, seen, own, loaded, stale, staged, broken,
                     todo, written>>
  BY DEF Scan, Loop, diskVars, confVars
<1>2. CASE stale
  BY <1>1, <1>2, ApplyBreaks DEF SyncInv, ApplyInv
<1>3. CASE ~stale
  <2>1. Steady /\ Here = array[at] /\ seen = count
    BY <1>1, <1>3, SteadyList DEF Here, Steady, SyncInv, ApplyInv
  <2>2. /\ at \in 1..count /\ Here.app \in File /\ count \in Nat
        /\ jobs \in [Apps -> {"none", "fetch", "extract", "done"}]
        /\ index \in [Apps -> Nat]
        /\ staged \in [Apps -> {"none", "partial", "full"}]
        /\ \A a \in Apps : staged[a] = "partial" => a \in broken
        /\ \A a \in Apps : jobs[a] = "done" => a \in broken \/ staged[a] = "full"
    BY <1>1, <2>1, HereIsSite DEF SyncInv, LocalsInv, SyncTypes, ListInv
  <2> DEFINE a == array[at].app
  <2>3. /\ a = NoApp => UNCHANGED <<jobs, index>>
        /\ a # NoApp =>
             /\ index' = [index EXCEPT ![a] = at]
             /\ IF staged[a] = "none" /\ jobs[a] = "none"
                THEN jobs' = [jobs EXCEPT ![a] = "fetch"] ELSE jobs' = jobs
    BY <2>1 DEF Scan, stagingVars
  <2>4. a \in Apps \cup {NoApp}
    BY <2>1, <2>2 DEF File
  <2>5. Staging \subseteq Staging'
    BY <2>2, <2>3, <2>4 DEF Staging
  <2>6. a # NoApp => \/ a \in broken \cup Staging'
                    \/ staged[a] = "full"
    BY <2>2, <2>3, <2>4 DEF Staging
  <2>7. \A b \in Apps : /\ index'[b] # 0 => b = a \/ index[b] # 0
                        /\ index[b] # 0 => index'[b] # 0
                        /\ index'[b] \in {at, index[b]}
                        /\ index'[b] # index[b] => b = a /\ a # NoApp
                        /\ b = a => index'[b] # 0
    <3>1. CASE a = NoApp
      BY <2>3, <3>1, SitesAssumption
    <3>2. CASE a \in Apps
      <4>1. a # NoApp
        BY <3>2, SitesAssumption
      <4>2. \A b \in Apps : index'[b] = IF b = a THEN at ELSE index[b]
        BY <2>2, <2>3, <4>1
      <4>3. at # 0
        BY <2>2
      <4> QED
        BY <4>1, <4>2, <4>3
    <3> QED
      BY <2>4, <3>1, <3>2
  <2>8. ASSUME NEW b \in Apps, index'[b] # 0
        PROVE  index'[b] \in 1..count /\ array[index'[b]].app = b
    <3>1. CASE index'[b] = index[b]
      BY <1>1, <2>1, <2>8, <3>1 DEF SyncInv, ApplyInv, ScanInv
    <3>2. CASE index'[b] # index[b]
      BY <2>2, <2>7, <3>2
    <3> QED
      BY <3>1, <3>2
  <2>9. ASSUME NEW i \in 1..count, array[i].app # NoApp, i < at + 1
        PROVE  /\ index'[array[i].app] # 0
               /\ \/ array[i].app \in broken \cup Staging'
                  \/ staged[array[i].app] = "full"
    <3>1. array[i].app \in Apps
      BY <2>9 DEF SyncInv, ListInv, Sound, Site
    <3>2. CASE i = at
      BY <2>6, <2>7, <2>9, <3>1, <3>2
    <3>3. CASE i < at
      BY <1>1, <2>1, <2>5, <2>7, <2>9, <3>1, <3>3 DEF SyncInv, ApplyInv, ScanInv
    <3> QED
      BY <2>2, <2>9, <3>2, <3>3
  <2>10. ScanInv'
    BY <1>1, <2>8, <2>9 DEF ScanInv
  <2>11. FrozenInv' /\ TodoInv'
    BY <1>1, <2>1 DEF FrozenInv, TodoInv, Steady, SyncInv, ApplyInv
  <2> QED
    BY <1>1, <2>10, <2>11, AtScan
<1> QED
  BY <1>2, <1>3

(* A worker ends with the app on the disk or with a failure.               *)
LEMMA ApplyStage ==
  ASSUME SyncInv, NEW a \in Apps, Stage(a), UNCHANGED confVars
  PROVE  ApplyInv'
<1>1. /\ UNCHANGED <<array, count, seen, own, loaded, stale, pc, at, index,
                     todo, written>>
      /\ pc = "scan"
  BY DEF Stage, Fetch, FetchFails, Extract, ExtractFails, StagingFails,
         siteVars, confVars, SyncInv, LocalsInv, Staging
<1>2. CASE stale
  BY <1>1, <1>2, ApplyBreaks DEF SyncInv, ApplyInv
<1>3. CASE ~stale
  <2>1. Steady /\ Steady' /\ ScanInv
    BY <1>1, <1>3 DEF Steady, SyncInv, ApplyInv
  <2>2. /\ jobs \in [Apps -> {"none", "fetch", "extract", "done"}]
        /\ staged \in [Apps -> {"none", "partial", "full"}]
    BY DEF SyncInv, LocalsInv, SyncTypes
  <2>3. /\ broken \subseteq broken'
        /\ \A b \in Apps \ {a} : staged'[b] = staged[b] /\ jobs'[b] = jobs[b]
        /\ a \in broken' \cup Staging' \/ staged'[a] = "full"
    BY <2>2 DEF Stage, Fetch, FetchFails, Extract, ExtractFails, StagingFails,
                Staging
  <2>4. \A b \in Apps : b \in broken \cup Staging \/ staged[b] = "full" =>
                       b \in broken' \cup Staging' \/ staged'[b] = "full"
    BY <2>3 DEF Staging
  <2>5. \A i \in 1..count : array[i].app \in Apps \/ array[i].app = NoApp
    BY DEF SyncInv, ListInv, Sound, Site
  <2>6. ScanInv'
    BY <1>1, <2>1, <2>4, <2>5 DEF ScanInv
  <2>7. FrozenInv' /\ TodoInv'
    BY <1>1, <2>1 DEF FrozenInv, TodoInv, SyncInv, ApplyInv
  <2> QED
    BY <1>1, <2>6, <2>7, AtScan
<1> QED
  BY <1>2, <1>3

LEMMA ApplyStaged == ASSUME SyncInv, Staged, UNCHANGED confVars PROVE ApplyInv'
<1>1. /\ pc = "scan" /\ pc' = "apps" /\ at > seen
      /\ UNCHANGED <<array, count, seen, own, loaded, stale, staged, broken,
                     jobs, index, todo, written>>
  BY DEF Staged, LoopEnds, Goto, siteVars, diskVars, stagingVars, confVars
<1>2. CASE stale
  BY <1>1, <1>2, ApplyBreaks DEF SyncInv, ApplyInv
<1>3. CASE ~stale
  <2>1. Steady /\ ScanInv /\ seen = count
    BY <1>1, <1>3, SteadyList DEF Steady, SyncInv, ApplyInv
  <2>2. count \in Nat /\ at \in Nat /\ Staging' = Staging
    BY <1>1, <2>1 DEF SyncInv, ListInv, LocalsInv, SyncTypes, Staging
  <2>3. \A i \in 1..count : i < at
    BY <1>1, <2>1, <2>2
  <2>4. ScanInv'
    BY <1>1, <2>1, <2>2, <2>3 DEF ScanInv
  <2>5. FrozenInv' /\ TodoInv'
    BY <1>1, <2>1 DEF FrozenInv, TodoInv, Steady, SyncInv, ApplyInv
  <2> QED
    BY <1>1, <2>4, <2>5, AtScan
<1> QED
  BY <1>2, <1>3

(* The folder of an app that the list has stays, and its manifest is       *)
(* stored in its site, unless another site has the same app.               *)
LEMMA ApplySyncApps ==
  ASSUME SyncInv, SyncApps, UNCHANGED confVars
  PROVE  ApplyInv'
<1>1. /\ pc = "apps" /\ pc' = "folders" /\ at' = 1
      /\ UNCHANGED <<array, count, seen, own, stale, broken, index, expected,
                     todo, written>>
  BY DEF SyncApps, Goto, stagingVars, confVars
<1>2. CASE stale
  BY <1>1, <1>2, ApplyBreaks DEF SyncInv, ApplyInv
<1>3. CASE ~stale
  <2>1. Steady /\ seen = count /\ \A i : Slot(i) = array[i]
    BY <1>1, <1>3, SteadyList DEF Steady, SyncInv, ApplyInv
  <2>2. /\ staged \in [Apps -> {"none", "partial", "full"}]
        /\ Staging = {} /\ expected = {}
    BY <1>1 DEF SyncInv, LocalsInv, SyncTypes
  <2>3. PICK gone \in SUBSET Extraneous : Remove(gone)
    BY DEF SyncApps
  <2>4. /\ \A a \in Apps : index[a] # 0 => staged'[a] = staged[a]
        /\ \A a \in Apps : staged'[a] = "full" => staged[a] = "full"
    BY <2>2, <2>3 DEF Remove, Extraneous
  <2>5. PICK found \in HaveManifest(Expected) : ReadManifests(found)
    BY DEF SyncApps
  <2>6. /\ found \subseteq Expected
        /\ \A a \in Expected :
             staged[a] = "full" => (a \in found <=> Manifest[a] # "none")
    BY DEF HaveManifest
  <2>7. ASSUME NEW i \in 1..count, array[i].app # NoApp
        PROVE  /\ array[i].app \in Apps /\ index[array[i].app] # 0
               /\ array[i].app \in broken \/ staged[array[i].app] = "full"
               /\ array[i].object \in 1..Len(loaded)
    <3>1. array[i].app \in Apps /\ array[i].object \in 1..Len(loaded)
      BY <2>7 DEF SyncInv, ListInv, Sound, Site
    <3>2. pc \in {"scan", "apps"} /\ ScanInv /\ (pc = "scan" => i < at)
      BY <1>1 DEF SyncInv, ApplyInv
    <3> QED
      BY <2>1, <2>2, <2>7, <3>1, <3>2 DEF ScanInv
  <2>8. \A b \in found : /\ b \in Apps /\ b # NoApp /\ index[b] \in 1..count
                         /\ array[index[b]].app = b
    BY <1>1, <2>1, <2>6, SitesAssumption
    DEF Expected, SyncInv, ApplyInv, ScanInv
  <2>9. ASSUME NEW i \in 1..count, array[i].app # NoApp,
               staged'[array[i].app] = "full", Manifest[array[i].app] # "none",
               \A j \in 1..count : array[j].app = array[i].app => i = j
        PROVE  loaded'[array[i].object] = array[i].app
    <3> DEFINE a == array[i].app
               o == array[i].object
    <3>1. a \in Apps /\ index[a] # 0 /\ staged[a] = "full"
      BY <2>4, <2>7, <2>9
    <3>2. a \in found
      BY <2>6, <2>9, <3>1 DEF Expected
    <3>3. index[a] = i
      BY <2>8, <2>9, <3>2
    <3>4. \A b \in found : array[index[b]].object = o => b = a
      <4> SUFFICES ASSUME NEW b \in found, array[index[b]].object = o
                   PROVE  b = a
        OBVIOUS
      <4>1. index[b] \in 1..count /\ array[index[b]].app = b /\ b # NoApp
        BY <2>8
      <4>2. index[b] = i
        BY <2>9, <4>1 DEF SyncInv, DistinctInv
      <4> QED
        BY <4>1, <4>2
    <3>5. o \in DOMAIN loaded
      BY <2>7, <2>9, LenProperties DEF SyncInv, ListInv
    <3>6. \A b \in found : Slot(index[b]).object = o <=> b = a
      BY <2>1, <3>2, <3>3, <3>4
    <3>7. loaded'[o] = CHOOSE b \in found : Slot(index[b]).object = o
      BY <2>5, <3>2, <3>5, <3>6 DEF ReadManifests
    <3> QED
      BY <3>2, <3>6, <3>7
  <2>10. StagedInv'
    <3> SUFFICES ASSUME NEW i \in 1..count, array[i].app # NoApp
                 PROVE  /\ \/ array[i].app \in broken
                           \/ staged'[array[i].app] = "full"
                        /\ /\ staged'[array[i].app] = "full"
                           /\ Manifest[array[i].app] # "none"
                           /\ \A j \in 1..count :
                                array[j].app = array[i].app => i = j
                           => loaded'[array[i].object] = array[i].app
      BY <1>1 DEF StagedInv
    <3> QED
      BY <2>4, <2>7, <2>9
  <2>11. FoldersInv'
    <3>1. \A i \in 1..count : ~(i < 1)
      OBVIOUS
    <3> QED
      BY <1>1, <2>2, <3>1 DEF FoldersInv, Later, Settled
  <2>12. FrozenInv' /\ TodoInv'
    BY <1>1, <2>1 DEF FrozenInv, TodoInv, Steady, SyncInv, ApplyInv
  <2> QED
    BY <1>1, <2>10, <2>11, <2>12, AtFolders
<1> QED
  BY <1>2, <1>3

(* Facts that the loop over the folders needs of the list.                 *)
LEMMA SiteFacts ==
  ASSUME SyncInv
  PROVE  /\ \A i \in 1..count : array[i].domain \in Domains
         /\ \A i, j \in 1..count : array[i].domain = array[j].domain => i = j
         /\ count \in Nat /\ at \in Nat \ {0}
         /\ health \in [Domains -> {"ok", "failed", "rejected"}]
         /\ www \in [Domains -> File]
BY DEF SyncInv, ListInv, Sound, Site, DistinctInv, LocalsInv, SyncTypes, FairInv

LEMMA ApplyFolder ==
  ASSUME SyncInv, SkipSite \/ SyncFolder \/ SyncFolderFails, UNCHANGED confVars
  PROVE  ApplyInv'
<1>1. /\ pc = "folders" /\ pc' = "folders" /\ at' = at + 1 /\ at <= seen
      /\ UNCHANGED <<array, count, seen, own, loaded, stale, staged, broken,
                     scenario, todo, written>>
  BY DEF SkipSite, SyncFolder, SyncFolderFails, Loop, siteVars, diskVars,
         confVars
<1>2. CASE stale
  BY <1>1, <1>2, ApplyBreaks DEF SyncInv, ApplyInv
<1>3. CASE ~stale
  <2>1. /\ Steady /\ Here = array[at] /\ at \in 1..count
        /\ seen = count /\ FoldersInv
    BY <1>1, <1>3, SteadyList, SiteFacts DEF Here, Steady, SyncInv, ApplyInv
  <2> DEFINE d == array[at].domain
  <2>2. /\ \A i \in 1..count : i < at /\ Healthy(i)
                              => HasFolder(i) /\ array[i].domain \in expected
        /\ expected \subseteq ListedDomains
    BY <1>1, <2>1 DEF FoldersInv
  <2>3. \A i \in 1..count : i < at + 1 => i = at \/ i < at
    BY <2>1
  <2>4. \A i \in 1..count : i < at => array[i].domain # d
    BY <2>1, SiteFacts
  <2>5. ListedDomains' = ListedDomains /\ d \in ListedDomains /\ d \in Domains
    BY <1>1, <2>1, SiteFacts DEF ListedDomains
  <2>6. /\ \A i \in 1..count : i < at + 1 /\ Healthy(i)'
                              => HasFolder(i)' /\ array[i].domain \in expected'
        /\ expected' \subseteq ListedDomains
    <3>1. CASE SkipSite
      <4>1. UNCHANGED <<health, dirs, www, expected>> /\ health[d] # "ok"
        BY <2>1, <3>1 DEF SkipSite, siteVars, diskVars
      <4> QED
        BY <1>1, <2>2, <2>3, <4>1 DEF Healthy, HasFolder
    <3>2. CASE SyncFolder
      <4>1. /\ dirs' = dirs \cup {d} /\ expected' = expected \cup {d}
            /\ www' = [www EXCEPT ![d] = array[at].app] /\ health' = health
        BY <2>1, <3>2 DEF SyncFolder, siteVars
      <4>2. ASSUME NEW i \in 1..count, i < at + 1, Healthy(i)'
            PROVE  HasFolder(i)' /\ array[i].domain \in expected'
        <5>1. CASE i = at
          BY <1>1, <2>5, <4>1, <5>1, SiteFacts DEF HasFolder
        <5>2. CASE i < at
          <6>1. HasFolder(i) /\ array[i].domain \in expected /\ array[i].domain # d
            BY <1>1, <2>2, <2>4, <4>1, <4>2, <5>2 DEF Healthy
          <6> QED
            BY <1>1, <4>1, <6>1, SiteFacts DEF HasFolder
        <5> QED
          BY <2>3, <4>2, <5>1, <5>2
      <4> QED
        BY <2>2, <2>5, <4>1, <4>2
    <3>3. CASE SyncFolderFails
      <4>1. /\ dirs' = dirs \cup {d} /\ UNCHANGED <<expected, www>>
            /\ health' = [health EXCEPT ![d] = "failed"]
        BY <2>1, <3>3 DEF SyncFolderFails, SetHealth
      <4>2. \A i \in 1..count : Healthy(i)' => Healthy(i) /\ i # at
        BY <1>1, <2>5, <4>1, SiteFacts DEF Healthy
      <4>3. \A i \in 1..count : HasFolder(i) => HasFolder(i)'
        BY <1>1, <4>1 DEF HasFolder
      <4> QED
        BY <2>2, <2>3, <4>1, <4>2, <4>3
    <3> QED
      BY <3>1, <3>2, <3>3
  <2>7. FoldersInv'
    BY <1>1, <2>5, <2>6 DEF FoldersInv, Later, Settled
  <2>8. FrozenInv' /\ TodoInv'
    BY <1>1, <2>1 DEF FrozenInv, TodoInv, Steady, SyncInv, ApplyInv
  <2>9. StagedInv'
    BY <1>1, StagedKept DEF SyncInv, ApplyInv, Later, Steady, Settled
  <2> QED
    BY <1>1, <2>7, <2>8, <2>9, AtFolders
<1> QED
  BY <1>2, <1>3

LEMMA ApplyFoldersDone ==
  ASSUME SyncInv, FoldersDone, UNCHANGED confVars
  PROVE  ApplyInv'
<1>1. /\ pc = "folders" /\ pc' = "trim" /\ at > seen
      /\ UNCHANGED <<array, count, seen, own, loaded, health, stale, staged,
                     broken, dirs, www, expected, scenario, todo, written>>
  BY DEF FoldersDone, LoopEnds, Goto, siteVars, diskVars, confVars
<1>2. CASE stale
  BY <1>1, <1>2, ApplyBreaks DEF SyncInv, ApplyInv
<1>3. CASE ~stale
  <2>1. Steady /\ seen = count /\ FoldersInv
    BY <1>1, <1>3, SteadyList DEF Steady, SyncInv, ApplyInv
  <2>2. \A i \in 1..count : i < at
    BY <1>1, <2>1, SiteFacts
  <2>3. FoldersInv'
    BY <1>1, <2>1, <2>2
    DEF FoldersInv, Later, Settled, Healthy, HasFolder, ListedDomains
  <2>4. FrozenInv' /\ TodoInv'
    BY <1>1, <2>1 DEF FrozenInv, TodoInv, Steady, SyncInv, ApplyInv
  <2>5. StagedInv'
    BY <1>1, StagedKept DEF SyncInv, ApplyInv, Later, Steady, Settled, AfterApps
  <2> QED
    BY <1>1, <2>3, <2>4, <2>5, AtFolders
<1> QED
  BY <1>2, <1>3

LEMMA ApplyTrimFolders ==
  ASSUME SyncInv, TrimFolders, UNCHANGED confVars
  PROVE  ApplyInv'
<1>1. /\ pc = "trim" /\ pc' = "desired"
      /\ UNCHANGED <<array, count, seen, own, loaded, health, stale, staged,
                     broken, www, expected, scenario, todo, written>>
      /\ \/ dirs' = dirs \cap expected
         \/ "remove" \in scenario.faults /\ dirs' = dirs
  BY DEF TrimFolders, Goto, Fault, confVars
<1>2. CASE stale
  BY <1>1, <1>2, ApplyBreaks DEF SyncInv, ApplyInv
<1>3. CASE ~stale
  <2>1. Steady /\ FoldersInv
    BY <1>1, <1>3 DEF Steady, SyncInv, ApplyInv
  <2>2. /\ \A i \in 1..count : Healthy(i) => HasFolder(i)
                                          /\ array[i].domain \in expected
        /\ expected \subseteq ListedDomains
    BY <1>1, <2>1 DEF FoldersInv
  <2>3. \A i \in 1..count : Healthy(i)' => HasFolder(i)'
    BY <1>1, <2>2 DEF Healthy, HasFolder
  <2>4. \A e \in Domains \ ListedDomains :
          e \notin dirs' \/ "remove" \in scenario.faults
    BY <1>1, <2>2
  <2>5. FoldersInv'
    BY <1>1, <2>3, <2>4 DEF FoldersInv, ListedDomains
  <2>6. FrozenInv' /\ TodoInv'
    BY <1>1, <2>1 DEF FrozenInv, TodoInv, Steady, SyncInv, ApplyInv
  <2>7. StagedInv'
    BY <1>1, StagedKept DEF SyncInv, ApplyInv, Later, Steady, Settled, AfterApps
  <2>8. FilesInv'
    BY <1>1 DEF FilesInv, Settled
  <2> QED
    BY <1>1, <2>5, <2>6, <2>7, <2>8, AtFiles
<1> QED
  BY <1>2, <1>3

-----------------------------------------------------------------------------
(* The files.  A domain has one site, so the last of its healthy slots is  *)
(* that site's.                                                            *)
LEMMA ApplyDesired == ASSUME SyncInv, DesiredConfiguration PROVE ApplyInv'
<1>1. /\ pc = "desired" /\ pc' = "existing"
      /\ UNCHANGED <<array, count, seen, own, loaded, health, stale, staged,
                     broken, dirs, www, scenario, todo, written>>
  BY DEF DesiredConfiguration, Goto, siteVars, diskVars
<1>2. CASE stale
  BY <1>1, <1>2, ApplyBreaks DEF SyncInv, ApplyInv
<1>3. CASE ~stale
  <2>1. Steady /\ seen = count /\ \A i : Slot(i) = array[i]
    BY <1>1, <1>3, SteadyList DEF Steady, SyncInv, ApplyInv
  <2> DEFINE slots(d) == {i \in HealthySlots : Slot(i).domain = d}
             last(d) == CHOOSE i \in slots(d) : \A k \in slots(d) : k <= i
  <2>2. \A d \in Domains : desired'[d] =
          IF slots(d) = {} THEN Missing ELSE Render(Slot(last(d)))
    BY DEF DesiredConfiguration
  <2>3. HealthySlots = {i \in 1..count : Healthy(i)}
    BY <2>1 DEF HealthySlots, Healthy
  <2>4. ASSUME NEW i \in 1..count
        PROVE  desired'[array[i].domain] =
                 IF Healthy(i) THEN Render(array[i]) ELSE Missing
    <3> DEFINE d == array[i].domain
    <3>1. \A k \in slots(d) : k = i /\ Healthy(i)
      BY <2>1, <2>3, SiteFacts DEF Healthy
    <3>2. d \in Domains
      BY SiteFacts
    <3>3. CASE Healthy(i)
      <4>1. slots(d) = {i}
        BY <2>1, <2>3, <3>1, <3>3
      <4>2. last(d) = i
        BY <4>1
      <4> QED
        BY <2>1, <2>2, <3>2, <3>3, <4>1, <4>2
    <3>4. CASE ~Healthy(i)
      BY <2>2, <3>1, <3>2, <3>4
    <3> QED
      BY <3>3, <3>4
  <2>5. \A d \in Domains \ ListedDomains : desired'[d] = Missing
    BY <2>1, <2>2, <2>3 DEF ListedDomains
  <2>6. FilesInv'
    BY <1>1, <2>4, <2>5
    DEF FilesInv, Settled, Healthy, Render, ListedDomains
  <2>7. FrozenInv' /\ TodoInv'
    BY <1>1, <2>1 DEF FrozenInv, TodoInv, Steady, SyncInv, ApplyInv
  <2>8. StagedInv'
    BY <1>1, StagedKept DEF SyncInv, ApplyInv, Later, Steady, Settled, AfterApps
  <2>9. FoldersInv'
    BY <1>1, FoldersKept DEF SyncInv, ApplyInv, Later, Steady, Settled, AfterApps, Healthy
  <2> QED
    BY <1>1, <2>6, <2>7, <2>8, <2>9, AtFiles
<1> QED
  BY <1>2, <1>3

LEMMA ApplyExisting == ASSUME SyncInv, ExistingConfiguration PROVE ApplyInv'
<1> DEFINE kept == {Slot(i).domain : i \in HealthySlots}
<1>1. /\ pc = "existing" /\ pc' = "write"
      /\ UNCHANGED <<array, count, seen, own, loaded, health, stale, staged,
                     broken, dirs, www, scenario, desired, written>>
      /\ conf' = [d \in Domains |-> IF d \in kept THEN conf[d] ELSE Missing]
      /\ todo' = {d \in Domains : desired[d] # Missing /\ desired[d] # conf'[d]}
  BY DEF ExistingConfiguration, Goto, siteVars, diskVars
<1>2. TodoInv'
  BY <1>1 DEF TodoInv, SyncInv, FairInv
<1>3. CASE stale
  BY <1>1, <1>2, <1>3, AfterChange DEF Steady, Settled
<1>4. CASE ~stale
  <2>1. Steady /\ seen = count /\ (\A i : Slot(i) = array[i]) /\ FilesInv
    BY <1>1, <1>4, SteadyList DEF Steady, SyncInv, ApplyInv
  <2>2. kept = {array[i].domain : i \in {k \in 1..count : Healthy(k)}}
    BY <2>1 DEF HealthySlots, Healthy
  <2> HIDE DEF kept
  <2>3. ASSUME NEW i \in 1..count, Healthy(i)
        PROVE  LET d == array[i].domain IN
               /\ desired[d] = Render(array[i])
               /\ d \notin todo' => conf'[d] = desired[d]
    <3>1. desired[array[i].domain] = Render(array[i])
      BY <1>1, <2>1, <2>3 DEF FilesInv
    <3>2. Render(array[i]) # Missing
      BY RenderType, FilesAssumption DEF SyncInv, ListInv, File
    <3> QED
      BY <1>1, <3>1, <3>2, SiteFacts
  <2>4. ASSUME NEW i \in 1..count, ~Healthy(i)
        PROVE  array[i].domain \notin todo' /\ conf'[array[i].domain] = Missing
    <3>1. desired[array[i].domain] = Missing
      BY <1>1, <2>1, <2>4 DEF FilesInv
    <3>2. array[i].domain \notin kept
      BY <2>2, <2>4 DEF Healthy
    <3> QED
      BY <1>1, <3>1, <3>2, SiteFacts
  <2>5. ASSUME NEW d \in Domains \ ListedDomains
        PROVE  d \notin todo' /\ conf'[d] = Missing
    <3>1. desired[d] = Missing
      BY <1>1, <2>1 DEF FilesInv
    <3>2. d \notin kept
      BY <2>2 DEF ListedDomains
    <3> QED
      BY <1>1, <3>1, <3>2
  <2>6. written' = {}
    BY <1>1 DEF SyncInv, FairInv
  <2>7. FilesInv'
    BY <1>1, <2>3, <2>4, <2>5, <2>6
    DEF FilesInv, Settled, Healthy, Render, ListedDomains
  <2>8. FrozenInv'
    BY <1>1, <2>1 DEF FrozenInv, Steady, SyncInv, ApplyInv
  <2>9. StagedInv'
    BY <1>1, StagedKept DEF SyncInv, ApplyInv, Later, Steady, Settled, AfterApps
  <2>10. FoldersInv'
    BY <1>1, FoldersKept DEF SyncInv, ApplyInv, Later, Steady, Settled, AfterApps, Healthy
  <2> QED
    BY <1>1, <1>2, <2>7, <2>8, <2>9, <2>10, AtFiles
<1> QED
  BY <1>3, <1>4

LEMMA ApplyWrite ==
  ASSUME SyncInv, NEW d \in Domains, WriteConfig(d)
  PROVE  ApplyInv'
<1>1. /\ pc = "write" /\ pc' = "test" /\ d \in todo
      /\ UNCHANGED <<array, count, seen, own, loaded, health, stale, staged,
                     broken, dirs, www, scenario, desired>>
      /\ conf' = [conf EXCEPT ![d] = desired[d]]
      /\ todo' = todo \ {d} /\ written' = {d}
  BY DEF WriteConfig, siteVars, diskVars
<1>2. TodoInv'
  BY <1>1 DEF TodoInv
<1>3. CASE stale
  BY <1>1, <1>2, <1>3, AfterChange DEF Steady, Settled
<1>4. CASE ~stale
  <2>1. Steady /\ FilesInv /\ written = {}
    BY <1>1, <1>4 DEF Steady, SyncInv, ApplyInv, FairInv
  <2>2. conf' \in [Domains -> File \cup {Missing, Torn}]
        /\ conf'[d] = desired[d] /\ \A e \in Domains \ {d} : conf'[e] = conf[e]
    BY <1>1 DEF SyncInv, FairInv
  <2>3. ASSUME NEW i \in 1..count
        PROVE  LET e == array[i].domain IN
               IF Healthy(i)
               THEN /\ desired[e] = Render(array[i])
                    /\ e \notin todo' => conf'[e] = desired[e]
               ELSE e \notin todo' \cup written' /\ conf'[e] = Missing
    <3>1. array[i].domain \in Domains
      BY SiteFacts
    <3>2. CASE Healthy(i)
      BY <1>1, <2>1, <2>2, <3>1, <3>2 DEF FilesInv
    <3>3. CASE ~Healthy(i)
      <4>1. array[i].domain \notin todo /\ conf[array[i].domain] = Missing
        BY <1>1, <2>1, <3>3 DEF FilesInv
      <4> QED
        BY <1>1, <2>2, <3>1, <3>3, <4>1
    <3> QED
      BY <3>2, <3>3
  <2>4. \A e \in Domains \ ListedDomains :
          e \notin todo' \cup written' /\ conf'[e] = Missing
    <3>1. \A e \in Domains \ ListedDomains : e \notin todo /\ conf[e] = Missing
      BY <1>1, <2>1 DEF FilesInv
    <3> QED
      BY <1>1, <2>2, <3>1
  <2>5. FilesInv'
    BY <1>1, <2>3, <2>4 DEF FilesInv, Settled, Healthy, Render, ListedDomains
  <2>6. FrozenInv'
    BY <1>1, <2>1 DEF FrozenInv, Steady, SyncInv, ApplyInv
  <2>7. StagedInv'
    BY <1>1, StagedKept DEF SyncInv, ApplyInv, Later, Steady, Settled, AfterApps
  <2>8. FoldersInv'
    BY <1>1, FoldersKept DEF SyncInv, ApplyInv, Later, Steady, Settled, AfterApps, Healthy
  <2> QED
    BY <1>1, <1>2, <2>5, <2>6, <2>7, <2>8, AtFiles
<1> QED
  BY <1>3, <1>4

(* A site that is blamed has no file.                                      *)
LEMMA ApplyTest ==
  ASSUME SyncInv, NEW d \in Domains, Test(d)
  PROVE  ApplyInv'
<1>1. /\ pc = "test" /\ pc' = "write" /\ written = {d} /\ written' = {}
      /\ UNCHANGED <<array, count, seen, own, loaded, stale, staged,
                     broken, dirs, www, scenario, desired, todo>>
      /\ \/ UNCHANGED <<conf, health>>
         \/ conf' = [conf EXCEPT ![d] = Missing] /\ Blame(d)
  BY DEF Test, diskVars, SyncInv, FairInv
<1>2. TodoInv' /\ d \notin todo
  BY <1>1 DEF TodoInv, SyncInv, ApplyInv
<1>3. CASE stale
  BY <1>1, <1>2, <1>3, AfterChange DEF Steady, Settled
<1>4. CASE ~stale
  <2>1. /\ Steady /\ FilesInv
        /\ seen = count /\ \A i : Slot(i) = array[i]
    BY <1>1, <1>4, SteadyList DEF Steady, SyncInv, ApplyInv
  <2>2. PICK k \in 1..count : array[k].domain = d
    BY <1>1, <2>1 DEF FilesInv, ListedDomains
  <2>3. \/ UNCHANGED <<conf, health>>
        \/ /\ conf' = [conf EXCEPT ![d] = Missing]
           /\ health' = [health EXCEPT ![d] = "rejected"]
    BY <1>1, <2>1, <2>2 DEF Blame, SetHealth
  <2>4. \A i \in 1..count : Healthy(i)' => Healthy(i)
    BY <1>1, <2>3, SiteFacts DEF Healthy
  <2>5. ASSUME NEW i \in 1..count
        PROVE  LET e == array[i].domain IN
               IF Healthy(i)'
               THEN /\ desired[e] = Render(array[i])
                    /\ e \notin todo => conf'[e] = desired[e]
               ELSE e \notin todo \cup written' /\ conf'[e] = Missing
    <3>1. /\ array[i].domain \in Domains
          /\ conf \in [Domains -> File \cup {Missing, Torn}]
      BY SiteFacts DEF SyncInv, FairInv
    <3>2. IF Healthy(i)
          THEN /\ desired[array[i].domain] = Render(array[i])
               /\ array[i].domain \notin todo =>
                    conf[array[i].domain] = desired[array[i].domain]
          ELSE /\ array[i].domain \notin todo \cup written
               /\ conf[array[i].domain] = Missing
      BY <1>1, <2>1 DEF FilesInv
    <3>3. CASE UNCHANGED <<conf, health>>
      BY <1>1, <3>2, <3>3 DEF Healthy
    <3>4. CASE /\ conf' = [conf EXCEPT ![d] = Missing]
               /\ health' = [health EXCEPT ![d] = "rejected"]
      <4>1. CASE array[i].domain = d
        BY <1>1, <1>2, <3>1, <3>4, <4>1, SiteFacts DEF Healthy
      <4>2. CASE array[i].domain # d
        BY <1>1, <3>1, <3>2, <3>4, <4>2, SiteFacts DEF Healthy
      <4> QED
        BY <4>1, <4>2
    <3> QED
      BY <2>3, <3>3, <3>4
  <2>6. \A e \in Domains \ ListedDomains :
          e \notin todo \cup written' /\ conf'[e] = Missing
    <3>1. \A e \in Domains \ ListedDomains : e \notin todo /\ conf[e] = Missing
      BY <1>1, <2>1 DEF FilesInv
    <3>2. conf \in [Domains -> File \cup {Missing, Torn}]
      BY DEF SyncInv, FairInv
    <3> QED
      BY <1>1, <2>3, <3>1, <3>2
  <2>7. FilesInv'
    BY <1>1, <2>5, <2>6 DEF FilesInv, Settled, Render, ListedDomains
  <2>8. FrozenInv'
    BY <1>1, <2>1 DEF FrozenInv, Steady, SyncInv, ApplyInv
  <2>9. StagedInv'
    BY <1>1, StagedKept DEF SyncInv, ApplyInv, Later, Steady, Settled, AfterApps
  <2>10. FoldersInv'
    BY <1>1, <2>4, FoldersKept
    DEF SyncInv, ApplyInv, Later, Steady, Settled, AfterApps
  <2> QED
    BY <1>1, <1>2, <2>7, <2>8, <2>9, <2>10, AtFiles
<1> QED
  BY <1>3, <1>4

LEMMA ApplyDone == ASSUME SyncInv, ConfigurationDone PROVE ApplyInv'
<1>1. /\ pc = "write" /\ pc' = "restart" /\ todo = {}
      /\ UNCHANGED <<array, count, seen, own, loaded, health, stale, staged,
                     broken, dirs, www, scenario, conf, desired, todo, written>>
  BY DEF ConfigurationDone, Goto, siteVars, diskVars, confVars
<1>2. TodoInv'
  BY <1>1 DEF TodoInv
<1>3. CASE stale
  BY <1>1, <1>2, <1>3, AfterChange DEF Steady, Settled
<1>4. CASE ~stale
  <2>1. Steady /\ FilesInv
    BY <1>1, <1>4 DEF Steady, SyncInv, ApplyInv
  <2>2. FilesInv'
    BY <1>1, <2>1 DEF FilesInv, Settled, Steady, Healthy, Render, ListedDomains
  <2>3. FrozenInv'
    BY <1>1, <2>1 DEF FrozenInv, Steady, SyncInv, ApplyInv
  <2>4. StagedInv'
    BY <1>1, StagedKept DEF SyncInv, ApplyInv, Later, Steady, Settled, AfterApps
  <2>5. FoldersInv'
    BY <1>1, FoldersKept DEF SyncInv, ApplyInv, Later, Steady, Settled, AfterApps, Healthy
  <2> QED
    BY <1>1, <1>2, <2>2, <2>3, <2>4, <2>5, AtFiles
<1> QED
  BY <1>3, <1>4

(* The sync has ended well: nothing was left to write.                     *)
LEMMA ApplyRestart == ASSUME SyncInv, RestartServer PROVE ApplyInv'
<1>1. /\ pc = "restart" /\ pc' = "idle"
      /\ UNCHANGED <<array, count, loaded, health, stale, staged,
                     broken, dirs, www, scenario, conf, todo, written>>
  BY DEF RestartServer, Finish, diskVars
<1>2. TodoInv' /\ todo = {}
  BY <1>1 DEF TodoInv, SyncInv, ApplyInv
<1>3. CASE stale
  BY <1>1, <1>2, <1>3, AfterChange DEF Steady, Settled
<1>4. CASE ~stale
  <2>1. Steady /\ FilesInv
    BY <1>1, <1>4 DEF Steady, SyncInv, ApplyInv
  <2>2. /\ \A i \in 1..count : conf[array[i].domain] =
             IF Healthy(i) THEN Render(array[i]) ELSE Missing
        /\ \A d \in Domains \ ListedDomains : conf[d] = Missing
    BY <1>1, <1>2, <2>1 DEF FilesInv
  <2>3. FilesInv'
    BY <1>1, <2>2 DEF FilesInv, Steady, Healthy, Render, ListedDomains
  <2>4. FrozenInv'
    BY <1>1 DEF FrozenInv, Steady
  <2>5. StagedInv'
    BY <1>1, <2>1, StagedKept DEF SyncInv, ApplyInv, Later, Steady, AfterApps
  <2>6. FoldersInv'
    BY <1>1, <2>1, FoldersKept DEF SyncInv, ApplyInv, Later, Steady, AfterApps, Healthy
  <2> QED
    BY <1>1, <1>2, <2>3, <2>4, <2>5, <2>6, AtFiles
<1> QED
  BY <1>3, <1>4

LEMMA ApplySyncState ==
  ASSUME SyncInv, SyncState, UNCHANGED confVars
  PROVE  ApplyInv'
<1>1. CASE Begin
  BY <1>1, ApplyBegin
<1>2. CASE BeginFails \/ SyncAppsFails \/ TrimFails
  <2>1. pc # "test" /\ pc' = "idle" /\ outcome' = "error"
    BY <1>2 DEF BeginFails, SyncAppsFails, TrimFails, Finish
  <2>2. written' = {}
    BY <2>1 DEF SyncInv, FairInv, confVars
  <2> QED
    BY <2>1, <2>2, ApplyBreaks DEF SyncInv, ApplyInv
<1>3. CASE Scan
  BY <1>3, ApplyScan
<1>4. CASE Staged
  BY <1>4, ApplyStaged
<1>5. CASE SyncApps
  BY <1>5, ApplySyncApps
<1>6. CASE SkipSite \/ SyncFolder \/ SyncFolderFails
  BY <1>6, ApplyFolder
<1>7. CASE FoldersDone
  BY <1>7, ApplyFoldersDone
<1>8. CASE TrimFolders
  BY <1>8, ApplyTrimFolders
<1> QED
  BY <1>1, <1>2, <1>3, <1>4, <1>5, <1>6, <1>7, <1>8 DEF SyncState

LEMMA ApplySyncConfiguration ==
  ASSUME SyncInv, SyncConfiguration
  PROVE  ApplyInv'
<1>1. ASSUME Abort PROVE ApplyInv'
  BY <1>1, ApplyBreaks DEF Abort, Finish, SyncInv, ApplyInv
<1>2. CASE DesiredFails \/ ExistingFails \/ RestartFails
  BY <1>1, <1>2 DEF DesiredFails, ExistingFails, RestartFails
<1>3. ASSUME NEW d \in Domains, WriteFails(d) \/ TestFails(d) PROVE ApplyInv'
  BY <1>1, <1>3 DEF WriteFails, TestFails
<1> QED
  BY <1>2, <1>3, ApplyDesired, ApplyExisting, ApplyWrite, ApplyTest, ApplyDone,
     ApplyRestart
  DEF SyncConfiguration

LEMMA ApplyRequests == ASSUME SyncInv, Requests PROVE ApplyInv'
<1>1. /\ UNCHANGED <<pc, at, outcome, staged, dirs, www, jobs, index, expected,
                     broken, conf, desired, todo, written, health, scenario>>
  BY DEF Requests, Change, Resync, AddSite, UpdateSite, DeleteSite, Request,
         appVars, confVars, resultVars, diskVars, stagingVars
<1>2. CASE Resync
  <2>1. UNCHANGED <<array, count, seen, own, loaded, stale>>
    BY <1>2 DEF Resync
  <2> QED
    BY <1>1, <2>1, ApplyFrame DEF SyncInv
<1>3. CASE ~Resync
  <2>1. stale'
    BY <1>3 DEF Requests, Change, AddSite, UpdateSite, DeleteSite
  <2> QED
    BY <1>1, <2>1, ApplyBreaks DEF SyncInv, ApplyInv
<1> QED
  BY <1>2, <1>3

LEMMA SyncInit == Init => SyncInv
<1> SUFFICES ASSUME Init PROVE SyncInv
  OBVIOUS
<1>1. pc = "idle" /\ outcome = "none" /\ todo = {} /\ written = {}
  BY DEF Init, AppInit, NginxInit
<1>2. ~Steady /\ ~Settled
  BY <1>1 DEF Steady, Settled
<1>3. ApplyInv
  BY <1>1, <1>2 DEF ApplyInv, FrozenInv, ScanInv, StagedInv, FoldersInv, TodoInv,
                    FilesInv, Steady, Later
<1> QED
  BY <1>3, ListInit, FairInit, DistinctInit, LocalsInit DEF SyncInv

LEMMA SyncNext == SyncInv /\ [Next]_vars => SyncInv'
<1> SUFFICES ASSUME SyncInv, [Next]_vars PROVE SyncInv'
  OBVIOUS
<1>1. ListInv' /\ FairInv' /\ DistinctInv' /\ LocalsInv'
  BY ListNext, FairNext, DistinctNext, LocalsNext DEF SyncInv
<1>2. ApplyInv'
  <2>1. CASE Requests
    BY <2>1, ApplyRequests
  <2>2. CASE Crash \/ Panic \/ Exit
    <3>1. pc' = "idle" /\ outcome' = "none" /\ written' = {}
      BY <2>2 DEF Crash, Panic, Exit, Ends
    <3> QED
      BY <3>1, ApplyBreaks DEF SyncInv, ApplyInv
  <2>3. CASE SyncState /\ UNCHANGED confVars
    BY <2>3, ApplySyncState
  <2>4. ASSUME NEW a \in Apps, Stage(a), UNCHANGED confVars PROVE ApplyInv'
    BY <2>4, ApplyStage
  <2>5. CASE SyncConfiguration
    BY <2>5, ApplySyncConfiguration
  <2>6. CASE UNCHANGED vars
    BY <2>6, ApplyFrame DEF vars, siteVars, appVars, confVars, resultVars,
                            diskVars, stagingVars, SyncInv
  <2> QED
    BY <2>1, <2>2, <2>3, <2>4, <2>5, <2>6 DEF Next
<1> QED
  BY <1>1, <1>2 DEF SyncInv

LEMMA SyncInvAlways == Spec => []SyncInv
  BY SyncInit, SyncNext, PTL DEF Spec

(* Whatever has failed, crashed or changed before: when a sync has ended   *)
(* without an error, and the sites are those it began with, the disk has   *)
(* the files, folders and links of the healthy sites, and no others.       *)
THEOREM DiskMatchesAlways == Spec => []DiskMatches
<1>1. SyncInv => DiskMatches
  <2> SUFFICES ASSUME SyncInv, Settled PROVE DiskMatches
    BY DEF DiskMatches
  <2>1. /\ \A i \in 1..count : conf[array[i].domain] =
             IF Healthy(i) THEN Render(array[i]) ELSE Missing
        /\ \A d \in Domains \ ListedDomains : conf[d] = Missing
    BY DEF SyncInv, ApplyInv, FilesInv
  <2>2. /\ \A i \in 1..count : Healthy(i) => HasFolder(i)
        /\ \A d \in Domains \ ListedDomains :
             d \notin dirs \/ "remove" \in scenario.faults
    BY DEF SyncInv, ApplyInv, FoldersInv, Later
  <2>3. ASSUME NEW s \in Listed
        PROVE  \/ /\ health[s.domain] = "ok"
                  /\ conf[s.domain] = Render(s)
                  /\ s.domain \in dirs /\ www[s.domain] = s.app
               \/ /\ health[s.domain] # "ok"
                  /\ conf[s.domain] = Missing
    <3>1. PICK i \in 1..count : s = array[i]
      BY DEF Listed
    <3> QED
      BY <2>1, <2>2, <3>1 DEF Healthy, HasFolder
  <2>4. ASSUME NEW d \in Domains, \A s \in Listed : s.domain # d
        PROVE  d \in Domains \ ListedDomains
    BY <2>4 DEF Listed, ListedDomains
  <2> QED
    BY <2>1, <2>2, <2>3, <2>4 DEF DiskMatches
<1> QED
  BY <1>1, SyncInvAlways, PTL

(* After such a sync the app of a healthy site is on the disk, complete,   *)
(* unless its staging has failed once.                                     *)
THEOREM AppsCompleteAlways == Spec => []AppsComplete
<1>1. SyncInv => AppsComplete
  <2> SUFFICES ASSUME SyncInv, Settled, NEW s \in Listed,
                      s.app \in Apps \ broken
               PROVE  staged[s.app] = "full"
    BY DEF AppsComplete
  <2>1. PICK i \in 1..count : s = array[i]
    BY DEF Listed
  <2>2. array[i].app # NoApp
    BY <2>1, SitesAssumption
  <2> QED
    BY <2>1, <2>2 DEF SyncInv, ApplyInv, StagedInv, Later
<1> QED
  BY <1>1, SyncInvAlways, PTL

(* A healthy site has the rules of its app's manifest after such a sync,   *)
(* unless it shares the app with another one.                              *)
THEOREM RulesAppliedAlways == Spec => []RulesApplied
<1>1. SyncInv => RulesApplied
  <2> SUFFICES ASSUME SyncInv, Settled, NEW s \in Listed,
                      s.app # NoApp, health[s.domain] = "ok",
                      staged[s.app] = "full", Manifest[s.app] # "none",
                      \A t \in Listed : t.app = s.app => t = s
               PROVE  conf[s.domain] = s.app
    BY DEF RulesApplied
  <2>1. PICK i \in 1..count : s = array[i]
    BY DEF Listed
  <2>2. ASSUME NEW j \in 1..count, array[j].app = array[i].app PROVE i = j
    <3>1. array[j] = s
      BY <2>1, <2>2 DEF Listed
    <3> QED
      BY <2>1, <3>1 DEF SyncInv, DistinctInv
  <2>3. loaded[s.object] = s.app
    BY <2>1, <2>2 DEF SyncInv, ApplyInv, StagedInv, Later
  <2>4. conf[s.domain] = Render(s)
    BY <2>1 DEF SyncInv, ApplyInv, FilesInv, Healthy
  <2> QED
    BY <2>3, <2>4 DEF Render
<1> QED
  BY <1>1, SyncInvAlways, PTL

=============================================================================
