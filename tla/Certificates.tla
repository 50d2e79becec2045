---------------------------- MODULE Certificates ----------------------------
(***************************************************************************)
(* How a node that runs alone gets its TLS certificates and renews them.   *)
(*                                                                         *)
(* A synchronization asks for the certificate of each name                 *)
(* (src/certificates): of the node itself, then of every site; when there  *)
(* is no self-signed one it adds a job and waits for it, with the          *)
(* semaphore of the syncs.  Two monitors (src/worker/cert-monitor.go and   *)
(* node-cert-monitor.go) look at the certificates on the disk, add jobs    *)
(* for those that expire and ask for a sync.  The jobs (processor.go) put  *)
(* certificates in the secrets of the state.                               *)
(***************************************************************************)
EXTENDS JobsFile, FiniteSets, FiniteSetsExt

CONSTANTS
  Node,       (* the name of the node; the other names are sites           *)
  Absent,     (* no certificate                                            *)
  Nobody,
  Fresh,      (* the days a new certificate is valid                       *)
  SelfSignedMinDays, ACMEMinDays,
  Checks,     (* certMonitorChecks, in ascending order                     *)
  Scenarios   (* a set of the records below                                *)

(* The names and the types of their certificates when the process starts,  *)
(* the days left of the certificates that are in the state and on the      *)
(* disk; the requests that may come and their number; the days that pass;  *)
(* whether the tickers of the monitors tick; what may fail, how often.     *)
Fields == {"names", "tls", "left", "requests", "changes", "days", "ticks",
           "faults", "maxFaults"}

ASSUME DaysAssumption ==
  /\ {Fresh, SelfSignedMinDays, ACMEMinDays} \subseteq Nat \ {0}
  /\ Checks \in Seq(Nat)
ASSUME ScenariosAssumption ==
  /\ Absent \notin Nat
  /\ \A s \in Scenarios : /\ DOMAIN s = Fields /\ s.names \subseteq Names
                           /\ s.tls[Node] # "imported"

Types    == {"selfsigned", "acme", "imported"}
Monitors == {"cert", "node"}

VARIABLES
  tls,        (* site.TLS.Type; of the node: its configuration             *)
  secret,     (* state.Secrets: the days left of each certificate          *)
  disk,       (* the files of each name: a type and the days left          *)
  sync,       (* the sync, which has the semaphore unless it is idle       *)
  isWaiting,  (* who waits in QueueRun for the semaphore                   *)
  booted,     (* StartupComplete                                           *)
  refresh,    (* RefreshCerts, a channel of capacity 1                     *)
  monitor,    (* what each monitor does                                    *)
  sent,       (* certMonitorNotifications                                  *)
  scenario, changes, days, faults

certVars == <<tls, secret, disk, sync, isWaiting, booted, refresh, monitor,
              sent, scenario, changes, days, faults>>
vars == <<jobVars, certVars>>

Days  == 0..Fresh
Sites == scenario.names \ {Node}
Idle == [pc |-> "idle", name |-> Nobody, cert |-> Absent, todo |-> {},
         skipped |-> {}]

TypeOK ==
  /\ JobsTypeOK
  /\ tls \in [Names -> Types]
  /\ secret \in [Types -> [Names -> Days \cup {Absent}]]
  /\ disk \in [Names ->
                 [type : Types, left : Days] \cup {Absent}]
  /\ sync.pc \in {"idle", "next", "selfsigned", "acme", "imported", "job",
                  "write", "end"}
  /\ sync.todo \subseteq scenario.names
  /\ sync.skipped \subseteq Sites
  /\ isWaiting \in Monitors \cup {"handler", Nobody}
  /\ booted \in BOOLEAN /\ refresh \in BOOLEAN
  /\ \A m \in Monitors :
       /\ monitor[m].pc \in {"start", "asleep", "wait", "check", "job",
                             "queue", "queued"}
       /\ monitor[m].todo \subseteq scenario.names
       /\ monitor[m].needsSync \in BOOLEAN
  /\ sent \in [Names -> 1..Len(Checks) + 1]

Boot ==
  /\ sync = Idle /\ isWaiting = Nobody /\ booted = FALSE /\ refresh = FALSE
  /\ monitor = [m \in Monitors |->
                  [pc |-> "start", todo |-> {}, needsSync |-> FALSE]]
  /\ sent = [n \in Names |-> Len(Checks) + 1]

(* What an earlier process has left.                                       *)
Init ==
  /\ scenario \in Scenarios
  /\ JobsInit /\ Boot
  /\ tls = scenario.tls
  /\ secret = [t \in Types |-> [n \in Names |->
                 IF t = tls[n] /\ n \in scenario.names
                 THEN scenario.left ELSE Absent]]
  /\ disk = [n \in Names |->
               IF scenario.left = Absent \/ n \notin scenario.names THEN Absent
               ELSE [type |-> tls[n], left |-> scenario.left]]
  /\ changes = 0 /\ days = 0 /\ faults = 0

Fault(kind) ==
  /\ kind \in scenario.faults
  /\ faults < scenario.maxFaults
  /\ faults' = faults + 1

-----------------------------------------------------------------------------
(* The sync: SyncMiscFiles and SyncSiteFolders, as far as they get         *)
(* certificates.                                                           *)

syncOnly == <<tls, secret, monitor, sent, scenario, changes, days, faults>>

(* Run, the first time, or QueueRun, whose caller goes on.                 *)
SyncStarts ==
  /\ sync.pc = "idle"
  /\ ~booted \/ isWaiting # Nobody
  /\ sync' = [Idle EXCEPT !.pc = "next", !.todo = scenario.names]
  /\ IF booted THEN isWaiting' = Nobody ELSE UNCHANGED isWaiting
  /\ monitor' = [m \in Monitors |->
                   IF booted /\ isWaiting = m
                   THEN [monitor[m] EXCEPT !.pc = "asleep"] ELSE monitor[m]]
  /\ UNCHANGED <<jobVars, tls, secret, disk, booted, refresh, sent, scenario,
                 changes, days, faults>>

(* GetCertificate, for the node before the sites.                          *)
GetCertificate(n) ==
  /\ sync.pc = "next"
  /\ n \in sync.todo /\ (Node \in sync.todo => n = Node)
  /\ sync' = [sync EXCEPT !.pc = tls[n], !.name = n, !.todo = @ \ {n}]
  /\ UNCHANGED <<jobVars, disk, isWaiting, booted, refresh, syncOnly>>

Use(t) ==
  sync' = [sync EXCEPT !.pc = "write",
             !.cert = [type |-> t, left |-> secret[t][sync.name]]]

(* Mutant: without a certificate, nobody is told to request one.           *)
GetACME_NotRequested ==
  /\ sync.pc = "acme"
  /\ IF secret["acme"][sync.name] = Absent
     THEN sync' = [sync EXCEPT !.pc = "selfsigned"]
     ELSE Use("acme")
  /\ UNCHANGED <<jobVars, disk, isWaiting, booted, refresh, syncOnly>>

(* The certificate of the provider is used also when it has expired; the   *)
(* monitor is triggered then, and when there is none yet, in which case a  *)
(* self-signed one is used.                                                *)
GetACME ==
  /\ sync.pc = "acme"
  /\ IF secret["acme"][sync.name] = Absent
     THEN refresh' = TRUE /\ sync' = [sync EXCEPT !.pc = "selfsigned"]
     ELSE /\ refresh' = (refresh \/ secret["acme"][sync.name] = 0)
          /\ Use("acme")
  /\ UNCHANGED <<jobVars, disk, isWaiting, booted, syncOnly>>

GetSelfSigned ==
  /\ sync.pc = "selfsigned"
  /\ secret["selfsigned"][sync.name] \notin {Absent, 0}
  /\ Use("selfsigned")
  /\ UNCHANGED <<jobVars, disk, isWaiting, booted, refresh, syncOnly>>

(* There is none, or it has expired: a job is added and waited for.        *)
RequestSelfSigned ==
  /\ sync.pc = "selfsigned"
  /\ secret["selfsigned"][sync.name] \in {Absent, 0}
  /\ AddJob("sync", [type |-> "tlscert", data |-> sync.name])
  /\ sync' = [sync EXCEPT !.pc = "job"]
  /\ UNCHANGED <<disk, isWaiting, booted, refresh, syncOnly>>

(* The job is done: goto requestcert.                                      *)
SelfSignedDone ==
  /\ sync.pc = "job" /\ call["sync"] = Out
  /\ sync' = [sync EXCEPT !.pc = "selfsigned"]
  /\ UNCHANGED <<jobVars, disk, isWaiting, booted, refresh, syncOnly>>

(* Without the certificate the site has an error, and the sync goes on     *)
(* before it has noted that the site's folder is expected.                 *)
GetImported ==
  /\ sync.pc = "imported"
  /\ IF secret["imported"][sync.name] = Absent
     THEN sync' = [sync EXCEPT !.pc = "next", !.skipped = @ \cup {sync.name}]
     ELSE Use("imported")
  /\ UNCHANGED <<jobVars, disk, isWaiting, booted, refresh, syncOnly>>

WriteFiles ==
  /\ sync.pc = "write"
  /\ disk' = [disk EXCEPT ![sync.name] = sync.cert]
  /\ sync' = [sync EXCEPT !.pc = "next", !.name = Nobody, !.cert = Absent]
  /\ UNCHANGED <<jobVars, isWaiting, booted, refresh, syncOnly>>

(* The folders that are not expected are removed, with the certificates.   *)
RemoveFolders ==
  /\ sync.pc = "next" /\ sync.todo = {}
  /\ disk' = [n \in Names |-> IF n \in sync.skipped THEN Absent ELSE disk[n]]
  /\ sync' = [sync EXCEPT !.pc = "end"]
  /\ UNCHANGED <<jobVars, isWaiting, booted, refresh, syncOnly>>

SyncEnds ==
  /\ sync.pc = "end"
  /\ sync' = Idle
  /\ booted' = TRUE
  /\ UNCHANGED <<jobVars, disk, isWaiting, refresh, syncOnly>>

Sync ==
  \/ SyncStarts \/ \E n \in scenario.names : GetCertificate(n)
  \/ GetACME \/ GetSelfSigned \/ RequestSelfSigned \/ SelfSignedDone
  \/ GetImported \/ WriteFiles \/ RemoveFolders \/ SyncEnds
=============================================================================
