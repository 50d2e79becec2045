---------------------------- MODULE CertMonitors ----------------------------
(***************************************************************************)
(* The composition of a sync that gets certificates (Certificates), of the *)
(* jobs it and the monitors add (JobsFile, and processCertJobs of          *)
(* src/worker/processor.go), of the two monitors (src/worker) and of       *)
(* requests that change the state; days pass, and the process may end.     *)
(***************************************************************************)
EXTENDS Certificates

-----------------------------------------------------------------------------
(* The jobs *)

jobsOnly == <<tls, disk, sync, isWaiting, booted, refresh, monitor, sent,
              scenario, changes, days, faults>>

Store(t, n, left) == secret' = [secret EXCEPT ![t][n] = left]

(* A self-signed certificate is generated and stored.                      *)
GenerateTLSCert(n) ==
  /\ worker[n].job.type = "tlscert"
  /\ Goes(n, "process", "complete")
  /\ Store("selfsigned", worker[n].job.data, Fresh)
  /\ UNCHANGED <<channels, closed, call, doubled, jobsOnly>>

(* A certificate is obtained from the ACME provider and stored; then the   *)
(* self-signed one is removed.                                             *)
GenerateACMECertificate(n) ==
  /\ worker[n].job.type = "acme"
  /\ Goes(n, "process", "remove")
  /\ Store("acme", worker[n].job.data, Fresh)
  /\ UNCHANGED <<channels, closed, call, doubled, jobsOnly>>

RemoveSelfSigned(n) ==
  /\ Goes(n, "remove", "complete")
  /\ Store("selfsigned", worker[n].job.data, Absent)
  /\ UNCHANGED <<channels, closed, call, doubled, jobsOnly>>

ProcessFails(n) ==
  /\ Fault("job")
  /\ JobFails(n)
  /\ UNCHANGED <<tls, secret, disk, sync, isWaiting, booted, refresh, monitor,
                 sent, scenario, changes, days>>

Work(n) ==
  \/ GenerateTLSCert(n) \/ GenerateACMECertificate(n) \/ RemoveSelfSigned(n)
  \/ (CompleteJob(n) \/ CloseChannel(n)) /\ UNCHANGED certVars

Client(c) == (WaitForJob(c) \/ Answered(c)) /\ UNCHANGED certVars

-----------------------------------------------------------------------------
(* The monitors *)

monitorOnly == <<tls, secret, disk, sync, booted, scenario, changes, days,
                 faults>>

Moves(m, from, to) ==
  monitor[m].pc = from /\ monitor' = [monitor EXCEPT ![m].pc = to]

(* waitForStartup; the monitor of the sites triggers itself, the one of    *)
(* the node runs, if the node has a certificate.                           *)
Start(m) ==
  /\ booted
  /\ \/ /\ m = "cert"
        /\ Moves(m, "start", "asleep")
        /\ refresh' = TRUE
     \/ /\ m = "node" /\ Node \in scenario.names
        /\ monitor[m].pc = "start"
        /\ monitor' = [monitor EXCEPT ![m].pc = "check", ![m].todo = {Node}]
        /\ UNCHANGED refresh
  /\ UNCHANGED <<jobVars, isWaiting, sent, monitorOnly>>

Runs(m) ==
  /\ monitor[m].pc = "asleep"
  /\ monitor' = [monitor EXCEPT ![m].pc = IF m = "cert" THEN "wait" ELSE "check",
                   ![m].todo = IF m = "cert" THEN Sites ELSE {Node},
                   ![m].needsSync = FALSE]
  /\ UNCHANGED <<jobVars, isWaiting, sent, monitorOnly>>

Tick(m) == scenario.ticks /\ Runs(m) /\ UNCHANGED refresh

Refreshed == refresh /\ Runs("cert") /\ refresh' = FALSE

(* "If there's a sync running, wait for it to be done".                    *)
NoSync ==
  /\ sync.pc = "idle"
  /\ Moves("cert", "wait", "check")
  /\ UNCHANGED <<jobVars, isWaiting, refresh, sent, monitorOnly>>

(* Mutant: a certificate is renewed only while it is valid.                *)
Expires_TooLate(n) ==
  /\ disk[n] # Absent
  /\ \/ tls[n] = "selfsigned" /\ disk[n].left < 0
     \/ tls[n] = "acme" /\ disk[n].type = "selfsigned"

(* The certificate on the disk is to be renewed, or it stands in for one   *)
(* of the ACME provider.                                                   *)
Expires(n) ==
  /\ disk[n] # Absent
  /\ \/ tls[n] = "selfsigned" /\ disk[n].left < SelfSignedMinDays
     \/ /\ tls[n] = "acme"
        /\ disk[n].left < ACMEMinDays \/ disk[n].type = "selfsigned"

Renew(m, n) ==
  /\ monitor[m].pc = "check" /\ n \in monitor[m].todo
  /\ Expires(n)
  /\ AddJob(m, [type |-> IF tls[n] = "acme" THEN "acme" ELSE "tlscert",
                data |-> n])
  /\ monitor' = [monitor EXCEPT ![m].pc = "job", ![m].todo = @ \ {n}]
  /\ UNCHANGED <<isWaiting, refresh, sent, monitorOnly>>

Renewed(m) ==
  /\ monitor[m].pc = "job" /\ call[m] = Out
  /\ monitor' = [monitor EXCEPT ![m].pc = "check", ![m].needsSync = TRUE]
  /\ UNCHANGED <<jobVars, isWaiting, refresh, sent, monitorOnly>>

(* Mutant: a check is passed a day late.                                   *)
Due_Late(n) ==
  {i \in DOMAIN Checks : disk[n].left < Checks[i] - 1 /\ i < sent[n]}

(* The checks that the days left have passed and that were not announced.  *)
Due(n) ==
  {i \in DOMAIN Checks : disk[n].left < Checks[i] /\ i < sent[n]}

(* Nothing to renew; of an imported certificate the admins are told.       *)
Look(m, n) ==
  /\ monitor[m].pc = "check" /\ n \in monitor[m].todo
  /\ ~Expires(n)
  /\ sent' = IF disk[n] # Absent /\ tls[n] = "imported" /\ Due(n) # {}
             THEN [sent EXCEPT ![n] = Min(Due(n))] ELSE sent
  /\ monitor' = [monitor EXCEPT ![m].todo = @ \ {n}]
  /\ UNCHANGED <<jobVars, isWaiting, refresh, monitorOnly>>

Looked(m) ==
  /\ monitor[m].todo = {}
  /\ Moves(m, "check", IF monitor[m].needsSync THEN "queue" ELSE "asleep")
  /\ UNCHANGED <<jobVars, isWaiting, refresh, sent, monitorOnly>>

(* QueueRun: the monitor waits for the semaphore unless another one does.  *)
QueueRun(m) ==
  /\ IF isWaiting # Nobody
     THEN Moves(m, "queue", "asleep") /\ UNCHANGED isWaiting
     ELSE Moves(m, "queue", "queued") /\ isWaiting' = m
  /\ UNCHANGED <<jobVars, refresh, sent, monitorOnly>>

Monitor(m) ==
  \/ Start(m) \/ Renewed(m) \/ Looked(m) \/ QueueRun(m)
  \/ \E n \in scenario.names : Renew(m, n) \/ Look(m, n)

-----------------------------------------------------------------------------
(* Requests, time, and the end of the process *)

(* A request that changes the state and queues a sync.                     *)
Request(kind) ==
  /\ booted
  /\ kind \in scenario.requests
  /\ changes < scenario.changes
  /\ changes' = changes + 1
  /\ isWaiting' = IF isWaiting = Nobody THEN "handler" ELSE isWaiting
  /\ UNCHANGED <<jobVars, disk, sync, booted, refresh, monitor, sent,
                 scenario, days, faults>>

(* PatchSiteHandler, of a site's certificate.                              *)
PatchSite(n, t) ==
  /\ Request(t)
  /\ tls[n] # t
  /\ t = "imported" => secret["imported"][n] # Absent
  /\ tls' = [tls EXCEPT ![n] = t]
  /\ UNCHANGED secret

ImportCertificate(n) ==
  /\ Request("import")
  /\ Store("imported", n, Fresh)
  /\ UNCHANGED tls

(* PutStateHandler, with the same sites and no secrets.                    *)
ReplaceState ==
  /\ Request("replace")
  /\ secret' = [t \in Types |-> [n \in Names |-> Absent]]
  /\ UNCHANGED tls

Change ==
  \/ ReplaceState
  \/ \E n \in Sites : ImportCertificate(n) \/ \E t \in Types : PatchSite(n, t)

NextDay(left) == IF left \in {Absent, 0} THEN left ELSE left - 1

DayPasses ==
  /\ days < scenario.days
  /\ days' = days + 1
  /\ secret' = [t \in Types |->
                  [n \in Names |-> NextDay(secret[t][n])]]
  /\ disk' = [n \in Names |->
                IF disk[n] = Absent THEN Absent
                ELSE [disk[n] EXCEPT !.left = NextDay(@)]]
  /\ sync' = [sync EXCEPT !.cert =
                IF @ = Absent THEN @ ELSE [@ EXCEPT !.left = NextDay(@)]]
  /\ UNCHANGED <<jobVars, tls, isWaiting, booted, refresh, monitor, sent,
                 scenario, changes, faults>>

(* The state is in its file, the certificates on the disk.                 *)
Restart ==
  /\ channels' = [j \in Jobs |-> 0] /\ worker' = <<>> /\ closed' = {}
  /\ call' = [c \in Clients |-> Out] /\ doubled' = FALSE
  /\ sync' = Idle /\ isWaiting' = Nobody /\ booted' = FALSE /\ refresh' = FALSE
  /\ monitor' = [m \in Monitors |->
                   [pc |-> "start", todo |-> {}, needsSync |-> FALSE]]
  /\ sent' = [n \in Names |-> Len(Checks) + 1]
  /\ UNCHANGED <<tls, secret, disk, scenario, changes, days>>

Crash == Fault("crash") /\ Restart

Panic == (\E n \in DOMAIN worker : ClosesTwice(n)) /\ Restart /\ UNCHANGED faults

Next ==
  \/ Sync
  \/ \E n \in DOMAIN worker : Work(n) \/ ProcessFails(n)
  \/ \E c \in Clients : Client(c)
  \/ \E m \in Monitors : Monitor(m) \/ Tick(m)
  \/ Refreshed \/ NoSync
  \/ Change \/ DayPasses \/ Crash \/ Panic

(* Goroutines go on and timers tick.  NoSync polls the semaphore: it needs *)
(* no sync to begin in the moments it looks.                               *)
Fairness ==
  /\ WF_vars(Sync) /\ WF_vars(Refreshed) /\ SF_vars(NoSync)
  /\ \A n \in 1..MaxCalls : WF_vars(n \in DOMAIN worker /\ Work(n))
  /\ \A c \in Clients : WF_vars(Client(c))
  /\ \A m \in Monitors : WF_vars(Monitor(m)) /\ SF_vars(Tick(m))

Spec == Init /\ [][Next]_vars
FairSpec == Spec /\ Fairness

-----------------------------------------------------------------------------
(* Properties *)

Failed == \E n \in DOMAIN worker : worker[n].pc = "failed"

(* As long as no job is added while it is under way, and none fails, who   *)
(* waits for a job is going to be answered, and no channel is closed twice:*)
(* also when one monitor, the other one and a sync use the map at once.    *)
JobsAreAnswered ==
  ~doubled /\ ~Failed =>
    /\ \A c \in Clients : IsServed(c)
    /\ \A n \in DOMAIN worker : ~ClosesTwice(n)

(* A site that has asked for a certificate from the ACME provider gets it  *)
(* on the disk, also without the daily tick: the sync that finds none      *)
(* triggers the monitor, which waits for that sync and sees what it wrote. *)
AcmeServed ==
  \A n \in Names :
    Node # n /\ tls[n] = "acme" /\ n \in scenario.names
    ~> \/ tls[n] # "acme" \/ doubled \/ Failed
       \/ disk[n] # Absent /\ disk[n].type = "acme"

(* A certificate the node makes or requests does not stay expired on the   *)
(* disk, as long as its jobs are answered.                                 *)
ExpiredIsRenewed ==
  \A n \in Names :
    /\ tls[n] # "imported"
    /\ disk[n] # Absent /\ disk[n].left = 0
    ~> \/ doubled \/ Failed \/ tls[n] = "imported"
       \/ disk[n] # Absent /\ disk[n].left > 0

(* When an imported certificate of a site has expired, the admins are told *)
(* that it has (the first of the checks), or it is replaced, or removed    *)
(* with the site's folder because the state has lost it: also when the     *)
(* process has ended after an announcement.  Of the certificate that       *)
(* replaces one that was announced nothing is promised, since the index of *)
(* the last announcement stays (cert-monitor.go:182).                      *)
ExpiryAnnounced ==
  \A n \in Names :
    /\ Node # n /\ tls[n] = "imported"
    /\ disk[n] # Absent /\ disk[n].left = 0
    ~> \/ sent[n] = 1 \/ tls[n] # "imported"
       \/ IF disk[n] = Absent THEN secret["imported"][n] = Absent
                              ELSE disk[n].left > 0

(* "WaitForJob waits until the job with the specified ID is done"          *)
(* (controller-file.go:93): nobody waits for a job when no goroutine is    *)
(* left that processes it.                                                 *)
WaitersHaveJob == \A c \in Clients : IsServed(c)
=============================================================================
