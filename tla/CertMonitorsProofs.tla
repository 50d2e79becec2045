------------------------- MODULE CertMonitorsProofs -------------------------
(***************************************************************************)
(* Proofs about CertMonitors, for any names, calls, days, checks and       *)
(* scenarios.                                                              *)
(*                                                                         *)
(* As long as no job is added twice or fails, the map of the controller    *)
(* has the channel of exactly the jobs that are under way, each is closed  *)
(* by its own goroutine, and it is closed once the job is done (JobsInv).  *)
(***************************************************************************)
EXTENDS CertMonitors, SequenceTheorems, TLAPS

Works == [job : Jobs, held : Nat,
          pc : {"process", "remove", "complete", "close", "done", "failed"}]

(* What the sync adds jobs for.                                            *)
SyncTypes ==
  /\ sync = [pc |-> sync.pc, name |-> sync.name, cert |-> sync.cert,
             todo |-> sync.todo, skipped |-> sync.skipped]
  /\ sync.pc \notin {"idle", "next", "end"} => sync.name \in Names
  /\ scenario \in Scenarios

JobTypes ==
  /\ worker \in Seq(Works)
  /\ \A n \in DOMAIN worker : worker[n].held <= Len(worker)
  /\ channels \in [Jobs -> 0..Len(worker)]
  /\ closed \subseteq DOMAIN worker
  /\ doubled \in BOOLEAN
  /\ DOMAIN call = Clients
  /\ \A c \in Clients :
       /\ call[c].pc = "added" => call[c].job \in Jobs
       /\ call[c].pc = "waiting" => call[c].on \in DOMAIN worker

(* A goroutine that processes a job, until it is done, has the job's       *)
(* channel, which is its own.                                              *)
JobsInv ==
  ~doubled /\ ~Failed =>
    \A n \in DOMAIN worker :
      /\ worker[n].pc = "done" <=> n \in closed
      /\ worker[n].pc # "done" =>
           /\ channels[worker[n].job] = n
           /\ worker[n].held = IF worker[n].pc = "close" THEN n ELSE 0

JobsState == JobTypes /\ JobsInv

-----------------------------------------------------------------------------
(* The jobs *)

LEMMA JobsStart == JobsInit => JobsState
<1> SUFFICES ASSUME JobsInit PROVE JobsState
  OBVIOUS
<1>1. worker \in Seq(Works) /\ Len(worker) = 0 /\ DOMAIN worker = {}
  BY DEF JobsInit
<1>2. channels \in [Jobs -> 0..Len(worker)]
  BY <1>1 DEF JobsInit
<1>3. \A c \in Clients : call[c].pc = "out"
  BY DEF JobsInit, Out
<1> QED
  BY <1>1, <1>2, <1>3 DEF JobsInit, JobsState, JobTypes, JobsInv

(* A job that is not under way gets a channel that no goroutine has.       *)
LEMMA AddKeepsJobs ==
  ASSUME JobsState, NEW c, NEW j \in Jobs, AddJob(c, j)
  PROVE  JobsState'
<1> DEFINE new == [job |-> j, pc |-> "process", held |-> 0]
           k == Len(worker) + 1
<1> USE DEF JobsState, JobTypes
<1>1. new \in Works
  BY DEF Works
<1>2. /\ worker' \in Seq(Works)
      /\ Len(worker') = k /\ DOMAIN worker' = 1..k /\ DOMAIN worker = 1..Len(worker)
      /\ worker'[k] = new
      /\ \A n \in DOMAIN worker : n # k /\ worker'[n] = worker[n]
  BY <1>1, AppendProperties DEF AddJob
<1>3. channels' = [channels EXCEPT ![j] = k]
  BY <1>2 DEF AddJob
<1>4. /\ call' = [call EXCEPT ![c] = [pc |-> "added", job |-> j]]
      /\ closed' = closed /\ doubled' = (doubled \/ UnderWay(j))
  BY DEF AddJob
<1> HIDE DEF new
<1>5. JobTypes'
  <2>1. channels' \in [Jobs -> 0..Len(worker')]
    BY <1>2, <1>3
  <2>2. \A d \in Clients :
          /\ call'[d].pc = "added" => call'[d].job \in Jobs
          /\ call'[d].pc = "waiting" => call'[d].on \in DOMAIN worker'
    <3> TAKE d \in Clients
    <3>1. CASE d = c
      BY <1>4, <3>1
    <3>2. CASE d # c
      BY <1>2, <1>4, <3>2
    <3> QED
      BY <3>1, <3>2
  <2>3. DOMAIN call' = Clients
    BY <1>4
  <2>4. closed' \subseteq DOMAIN worker' /\ doubled' \in BOOLEAN
    BY <1>2, <1>4
  <2>5. \A n \in DOMAIN worker' : worker'[n].held <= Len(worker')
    <3>1. \A n \in DOMAIN worker : worker[n].held \in Nat
      <4> TAKE n \in DOMAIN worker
      <4>1. worker[n] \in Works
        BY ElementOfSeq
      <4> QED
        BY <4>1 DEF Works
    <3>2. Len(worker) \in Nat /\ new.held = 0
      BY DEF new
    <3> QED
      BY <1>2, <3>1, <3>2
  <2> QED
    BY <1>2, <2>1, <2>2, <2>3, <2>4, <2>5
<1>6. JobsInv'
  <2> SUFFICES ASSUME ~doubled', ~Failed', NEW n \in DOMAIN worker'
               PROVE  /\ worker'[n].pc = "done" <=> n \in closed'
                      /\ worker'[n].pc # "done" =>
                           /\ channels'[worker'[n].job] = n
                           /\ worker'[n].held =
                                IF worker'[n].pc = "close" THEN n ELSE 0
    BY DEF JobsInv
  <2>1. ~doubled /\ ~UnderWay(j) /\ ~Failed
    <3>1. \A m \in DOMAIN worker : m \in DOMAIN worker' /\ worker'[m] = worker[m]
      BY <1>2
    <3> QED
      BY <1>4, <3>1 DEF Failed
  <2>2. CASE n = k
    BY <1>2, <1>3, <1>4, <2>2 DEF new
  <2>3. CASE n # k
    <3>1. n \in DOMAIN worker /\ worker'[n] = worker[n]
      BY <1>2, <2>3
    <3>2. worker[n] \in Works
      BY <3>1, ElementOfSeq
    <3>3. worker[n].pc # "done" => worker[n].job # j
      BY <2>1, <3>1 DEF UnderWay, Failed
    <3> QED
      BY <1>3, <1>4, <2>1, <3>1, <3>2, <3>3 DEF JobsInv, Works
  <2> QED
    BY <2>2, <2>3
<1> QED
  BY <1>5, <1>6

LEMMA ClientKeepsJobs ==
  ASSUME JobsState, NEW c \in Clients, WaitForJob(c) \/ Answered(c)
  PROVE  JobsState'
<1> USE DEF JobsState, JobTypes
<1>1. UNCHANGED <<channels, worker, closed, doubled>>
  BY DEF WaitForJob, Answered
<1>2. DOMAIN call' = Clients
  BY DEF WaitForJob, Answered
<1>3. \A d \in Clients :
        /\ call'[d].pc = "added" => call'[d].job \in Jobs
        /\ call'[d].pc = "waiting" => call'[d].on \in DOMAIN worker
  <2> TAKE d \in Clients
  <2>1. CASE d # c
    BY <2>1 DEF WaitForJob, Answered
  <2>2. CASE d = c /\ WaitForJob(c)
    <3>1. channels[call[c].job] \in 0..Len(worker) /\ DOMAIN worker = 1..Len(worker)
      BY <2>2 DEF WaitForJob
    <3> QED
      BY <2>2, <3>1 DEF WaitForJob, Out
  <2>3. CASE d = c /\ Answered(c)
    BY <2>3 DEF Answered, Out
  <2> QED
    BY <2>1, <2>2, <2>3
<1> QED
  BY <1>1, <1>2, <1>3 DEF JobsInv, Failed

(* A goroutine goes on to another place before it looks its channel up, or *)
(* looks it up: it is its own.                                             *)
LEMMA WorkKeepsJobs ==
  ASSUME JobsState, NEW n \in DOMAIN worker,
         \/ \E to \in {"remove", "complete", "failed"} :
              /\ worker[n].pc \in {"process", "remove"}
              /\ worker' = [worker EXCEPT ![n].pc = to]
              /\ UNCHANGED <<channels, closed, call, doubled>>
         \/ CompleteJob(n) \/ CloseChannel(n)
  PROVE  JobsState'
<1> USE DEF JobsState, JobTypes
<1>1. /\ DOMAIN worker = 1..Len(worker)
      /\ \A m \in DOMAIN worker : worker[m] \in Works
  BY ElementOfSeq
<1>2. /\ DOMAIN worker' = DOMAIN worker /\ Len(worker') = Len(worker)
      /\ UNCHANGED <<call, doubled>>
  BY DEF CompleteJob, CloseChannel, Goes
<1>3. \A m \in DOMAIN worker : m # n => worker'[m] = worker[m]
  BY DEF CompleteJob, CloseChannel, Goes
<1>4. /\ worker'[n].job = worker[n].job /\ worker'[n] \in Works
      /\ worker[n].pc \in {"process", "remove", "complete", "close"}
  <2>1. worker[n] \in Works /\ worker[n].job \in Jobs
        /\ channels[worker[n].job] \in Nat
    BY <1>1 DEF Works
  <2>2. CASE CompleteJob(n)
    <3> DEFINE w == [[worker[n] EXCEPT !.pc = "close"]
                     EXCEPT !.held = channels[worker[n].job]]
    <3>1. w \in Works /\ w.job = worker[n].job
      BY <2>1 DEF Works
    <3>2. worker'[n] = w
      BY <2>2 DEF CompleteJob
    <3> QED
      BY <2>2, <3>1, <3>2 DEF CompleteJob
  <2>3. CASE CloseChannel(n)
    BY <2>1, <2>3 DEF CloseChannel, Goes, Works
  <2>4. CASE ~CompleteJob(n) /\ ~CloseChannel(n)
    <3>1. PICK to \in {"remove", "complete", "failed"} :
            /\ worker[n].pc \in {"process", "remove"}
            /\ worker' = [worker EXCEPT ![n].pc = to]
      BY <2>4
    <3>2. worker'[n] = [worker[n] EXCEPT !.pc = to]
      BY <3>1
    <3> QED
      BY <2>1, <3>1, <3>2 DEF Works
  <2> QED
    BY <2>2, <2>3, <2>4
<1>5. ~Failed' => ~Failed
  BY <1>2, <1>3, <1>4 DEF Failed
<1>6. ~doubled /\ ~Failed =>
        \/ /\ worker'[n].pc # "done" /\ UNCHANGED <<channels, closed>>
           /\ worker'[n].held = IF worker'[n].pc = "close" THEN n ELSE 0
        \/ /\ worker'[n].pc = "done" /\ closed' = closed \cup {n}
           /\ channels' = [channels EXCEPT ![worker[n].job] = 0]
  <2> SUFFICES ASSUME ~doubled, ~Failed
               PROVE  \/ /\ worker'[n].pc # "done" /\ UNCHANGED <<channels, closed>>
                         /\ worker'[n].held = IF worker'[n].pc = "close" THEN n ELSE 0
                      \/ /\ worker'[n].pc = "done" /\ closed' = closed \cup {n}
                         /\ channels' = [channels EXCEPT ![worker[n].job] = 0]
    OBVIOUS
  <2>1. /\ channels[worker[n].job] = n
        /\ worker[n].held = IF worker[n].pc = "close" THEN n ELSE 0
    BY <1>4 DEF JobsInv
  <2>2. CASE CompleteJob(n)
    BY <1>1, <2>1, <2>2 DEF CompleteJob, Works
  <2>3. CASE CloseChannel(n)
    BY <1>1, <2>1, <2>3 DEF CloseChannel, Goes, Works
  <2>4. CASE ~CompleteJob(n) /\ ~CloseChannel(n)
    BY <1>1, <2>1, <2>4 DEF Works
  <2> QED
    BY <2>2, <2>3, <2>4
<1>7. JobTypes'
  <2>1. worker' \in Seq(Works)
    <3>1. \A m \in DOMAIN worker : worker'[m] \in Works
      BY <1>1, <1>3, <1>4
    <3>2. worker' = [worker EXCEPT ![n] = worker'[n]]
      BY <1>1 DEF CompleteJob, CloseChannel, Goes
    <3> QED
      BY <1>1, <1>4, <3>2, ExceptSeq
  <2>2. /\ worker[n].job \in Jobs
        /\ channels[worker[n].job] \in 0..Len(worker)
    BY <1>1 DEF Works
  <2>3. \A m \in DOMAIN worker : worker'[m].held <= Len(worker)
    <3>1. worker'[n].held <= Len(worker)
      BY <1>1, <2>2 DEF CompleteJob, CloseChannel, Goes, Works
    <3> QED
      BY <1>3, <3>1
  <2>4. channels' \in [Jobs -> 0..Len(worker)]
    BY <1>1, <2>2 DEF CompleteJob, CloseChannel, Goes
  <2>5. closed' \subseteq DOMAIN worker
    <3>1. worker[n].held \in 0..Len(worker)
      BY <1>1 DEF Works
    <3> QED
      BY <1>1, <3>1 DEF CompleteJob, CloseChannel
  <2> QED
    BY <1>2, <2>1, <2>3, <2>4, <2>5
<1>8. JobsInv'
  <2> SUFFICES ASSUME ~doubled', ~Failed', NEW m \in DOMAIN worker
               PROVE  /\ worker'[m].pc = "done" <=> m \in closed'
                      /\ worker'[m].pc # "done" =>
                           /\ channels'[worker'[m].job] = m
                           /\ worker'[m].held =
                                IF worker'[m].pc = "close" THEN m ELSE 0
    BY <1>2 DEF JobsInv
  <2>1. ~doubled /\ ~Failed
    BY <1>2, <1>5
  <2>2. /\ worker[m].pc = "done" <=> m \in closed
        /\ worker[m].pc # "done" =>
             /\ channels[worker[m].job] = m
             /\ worker[m].held = IF worker[m].pc = "close" THEN m ELSE 0
    BY <2>1 DEF JobsInv
  <2>3. channels[worker[n].job] = n /\ n \notin closed
    BY <1>4, <2>1 DEF JobsInv
  <2>4. worker[m].job \in Jobs /\ worker[n].job \in Jobs
    BY <1>1 DEF Works
  <2> QED
    BY <1>3, <1>4, <1>6, <2>1, <2>2, <2>3, <2>4
<1> QED
  BY <1>7, <1>8

LEMMA RestartKeepsJobs == Restart => JobsState'
<1> SUFFICES ASSUME Restart PROVE JobsState'
  OBVIOUS
<1>1. worker' \in Seq(Works) /\ Len(worker') = 0 /\ DOMAIN worker' = {}
  BY DEF Restart
<1>2. channels' \in [Jobs -> 0..Len(worker')]
  BY <1>1 DEF Restart
<1>3. \A c \in Clients : call'[c].pc = "out"
  BY DEF Restart, Out
<1> QED
  BY <1>1, <1>2, <1>3 DEF Restart, JobsState, JobTypes, JobsInv

LEMMA JobsFrame == JobsState /\ UNCHANGED jobVars => JobsState'
BY DEF JobsState, JobTypes, JobsInv, Failed, jobVars

-----------------------------------------------------------------------------
(* The sync, the monitors and their environment *)

LEMMA SyncKeepsJobs ==
  ASSUME SyncTypes, JobsState, Sync
  PROVE  SyncTypes' /\ JobsState'
<1> USE ScenariosAssumption DEF SyncTypes, Idle, syncOnly, Use
<1>1. scenario.names \subseteq Names
  OBVIOUS
<1>2. CASE RequestSelfSigned
  <2>1. [type |-> "tlscert", data |-> sync.name] \in Jobs
    BY <1>2 DEF RequestSelfSigned, Jobs
  <2>2. SyncTypes'
    BY <1>2 DEF RequestSelfSigned
  <2> QED
    BY <1>2, <2>1, <2>2, AddKeepsJobs DEF RequestSelfSigned
<1>3. CASE ~RequestSelfSigned
  <2>1. UNCHANGED jobVars
    BY <1>3 DEF Sync, SyncStarts, GetCertificate, GetACME, GetSelfSigned,
                SelfSignedDone, GetImported, WriteFiles, RemoveFolders, SyncEnds
  <2>2. ASSUME SyncStarts \/ WriteFiles \/ RemoveFolders \/ SyncEnds
        PROVE  SyncTypes'
    <3>1. CASE SyncStarts
      BY <3>1 DEF SyncStarts
    <3>2. CASE WriteFiles
      BY <3>2 DEF WriteFiles
    <3>3. CASE SyncEnds
      BY <3>3 DEF SyncEnds
    <3>4. CASE RemoveFolders
      BY <3>4 DEF RemoveFolders
    <3> QED
      BY <2>2, <3>1, <3>2, <3>3, <3>4
  <2>3. ASSUME NEW n \in scenario.names, GetCertificate(n) PROVE SyncTypes'
    BY <1>1, <2>3 DEF GetCertificate
  <2>4. ASSUME GetACME \/ GetSelfSigned \/ SelfSignedDone \/ GetImported
        PROVE  SyncTypes'
    <3>1. CASE GetACME
      BY <3>1 DEF GetACME
    <3>2. CASE GetSelfSigned
      BY <3>2 DEF GetSelfSigned
    <3>3. CASE SelfSignedDone
      BY <3>3 DEF SelfSignedDone
    <3>4. CASE GetImported
      BY <3>4 DEF GetImported
    <3> QED
      BY <2>4, <3>1, <3>2, <3>3, <3>4
  <2> QED
    BY <1>3, <2>1, <2>2, <2>3, <2>4, JobsFrame DEF Sync
<1> QED
  BY <1>2, <1>3

LEMMA MonitorKeepsJobs ==
  ASSUME SyncTypes, JobsState, NEW m \in Monitors, Monitor(m)
  PROVE  SyncTypes' /\ JobsState'
<1>1. ASSUME NEW n \in scenario.names, Renew(m, n)
      PROVE  SyncTypes' /\ JobsState'
  <2> DEFINE j == [type |-> IF tls[n] = "acme" THEN "acme" ELSE "tlscert",
                   data |-> n]
  <2>1. j \in Jobs
    BY <1>1, ScenariosAssumption DEF Jobs, SyncTypes
  <2>2. AddJob(m, j)
    BY <1>1 DEF Renew
  <2>3. SyncTypes'
    BY <1>1 DEF Renew, SyncTypes, monitorOnly
  <2> QED
    BY <2>1, <2>2, <2>3, AddKeepsJobs
<1>2. CASE \A n \in scenario.names : ~Renew(m, n)
  <2>1. UNCHANGED jobVars
    BY <1>2 DEF Monitor, Start, Renewed, Looked, QueueRun, Look
  <2>2. SyncTypes'
    BY <1>2 DEF Monitor, Start, Renewed, Looked, QueueRun, Look, SyncTypes,
                monitorOnly
  <2> QED
    BY <2>1, <2>2, JobsFrame
<1> QED
  BY <1>1, <1>2

LEMMA JobsNext == SyncTypes /\ JobsState /\ [Next]_vars => SyncTypes' /\ JobsState'
<1> SUFFICES ASSUME SyncTypes, JobsState, [Next]_vars
             PROVE  SyncTypes' /\ JobsState'
  OBVIOUS
<1>1. ASSUME UNCHANGED <<sync, scenario>> PROVE SyncTypes'
  BY <1>1 DEF SyncTypes
<1>2. CASE Sync
  BY <1>2, SyncKeepsJobs
<1>3. ASSUME NEW n \in DOMAIN worker, Work(n) \/ ProcessFails(n)
      PROVE  SyncTypes' /\ JobsState'
  <2>1. UNCHANGED <<sync, scenario>>
    BY <1>3 DEF Work, GenerateTLSCert, GenerateACMECertificate, RemoveSelfSigned,
                ProcessFails, certVars, jobsOnly, Fault
  <2>2. CASE \/ GenerateTLSCert(n) \/ GenerateACMECertificate(n)
             \/ RemoveSelfSigned(n) \/ ProcessFails(n)
    <3>1. \E to \in {"remove", "complete", "failed"} :
            /\ worker[n].pc \in {"process", "remove"}
            /\ worker' = [worker EXCEPT ![n].pc = to]
            /\ UNCHANGED <<channels, closed, call, doubled>>
      BY <2>2 DEF GenerateTLSCert, GenerateACMECertificate, RemoveSelfSigned,
                  ProcessFails, JobFails, Goes
    <3> QED
      BY <1>1, <2>1, <3>1, WorkKeepsJobs
  <2>3. CASE CompleteJob(n) \/ CloseChannel(n)
    BY <1>1, <2>1, <2>3, WorkKeepsJobs
  <2> QED
    BY <1>3, <2>2, <2>3 DEF Work
<1>4. ASSUME NEW c \in Clients, Client(c) PROVE SyncTypes' /\ JobsState'
  BY <1>1, <1>4, ClientKeepsJobs DEF Client, certVars
<1>5. ASSUME NEW m \in Monitors, Monitor(m) PROVE SyncTypes' /\ JobsState'
  BY <1>5, MonitorKeepsJobs
<1>6. ASSUME \/ \E m \in Monitors : Tick(m)
             \/ Refreshed \/ NoSync \/ Change
      PROVE  SyncTypes' /\ JobsState'
  <2>1. UNCHANGED <<jobVars, sync, scenario>>
    BY <1>6 DEF Tick, Refreshed, Runs, NoSync, Change, ReplaceState, PatchSite,
                ImportCertificate, Request, monitorOnly
  <2> QED
    BY <1>1, <2>1, JobsFrame
<1>7. CASE DayPasses
  <2>1. SyncTypes'
    BY <1>7 DEF DayPasses, SyncTypes
  <2> QED
    BY <1>7, <2>1, JobsFrame DEF DayPasses
<1>8. CASE Crash \/ Panic
  <2>1. Restart
    BY <1>8 DEF Crash, Panic
  <2>2. SyncTypes'
    BY <2>1 DEF Restart, SyncTypes, Idle
  <2> QED
    BY <2>1, <2>2, RestartKeepsJobs
<1>9. CASE UNCHANGED vars
  BY <1>1, <1>9, JobsFrame DEF vars, certVars
<1> QED
  BY <1>2, <1>3, <1>4, <1>5, <1>6, <1>7, <1>8, <1>9 DEF Next

(* As long as no job is added while it is under way and none fails, whoever *)
(* waits for a job is answered by a goroutine that is under way, and no    *)
(* channel is closed twice: for any names, calls, days, requests and ends  *)
(* of the process.                                                         *)
THEOREM JobsAreAnsweredAlways == Spec => []JobsAreAnswered
<1>1. Init => SyncTypes /\ JobsState
  BY JobsStart DEF Init, Boot, SyncTypes, Idle
<1>2. JobsState => JobsAreAnswered
  <2> SUFFICES ASSUME JobsState, ~doubled, ~Failed
               PROVE  /\ \A c \in Clients : IsServed(c)
                      /\ \A n \in DOMAIN worker : ~ClosesTwice(n)
    BY DEF JobsAreAnswered
  <2>1. \A n \in DOMAIN worker : ~ClosesTwice(n)
    BY DEF JobsState, JobsInv, ClosesTwice
  <2>2. ASSUME NEW c \in Clients, call[c].pc = "waiting" PROVE IsServed(c)
    <3>1. call[c].on \in DOMAIN worker /\ worker[call[c].on].pc # "failed"
      BY <2>2 DEF JobsState, JobTypes, Failed
    <3> QED
      BY <3>1 DEF JobsState, JobsInv, IsServed
  <2> QED
    BY <2>1, <2>2 DEF IsServed
<1> QED
  BY <1>1, <1>2, JobsNext, PTL DEF Spec
=============================================================================
