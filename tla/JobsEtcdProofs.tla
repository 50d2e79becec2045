--------------------------- MODULE JobsEtcdProofs ---------------------------
(***************************************************************************)
(* Proofs about the two things that the nodes of a cluster take in etcd    *)
(* with a lease: the leadership with its jobs (JobsEtcd), for any nodes,   *)
(* clients, jobs and environment, watches that are registered late among   *)
(* them, and the lock on the state (EtcdLock), for any processes.          *)
(*                                                                         *)
(* LeaderOwnsKey: a node that believes to be the leader has seen its own   *)
(* key, or that the key is gone, as the last event of its watch.           *)
(*                                                                         *)
(* DoneMeansServed: as long as a client waits and its job was not          *)
(* processed since it asked, the key of the job exists, nobody is about to *)
(* delete it, and no deletion is among the events its watch will report.   *)
(*                                                                         *)
(* LiveOwnerHasKey: inductive, given that no two processes share a lease.  *)
(***************************************************************************)
EXTENDS JobsEtcd, EtcdLock, TLAPS

(* The parts of the type invariant that the proofs need.                   *)
LeaderTypes ==
  /\ leaders \in Seq(Nodes \cup {Nobody})
  /\ watching \subseteq Nodes /\ isLeader \subseteq watching
  /\ leaderSeen \in [Nodes -> 0..Len(leaders)]

BelievesInv ==
  \A n \in isLeader :
    leaderSeen[n] # 0 /\ leaders[leaderSeen[n]] \in {n, Nobody}

LeaderInv == LeaderTypes /\ BelievesInv

JobTypes ==
  /\ log \in Seq(Event)
  /\ lastJob \in [Nodes -> Nat] /\ jobSeen \in [Nodes -> Nat]
  /\ listed \in [Nodes -> SUBSET Jobs]
  /\ work \subseteq Work /\ \A u \in work : u.last <= Len(log)
  /\ pc \in [Clients -> {"start", "put", "wait", "done", "refused", "failed",
                         "panicked"}]
  /\ ask \in [Clients -> {"off", "get", "nil", "error"}]
  /\ watch \in [Clients -> {"off", "starting", "on", "nil", "error"}]
  /\ since \in [Clients -> Nat]
  /\ served \subseteq Clients

(* A job is about to be marked as complete.                                *)
Completing(j) == \E u \in work : u.job = j /\ u.step = "complete"

Deleted(j, i) == log[i] = [job |-> j, type |-> "delete"]

(* What a client that was not served can still find out.                   *)
Unserved(c) ==
  /\ Exists(JobOf[c]) /\ ~Completing(JobOf[c])
  /\ \A i \in since[c] + 1 .. Len(log) : ~Deleted(JobOf[c], i)
  /\ ask[c] # "nil" /\ watch[c] # "nil"

WaitInv ==
  /\ \A c \in Clients : pc[c] = "wait" /\ c \notin served => Unserved(c)
  /\ DoneMeansServed

JobInv == JobTypes /\ WaitInv

-----------------------------------------------------------------------------
(* The leader *)

LEMMA LeaderInit == Init => LeaderInv
<1> SUFFICES ASSUME Init PROVE LeaderInv
  OBVIOUS
<1>1. leaders = <<>> /\ Len(leaders) = 0 /\ leaders \in Seq(Nodes \cup {Nobody})
  BY DEF Init
<1>2. watching \subseteq Nodes /\ isLeader = {}
  BY ScenariosAssumption DEF Init, Scenario
<1>3. leaderSeen \in [Nodes -> 0..Len(leaders)]
  BY <1>1 DEF Init
<1> QED
  BY <1>1, <1>2, <1>3 DEF LeaderInv, LeaderTypes, BelievesInv

LEMMA LeaderFrame ==
  ASSUME LeaderInv, UNCHANGED <<leaders, watching, leaderSeen, isLeader>>
  PROVE  LeaderInv'
BY DEF LeaderInv, LeaderTypes, BelievesInv

(* The key changes; the events a node has seen stay what they are.         *)
LEMMA KeyChanges ==
  ASSUME LeaderInv, NEW x \in Nodes \cup {Nobody},
         leaders' = Append(leaders, x),
         UNCHANGED <<watching, leaderSeen, isLeader>>
  PROVE  LeaderInv'
BY DEF LeaderInv, LeaderTypes, BelievesInv

LEMMA StopKeepsLeader ==
  ASSUME LeaderInv, NEW n \in Nodes, Stop(n),
         \/ leaders' = leaders
         \/ \E x \in Nodes \cup {Nobody} : leaders' = Append(leaders, x)
  PROVE  LeaderInv'
<1>1. /\ watching' = watching \ {n} /\ isLeader' = isLeader \ {n}
      /\ leaderSeen' = [leaderSeen EXCEPT ![n] = 0]
  BY DEF Stop
<1>2. CASE leaders' = leaders
  BY <1>1, <1>2 DEF LeaderInv, LeaderTypes, BelievesInv
<1>3. ASSUME NEW x \in Nodes \cup {Nobody}, leaders' = Append(leaders, x)
      PROVE  LeaderInv'
  BY <1>1, <1>3 DEF LeaderInv, LeaderTypes, BelievesInv
<1> QED
  BY <1>2, <1>3

LEMMA ElectKeepsLeader ==
  ASSUME LeaderInv, NEW n \in Nodes, Elect(n)
  PROVE  LeaderInv'
<1>1. CASE WatchLeader(n)
  <2>1. /\ n \notin watching /\ watching' = watching \cup {n}
        /\ leaderSeen' = [leaderSeen EXCEPT ![n] = Len(leaders)]
        /\ UNCHANGED <<leaders, isLeader>>
    BY <1>1 DEF WatchLeader, etcdVars
  <2>2. Len(leaders) \in 0..Len(leaders)
    BY DEF LeaderInv, LeaderTypes
  <2> QED
    BY <2>1, <2>2 DEF LeaderInv, LeaderTypes, BelievesInv
<1>2. ASSUME isLeader' \subseteq isLeader,
             UNCHANGED <<leaders, watching, leaderSeen>>
      PROVE  LeaderInv'
  BY <1>2 DEF LeaderInv, LeaderTypes, BelievesInv
<1>3. CASE FirstAttempt(n)
  <2>1. CASE Leader = Nobody
    BY <1>3, <2>1, KeyChanges DEF FirstAttempt, TryLeadership
  <2>2. CASE Leader # Nobody
    BY <1>2, <1>3, <2>2 DEF FirstAttempt, TryLeadership, SetLeader
  <2> QED
    BY <2>1, <2>2
<1>4. CASE Reacquire(n)
  <2>1. CASE Leader = Nobody
    BY <1>4, <2>1, KeyChanges DEF Reacquire, TryLeadership
  <2>2. CASE Leader # Nobody
    BY <1>2, <1>4, <2>2 DEF Reacquire, TryLeadership, SetLeader
  <2> QED
    BY <2>1, <2>2
<1>5. CASE LeaderEvent(n)
  <2>1. PICK i \in leaderSeen[n] + 1 .. Len(leaders) :
          /\ leaderSeen' = [leaderSeen EXCEPT ![n] = i]
          /\ IF leaders[i] = Nobody THEN UNCHANGED isLeader
             ELSE SetLeader(n, leaders[i] = n, watcher)
    BY <1>5 DEF LeaderEvent
  <2>2. n \in watching /\ UNCHANGED <<leaders, watching>>
    BY <1>5 DEF LeaderEvent, etcdVars
  <2>3. i \in 1 .. Len(leaders)
    BY <2>1 DEF LeaderInv, LeaderTypes
  <2>4. /\ isLeader' \subseteq isLeader \cup {n}
        /\ n \in isLeader' => leaders[i] \in {n, Nobody}
    BY <2>1 DEF SetLeader
  <2> QED
    BY <2>1, <2>2, <2>3, <2>4 DEF LeaderInv, LeaderTypes, BelievesInv
<1> QED
  BY <1>1, <1>3, <1>4, <1>5 DEF Elect

LEMMA LeaderNext == LeaderInv /\ [Next]_vars => LeaderInv'
<1> SUFFICES ASSUME LeaderInv, [Next]_vars PROVE LeaderInv'
  OBVIOUS
<1> USE DEF etcdVars, electVars
<1>1. CASE UNCHANGED vars
  BY <1>1, LeaderFrame DEF vars
<1>2. ASSUME NEW n \in Nodes, Elect(n) PROVE LeaderInv'
  BY <1>2, ElectKeepsLeader
<1>3. ASSUME NEW n \in Nodes, Manage(n) \/ Listen(n) PROVE LeaderInv'
  BY <1>3, LeaderFrame
  DEF Manage, ReceiveChange, ListJobs, NextListed, ListDone, Listen, WatchJobs,
      JobEvent
<1>4. ASSUME NEW n \in Nodes, AttemptFails(n) PROVE LeaderInv'
  <2>1. leaders' = leaders \/ leaders' = Append(leaders, n)
    BY <1>4 DEF AttemptFails
  <2>2. Stop(n) \/ UNCHANGED <<watching, leaderSeen, isLeader>>
    BY <1>4 DEF AttemptFails
  <2> QED
    BY <2>1, <2>2, LeaderFrame, KeyChanges, StopKeepsLeader
<1>5. ASSUME NEW n \in Nodes, ListFails(n) \/ Crash(n) PROVE LeaderInv'
  BY <1>5, StopKeepsLeader DEF ListFails, Crash
<1>6. ASSUME NEW u \in work, Perform(u) \/ ProcessFails(u) \/ CompleteFails(u)
      PROVE  LeaderInv'
  BY <1>6, LeaderFrame
  DEF Perform, LookAt, Process, Complete, ProcessFails, CompleteFails
<1>7. ASSUME NEW c \in Clients,
             Wait(c) \/ AddFails(c) \/ GetFails(c) \/ KeyWatchFails(c)
      PROVE  LeaderInv'
  BY <1>7, LeaderFrame
  DEF Wait, CheckLeader, PutJob, WatchKey, KeyEvent, GetKey, Answer, AddFails,
      GetFails, KeyWatchFails
<1>8. CASE ExpireLeader
  BY <1>8, KeyChanges DEF ExpireLeader
<1> QED
  BY <1>1, <1>2, <1>3, <1>4, <1>5, <1>6, <1>7, <1>8 DEF Next

(* A node that has received every event of the leader's key and believes   *)
(* that it is the leader owns the key, if the key exists, whatever was     *)
(* late, lost or has failed.                                               *)
THEOREM LeaderOwnsKeyAlways == Spec => []LeaderOwnsKey
<1>1. LeaderInv => LeaderOwnsKey
  BY DEF LeaderInv, LeaderTypes, BelievesInv, LeaderOwnsKey, Leader
<1> QED
  BY <1>1, LeaderInit, LeaderNext, PTL DEF Spec

-----------------------------------------------------------------------------
(* The keys of the jobs *)

(* Only the deletion of a key makes it disappear.                          *)
LEMMA OtherEventKeepsKey ==
  ASSUME JobTypes, NEW j \in Jobs, NEW e \in Event,
         log' = Append(log, e), e # [job |-> j, type |-> "delete"], Exists(j)
  PROVE  Exists(j)'
<1>1. e.job # j \/ e.type # "delete"
  BY DEF Event
<1>2. log \in Seq(Event)
  BY DEF JobTypes
<1>3. /\ Len(log') = Len(log) + 1 /\ log'[Len(log) + 1] = e
      /\ \A i \in 1..Len(log) : log'[i] = log[i]
  BY <1>2
<1>4. CASE e.job = j
  BY <1>1, <1>2, <1>3, <1>4 DEF Exists
<1>5. CASE e.job # j
  BY <1>2, <1>3, <1>5 DEF Exists
<1> QED
  BY <1>4, <1>5

LEMMA PutKeyExists ==
  ASSUME JobTypes, NEW j \in Jobs, PutKey(j)
  PROVE  /\ Exists(j)'
         /\ \E e \in Event : log' = Append(log, e) /\ e.type # "delete"
<1>1. PICK type \in {"create", "modify"} :
        log' = Append(log, [job |-> j, type |-> type])
  BY DEF PutKey
<1>2. [job |-> j, type |-> type] \in Event
  BY DEF Event
<1>3. log \in Seq(Event)
  BY DEF JobTypes
<1> QED
  BY <1>1, <1>2, <1>3 DEF Exists

(* An event that does not delete a client's job changes nothing for it.    *)
LEMMA EventKeepsUnserved ==
  ASSUME JobTypes, JobTypes', NEW c \in Clients, Unserved(c),
         \/ log' = log
         \/ \E e \in Event : /\ log' = Append(log, e)
                             /\ e # [job |-> JobOf[c], type |-> "delete"],
         Completing(JobOf[c])' => Completing(JobOf[c]),
         since'[c] = since[c], ask'[c] = ask[c], watch'[c] = watch[c]
  PROVE  Unserved(c)'
<1>1. JobOf[c] \in Jobs
  BY JobsAssumption
<1>2. CASE log' = log
  BY <1>2 DEF Unserved, Exists, Deleted
<1>3. ASSUME NEW e \in Event, log' = Append(log, e),
             e # [job |-> JobOf[c], type |-> "delete"]
      PROVE  Unserved(c)'
  <2>1. Exists(JobOf[c])'
    BY <1>1, <1>3, OtherEventKeepsKey DEF Unserved
  <2>2. since[c] \in Nat /\ log \in Seq(Event)
    BY DEF JobTypes
  <2>3. ASSUME NEW i \in since[c] + 1 .. Len(log')
        PROVE  log'[i] # [job |-> JobOf[c], type |-> "delete"]
    BY <1>3, <2>2 DEF Unserved, Deleted
  <2> QED
    BY <2>1, <2>3 DEF Unserved, Deleted
<1> QED
  BY <1>2, <1>3

LEMMA JobInit == Init => JobInv
<1> SUFFICES ASSUME Init PROVE JobInv
  OBVIOUS
<1>1. log \in Seq(Event)
  BY DEF Init
<1>2. work = {} /\ served = {}
  BY DEF Init
<1>3. /\ lastJob \in [Nodes -> Nat] /\ jobSeen \in [Nodes -> Nat]
      /\ listed \in [Nodes -> SUBSET Jobs] /\ since \in [Clients -> Nat]
      /\ pc \in [Clients -> {"start", "refused"}]
      /\ ask = [c \in Clients |-> "off"] /\ watch = [c \in Clients |-> "off"]
  BY DEF Init
<1> QED
  BY <1>1, <1>2, <1>3 DEF JobInv, JobTypes, WaitInv, DoneMeansServed

(* A step that leaves the keys and the clients alone and does not bring a  *)
(* job to its end.                                                         *)
LEMMA WaitFrame ==
  ASSUME WaitInv, UNCHANGED <<log, clientVars, served>>,
         \A j \in Jobs : Completing(j)' => Completing(j)
  PROVE  WaitInv'
BY JobsAssumption
DEF WaitInv, DoneMeansServed, Unserved, Exists, Deleted, clientVars

LEMMA StopKeepsJobs ==
  ASSUME JobInv, NEW n \in Nodes, Stop(n),
         UNCHANGED <<log, clientVars, served>>
  PROVE  JobInv'
<1>1. work' \subseteq work
  BY DEF Stop
<1>2. JobTypes'
  BY <1>1 DEF Stop, JobInv, JobTypes, clientVars
<1> QED
  BY <1>1, <1>2, WaitFrame DEF JobInv, Completing

LEMMA ManageKeepsJobs ==
  ASSUME JobInv, NEW n \in Nodes, Manage(n) \/ Listen(n)
  PROVE  JobInv'
<1> USE DEF etcdVars
<1>1. UNCHANGED <<log, clientVars, served>>
  BY DEF Manage, Listen, ReceiveChange, ListJobs, NextListed, ListDone,
         WatchJobs, JobEvent
<1>2. Len(log) \in Nat /\ \A i \in 1..Len(log) : log[i] \in Event
  BY DEF JobInv, JobTypes
<1>3. CASE ReceiveChange(n)
  <2>1. work' = work \/ \E last \in jobSeen[n] .. Len(log) : work' = Cancelled(n, last)
    BY <1>3 DEF ReceiveChange
  <2>2. ASSUME NEW last \in jobSeen[n] .. Len(log), work' = Cancelled(n, last),
               NEW v \in work'
        PROVE  /\ v \in Work /\ v.last <= Len(log)
               /\ v.step = "complete" =>
                    \E u \in work : v.job = u.job /\ u.step = "complete"
    <3>1. last \in Nat /\ last <= Len(log) /\ jobSeen[n] \in Nat
      BY <1>2, <2>2 DEF JobInv, JobTypes
    <3>2. ASSUME NEW u \in work,
                 v = IF u.node = n /\ u.by = "watch"
                     THEN [u EXCEPT !.by = "cancelled", !.last = last] ELSE u
          PROVE  /\ v \in Work /\ v.last <= Len(log)
                 /\ v.job = u.job /\ v.step = u.step
      <4>1. u \in Work /\ u.last <= Len(log)
        BY DEF JobInv, JobTypes
      <4>2. CASE u.node = n /\ u.by = "watch"
        BY <3>1, <3>2, <4>1, <4>2 DEF Work
      <4>3. CASE ~(u.node = n /\ u.by = "watch")
        BY <3>2, <4>1, <4>3
      <4> QED
        BY <4>2, <4>3
    <3>3. ASSUME NEW i \in {k \in {jobSeen[n] + 1} : k <= last /\ ~Busy(n, "watch")},
                 v = [node |-> n, job |-> log[i].job, by |-> "cancelled",
                      step |-> "look", rev |-> i, last |-> last]
          PROVE  v \in Work /\ v.last <= Len(log) /\ v.step = "look"
      <4>1. i \in 1..Len(log)
        BY <1>2, <3>1, <3>3
      <4>2. log[i].job \in Jobs
        BY <1>2, <4>1 DEF Event
      <4> QED
        BY <3>1, <3>3, <4>1, <4>2 DEF Work
    <3>4. \/ \E u \in work :
               v = IF u.node = n /\ u.by = "watch"
                   THEN [u EXCEPT !.by = "cancelled", !.last = last] ELSE u
          \/ \E i \in {k \in {jobSeen[n] + 1} : k <= last /\ ~Busy(n, "watch")} :
               v = [node |-> n, job |-> log[i].job, by |-> "cancelled",
                    step |-> "look", rev |-> i, last |-> last]
      BY <2>2 DEF Cancelled
    <3> QED
      BY <3>2, <3>3, <3>4
  <2>3. /\ work' \subseteq Work /\ \A v \in work' : v.last <= Len(log)
        /\ \A v \in work' : v.step = "complete" =>
             \E u \in work : v.job = u.job /\ u.step = "complete"
    BY <2>1, <2>2 DEF JobInv, JobTypes
  <2>4. /\ lastJob' \in [Nodes -> Nat] /\ jobSeen' \in [Nodes -> Nat]
        /\ listed' = listed
    <3>1. CASE n \in isLeader
      <4>1. /\ lastJob' = [lastJob EXCEPT ![n] = 0]
            /\ jobSeen' = [jobSeen EXCEPT ![n] = Len(log)] /\ listed' = listed
        BY <1>3, <3>1 DEF ReceiveChange
      <4>2. lastJob \in [Nodes -> Nat] /\ jobSeen \in [Nodes -> Nat]
        BY DEF JobInv, JobTypes
      <4> QED
        BY <1>2, <4>1, <4>2
    <3>2. CASE n \notin isLeader
      BY <1>3, <3>2 DEF ReceiveChange, JobInv, JobTypes
    <3> QED
      BY <3>1, <3>2
  <2>5. JobTypes'
    BY <1>1, <2>3, <2>4 DEF JobInv, JobTypes, clientVars
  <2> QED
    BY <1>1, <2>3, <2>5, WaitFrame DEF JobInv, Completing
<1>4. CASE ListJobs(n) \/ ListDone(n) \/ WatchJobs(n)
  <2>1. /\ lastJob' \in [Nodes -> Nat] /\ jobSeen' \in [Nodes -> Nat]
        /\ listed' \in [Nodes -> SUBSET Jobs] /\ work' = work
    BY <1>2, <1>4 DEF ListJobs, ListDone, WatchJobs, JobInv, JobTypes
  <2> QED
    BY <1>1, <2>1, WaitFrame DEF JobInv, JobTypes, Completing, clientVars
<1>5. ASSUME NEW j \in Jobs, NEW by \in {"watch", "list"}, NEW rev \in Nat,
             rev <= Len(log), Begin(n, j, by, rev), lastJob' = lastJob,
             jobSeen' \in [Nodes -> Nat], listed' \in [Nodes -> SUBSET Jobs]
      PROVE  JobInv'
  <2>1. work' = work \cup {[node |-> n, job |-> j, by |-> by,
                            step |-> "process", rev |-> rev, last |-> rev]}
    BY <1>5 DEF Begin
  <2>2. work' \subseteq Work /\ \A u \in work' : u.last <= Len(log)
    BY <1>5, <2>1 DEF Work, JobInv, JobTypes
  <2>3. \A u \in work' : u.step = "complete" => u \in work
    BY <2>1
  <2>4. JobTypes'
    BY <1>1, <1>5, <2>2 DEF JobInv, JobTypes, clientVars
  <2> QED
    BY <1>1, <2>3, <2>4, WaitFrame DEF JobInv, Completing
<1>6. CASE NextListed(n)
  <2>1. PICK j \in listed[n] : /\ listed' = [listed EXCEPT ![n] = @ \ {j}]
                               /\ Begin(n, j, "list", 0)
    BY <1>6 DEF NextListed
  <2>2. j \in Jobs /\ listed' \in [Nodes -> SUBSET Jobs]
    BY <2>1 DEF JobInv, JobTypes
  <2>3. lastJob' = lastJob /\ jobSeen' \in [Nodes -> Nat]
    BY <1>6 DEF NextListed, JobInv, JobTypes
  <2> QED
    BY <1>2, <1>5, <2>1, <2>2, <2>3
<1>7. CASE JobEvent(n)
  <2> DEFINE i == jobSeen[n] + 1
  <2>1. i \in 1..Len(log) /\ i \in Nat
    BY <1>2, <1>7 DEF JobEvent, JobInv, JobTypes
  <2>2. /\ lastJob' = lastJob /\ listed' = listed
        /\ jobSeen' \in [Nodes -> Nat] /\ listed' \in [Nodes -> SUBSET Jobs]
    BY <1>7 DEF JobEvent, JobInv, JobTypes
  <2>3. log[i].job \in Jobs
    BY <1>2, <2>1 DEF Event
  <2>4. CASE Begin(n, log[i].job, "watch", i)
    BY <1>5, <2>1, <2>2, <2>3, <2>4
  <2>5. CASE work' = work
    BY <1>1, <2>2, <2>5, WaitFrame DEF JobInv, JobTypes, Completing, clientVars
  <2> QED
    BY <1>7, <2>4, <2>5 DEF JobEvent
<1> QED
  BY <1>3, <1>4, <1>6, <1>7 DEF Manage, Listen

LEMMA RestIsWork ==
  ASSUME JobTypes, NEW u \in work
  PROVE  \A v \in Rest(u) : v \in Work /\ v.step = "look" /\ v.last <= Len(log)
<1> SUFFICES ASSUME NEW v \in Rest(u)
             PROVE  v \in Work /\ v.step = "look" /\ v.last <= Len(log)
  OBVIOUS
<1>1. u \in Work /\ u.last <= Len(log) /\ log \in Seq(Event)
  BY DEF JobTypes
<1> DEFINE i == u.rev + 1
<1>2. i <= u.last /\ v = [u EXCEPT !.step = "look", !.rev = i, !.job = log[i].job]
  BY DEF Rest
<1>3. i \in 1..Len(log) /\ i \in Nat
  BY <1>1, <1>2 DEF Work
<1> HIDE DEF i
<1>4. log[i].job \in Jobs
  <2>1. log[i] \in Event
    BY <1>1, <1>3
  <2> QED
    BY <2>1 DEF Event
<1>5. v = [u EXCEPT !.step = "look", !.rev = i, !.job = log[i].job]
  BY <1>2
<1>6. v \in Work /\ v.last = u.last
  BY <1>1, <1>3, <1>4, <1>5 DEF Work
<1>7. v.step = "look"
  BY <1>1, <1>5 DEF Work
<1> QED
  BY <1>1, <1>6, <1>7

(* A job that is processed serves the clients that wait for it; the step   *)
(* that marks it as complete finds all of them served.                     *)
LEMMA PerformKeepsJobs ==
  ASSUME JobInv, NEW u \in work,
         Perform(u) \/ ProcessFails(u) \/ CompleteFails(u)
  PROVE  JobInv'
<1> USE DEF etcdVars
<1>1. /\ u \in Work /\ work \subseteq Work
      /\ \A v \in work : v.last <= Len(log)
      /\ \A v \in Rest(u) : v \in Work /\ v.step = "look" /\ v.last <= Len(log)
  BY RestIsWork DEF JobInv, JobTypes
<1>2. CASE Process(u)
  <2> DEFINE done == [u EXCEPT !.step = "complete"]
  <2>1. /\ work' = (work \ {u}) \cup {done}
        /\ served' = served \cup {c \in Clients : JobOf[c] = u.job /\ pc[c] = "wait"}
        /\ UNCHANGED <<log, clientVars, lastJob, jobSeen, listed>>
    BY <1>2 DEF Process
  <2>2. done \in Work /\ done.job = u.job /\ done.last = u.last
    BY <1>1 DEF Work
  <2>3. JobTypes'
    BY <1>1, <2>1, <2>2 DEF JobInv, JobTypes, clientVars
  <2>4. ASSUME NEW c \in Clients, pc'[c] = "wait", c \notin served'
        PROVE  Unserved(c)'
    <3>1. pc[c] = "wait" /\ c \notin served /\ JobOf[c] # u.job
      BY <2>1, <2>4 DEF clientVars
    <3>2. Completing(JobOf[c])' => Completing(JobOf[c])
      BY <2>1, <2>2, <3>1 DEF Completing
    <3> QED
      BY <2>1, <2>3, <3>1, <3>2, EventKeepsUnserved
      DEF JobInv, WaitInv, clientVars
  <2>5. DoneMeansServed'
    BY <2>1 DEF JobInv, WaitInv, DoneMeansServed, clientVars
  <2> QED
    BY <2>3, <2>4, <2>5 DEF JobInv, WaitInv
<1>3. CASE ProcessFails(u) \/ LookAt(u)
  <2> DEFINE go == [u EXCEPT !.step = "process"]
  <2>1. go \in Work /\ go.step = "process" /\ go.last <= Len(log)
    BY <1>1 DEF Work
  <2>2. /\ work' = (work \ {u}) \cup Rest(u) \/ work' = (work \ {u}) \cup {go}
        /\ UNCHANGED <<log, clientVars, served, lastJob, jobSeen, listed>>
    BY <1>3 DEF ProcessFails, LookAt
  <2> HIDE DEF go
  <2>3. /\ work' \subseteq Work /\ \A v \in work' : v.last <= Len(log)
        /\ \A v \in work' : v.step = "complete" => v \in work
    BY <1>1, <2>1, <2>2
  <2>4. JobTypes'
    BY <2>2, <2>3 DEF JobInv, JobTypes, clientVars
  <2> QED
    BY <2>2, <2>3, <2>4, WaitFrame DEF JobInv, Completing
<1>4. CASE Complete(u) \/ CompleteFails(u)
  <2>1. /\ u.step = "complete" /\ work' = (work \ {u}) \cup Rest(u)
        /\ UNCHANGED <<clientVars, served, jobSeen, listed>>
        /\ DeleteKey(u.job) \/ log' = log
    BY <1>4 DEF Complete, CompleteFails
  <2>2. lastJob' \in [Nodes -> Nat]
    BY <1>1, <1>4 DEF Complete, CompleteFails, JobInv, JobTypes, Work
  <2> DEFINE deletion == [job |-> u.job, type |-> "delete"]
  <2>3. deletion \in Event
    BY <1>1 DEF Work, Event
  <2>4. log' = log \/ log' = Append(log, deletion)
    BY <2>1 DEF DeleteKey
  <2>5. log' \in Seq(Event)
    <3>1. log \in Seq(Event)
      BY DEF JobInv, JobTypes
    <3> QED
      BY <2>3, <2>4, <3>1
  <2>6. JobTypes'
    <3>1. Len(log) \in Nat /\ (Len(log') = Len(log) \/ Len(log') = Len(log) + 1)
      BY <2>3, <2>4 DEF JobInv, JobTypes
    <3>2. work' \subseteq Work /\ \A v \in work' : v.last <= Len(log')
      <4>1. \A v \in work' : v \in Work /\ v.last <= Len(log)
        BY <1>1, <2>1
      <4>2. \A v \in work' : v.last \in Nat
        BY <4>1 DEF Work
      <4> QED
        BY <3>1, <4>1, <4>2
    <3> QED
      BY <2>1, <2>2, <2>5, <3>2 DEF JobInv, JobTypes, clientVars
  <2>7. ASSUME NEW c \in Clients, pc'[c] = "wait", c \notin served'
        PROVE  Unserved(c)'
    <3>1. Unserved(c)
      BY <2>1, <2>7 DEF JobInv, WaitInv, clientVars
    <3>2. JobOf[c] # u.job
      BY <2>1, <3>1 DEF Unserved, Completing
    <3>3. deletion # [job |-> JobOf[c], type |-> "delete"]
      BY <3>2
    <3>4. \/ log' = log
          \/ \E e \in Event : /\ log' = Append(log, e)
                              /\ e # [job |-> JobOf[c], type |-> "delete"]
      BY <2>3, <2>4, <3>3
    <3>5. Completing(JobOf[c])' => Completing(JobOf[c])
      BY <1>1, <2>1 DEF Completing
    <3> QED
      BY <2>1, <2>6, <3>1, <3>4, <3>5, EventKeepsUnserved DEF JobInv, clientVars
  <2>8. DoneMeansServed'
    BY <2>1 DEF JobInv, WaitInv, DoneMeansServed, clientVars
  <2> QED
    BY <2>6, <2>7, <2>8 DEF JobInv, WaitInv
<1> QED
  BY <1>2, <1>3, <1>4 DEF Perform

(* The key of the client's job is put again or for the first time.         *)
LEMMA PutKeepsJobs ==
  ASSUME JobInv, NEW c \in Clients, PutJob(c) \/ AddFails(c)
  PROVE  JobInv'
<1>1. /\ UNCHANGED <<lastJob, jobSeen, listed, work>>
      /\ pc[c] # "wait" /\ \E s \in {"wait", "refused"} : pc' = [pc EXCEPT ![c] = s]
      /\ log' = log \/ PutKey(JobOf[c])
  BY DEF PutJob, AddFails, listenVars
<1>2. JobOf[c] \in Jobs
  BY JobsAssumption
<1>3. \/ log' = log
      \/ \E e \in Event : log' = Append(log, e) /\ e.type # "delete"
  BY <1>1, <1>2, PutKeyExists DEF JobInv
<1>4. /\ log' \in Seq(Event) /\ Len(log') \in Nat
      /\ \A u \in work : u.last <= Len(log')
  <2>1. log \in Seq(Event) /\ Len(log) \in Nat
    BY DEF JobInv, JobTypes
  <2>2. log' \in Seq(Event) /\ (Len(log') = Len(log) \/ Len(log') = Len(log) + 1)
    BY <1>3, <2>1
  <2>3. \A u \in work : u.last \in Nat /\ u.last <= Len(log)
    BY DEF JobInv, JobTypes, Work
  <2> QED
    BY <2>1, <2>2, <2>3
<1>5. /\ ask' = ask \/ ask' = [ask EXCEPT ![c] = "get"]
      /\ watch' = watch \/ \E s \in {"on", "starting"} :
                             watch' = [watch EXCEPT ![c] = s]
      /\ since' = since \/ since' = [since EXCEPT ![c] = Len(log')]
      /\ served \subseteq served' /\ served' \subseteq served \cup {c}
  BY DEF PutJob, AddFails, Started
<1>6. JobTypes'
  <2>1. /\ since' \in [Clients -> Nat] /\ served' \subseteq Clients
        /\ ask' \in [Clients -> {"off", "get", "nil", "error"}]
    BY <1>4, <1>5 DEF JobInv, JobTypes
  <2>2. watch' \in [Clients -> {"off", "starting", "on", "nil", "error"}]
    BY <1>5 DEF JobInv, JobTypes
  <2>3. pc' \in [Clients -> {"start", "put", "wait", "done", "refused",
                           "failed", "panicked"}]
    BY <1>1 DEF JobInv, JobTypes
  <2> QED
    BY <1>1, <1>4, <2>1, <2>2, <2>3 DEF JobInv, JobTypes
<1>7. ASSUME NEW d \in Clients, pc'[d] = "wait", d \notin served'
      PROVE  Unserved(d)'
  <2>1. CASE d # c
    <3>1. pc[d] = "wait" /\ d \notin served
      BY <1>1, <1>5, <1>7, <2>1 DEF JobInv, JobTypes
    <3>2. since'[d] = since[d] /\ ask'[d] = ask[d] /\ watch'[d] = watch[d]
      BY <1>5, <2>1 DEF JobInv, JobTypes
    <3>3. \/ log' = log
          \/ \E e \in Event : /\ log' = Append(log, e)
                              /\ e # [job |-> JobOf[d], type |-> "delete"]
      BY <1>3
    <3>4. Completing(JobOf[d])' => Completing(JobOf[d])
      BY <1>1 DEF Completing
    <3> QED
      BY <1>6, <3>1, <3>2, <3>3, <3>4, EventKeepsUnserved DEF JobInv, WaitInv
  <2>2. CASE d = c
    <3>1. PutJob(c)
      BY <1>7, <2>2 DEF AddFails, JobInv, JobTypes
    <3>2. Exists(JobOf[c])'
      BY <1>2, <3>1, PutKeyExists DEF PutJob, JobInv
    <3>3. ~Completing(JobOf[c])'
      BY <1>1, <1>7, <2>2, <3>1 DEF PutJob, Completing
    <3>4. since'[c] = Len(log') /\ ask'[c] = "get" /\ watch'[c] # "nil"
      BY <3>1 DEF PutJob, Started, JobInv, JobTypes
    <3> QED
      BY <1>4, <2>2, <3>2, <3>3, <3>4 DEF Unserved
  <2> QED
    BY <2>1, <2>2
<1>8. DoneMeansServed'
  BY <1>1, <1>5 DEF JobInv, JobTypes, WaitInv, DoneMeansServed
<1> QED
  BY <1>6, <1>7, <1>8 DEF JobInv, WaitInv

(* Only the answer nil says that the job is done.                          *)
LEMMA AnswerKeepsJobs ==
  ASSUME JobInv, NEW c \in Clients, Answer(c)
  PROVE  JobInv'
<1>1. PICK answer \in {"nil", "error"} :
        /\ \/ ask[c] = answer /\ ask' = [ask EXCEPT ![c] = "off"] /\ watch' = watch
           \/ /\ watch[c] = answer /\ ask' = ask
              /\ watch' = [watch EXCEPT ![c] = "off"]
        /\ \/ /\ pc[c] = "wait"
              /\ pc' = [pc EXCEPT ![c] = IF answer = "nil" THEN "done"
                                                          ELSE "failed"]
           \/ pc[c] # "wait" /\ pc' = [pc EXCEPT ![c] = "panicked"]
           \/ pc[c] # "wait" /\ pc' = pc
  BY DEF Answer
<1>2. UNCHANGED <<log, lastJob, jobSeen, listed, work, since, served>>
  BY DEF Answer, etcdVars, listenVars
<1>3. JobTypes'
  <2>1. /\ ask' \in [Clients -> {"off", "get", "nil", "error"}]
        /\ watch' \in [Clients -> {"off", "starting", "on", "nil", "error"}]
    BY <1>1 DEF JobInv, JobTypes
  <2>2. pc' \in [Clients -> {"start", "put", "wait", "done", "refused",
                           "failed", "panicked"}]
    BY <1>1 DEF JobInv, JobTypes
  <2> QED
    BY <1>2, <2>1, <2>2 DEF JobInv, JobTypes
<1>4. ASSUME NEW d \in Clients, pc'[d] = "wait", d \notin served'
      PROVE  Unserved(d)'
  <2>1. pc[d] = "wait" /\ d # c
    BY <1>1, <1>4 DEF JobInv, JobTypes
  <2>2. ask'[d] = ask[d] /\ watch'[d] = watch[d]
    BY <1>1, <2>1 DEF JobInv, JobTypes
  <2>3. Completing(JobOf[d])' => Completing(JobOf[d])
    BY <1>2 DEF Completing
  <2> QED
    BY <1>2, <1>3, <1>4, <2>1, <2>2, <2>3, EventKeepsUnserved
    DEF JobInv, WaitInv
<1>5. ASSUME NEW d \in Clients, pc'[d] = "done" PROVE d \in served'
  <2>1. CASE pc[d] = "done"
    BY <1>2, <2>1 DEF JobInv, WaitInv, DoneMeansServed
  <2>2. CASE pc[d] # "done"
    <3>1. d = c /\ pc[c] = "wait" /\ (ask[c] = "nil" \/ watch[c] = "nil")
      BY <1>1, <1>5, <2>2 DEF JobInv, JobTypes
    <3> QED
      BY <1>2, <3>1 DEF JobInv, WaitInv, Unserved
  <2> QED
    BY <2>1, <2>2
<1> QED
  BY <1>3, <1>4, <1>5 DEF JobInv, WaitInv, DoneMeansServed

LEMMA WaitKeepsJobs ==
  ASSUME JobInv, NEW c \in Clients, Wait(c) \/ GetFails(c) \/ KeyWatchFails(c)
  PROVE  JobInv'
<1> USE DEF etcdVars, listenVars
<1>1. ASSUME UNCHANGED <<log, lastJob, jobSeen, listed, work, served>>,
             pc' = pc \/ \E s \in {"refused", "put"} : pc' = [pc EXCEPT ![c] = s],
             since' = since \/ since' = [since EXCEPT ![c] = Len(log)],
             \/ ask' = ask
             \/ \E s \in {"off", "error"} : ask' = [ask EXCEPT ![c] = s]
             \/ /\ ~Exists(JobOf[c])
                /\ ask' = [ask EXCEPT ![c] = "nil"],
             \/ watch' = watch
             \/ \E s \in {"on", "off", "error"} : watch' = [watch EXCEPT ![c] = s]
             \/ /\ \E i \in since[c] + 1 .. Len(log) : Deleted(JobOf[c], i)
                /\ watch' = [watch EXCEPT ![c] = "nil"]
      PROVE  JobInv'
  <2>1. Len(log) \in Nat
    BY DEF JobInv, JobTypes
  <2>2. since' \in [Clients -> Nat]
    BY <1>1, <2>1 DEF JobInv, JobTypes
  <2>3. /\ ask' \in [Clients -> {"off", "get", "nil", "error"}]
        /\ watch' \in [Clients -> {"off", "starting", "on", "nil", "error"}]
    <3>1. /\ ask \in [Clients -> {"off", "get", "nil", "error"}]
          /\ watch \in [Clients -> {"off", "starting", "on", "nil", "error"}]
      BY DEF JobInv, JobTypes
    <3>2. /\ ask' = ask \/ \E s \in {"off", "nil", "error"} : ask' = [ask EXCEPT ![c] = s]
          /\ \/ watch' = watch
             \/ \E s \in {"on", "off", "nil", "error"} :
                  watch' = [watch EXCEPT ![c] = s]
      BY <1>1
    <3> QED
      BY <3>1, <3>2
  <2>4. pc' \in [Clients -> {"start", "put", "wait", "done", "refused",
                           "failed", "panicked"}]
    BY <1>1 DEF JobInv, JobTypes
  <2>5. JobTypes'
    BY <1>1, <2>2, <2>3, <2>4 DEF JobInv, JobTypes
  <2>6. ASSUME NEW d \in Clients, pc'[d] = "wait", d \notin served'
        PROVE  Unserved(d)'
    <3>1. pc[d] = "wait" /\ Unserved(d)
      BY <1>1, <2>6 DEF JobInv, JobTypes, WaitInv
    <3>2. Exists(JobOf[d])' /\ ~Completing(JobOf[d])'
      BY <1>1, <3>1 DEF Unserved, Exists, Completing
    <3>3. ask'[d] # "nil" /\ watch'[d] # "nil"
      BY <1>1, <3>1 DEF Unserved, JobInv, JobTypes
    <3>4. since'[d] = since[d] \/ since'[d] = Len(log)
      BY <1>1 DEF JobInv, JobTypes
    <3> QED
      BY <1>1, <2>1, <3>1, <3>2, <3>3, <3>4 DEF Unserved, Deleted
  <2>7. DoneMeansServed'
    BY <1>1 DEF JobInv, JobTypes, WaitInv, DoneMeansServed
  <2> QED
    BY <2>5, <2>6, <2>7 DEF JobInv, WaitInv
<1>2. CASE CheckLeader(c)
  BY <1>1, <1>2 DEF CheckLeader
<1>3. CASE PutJob(c)
  BY <1>3, PutKeepsJobs
<1>4. CASE WatchKey(c)
  BY <1>1, <1>4 DEF WatchKey
<1>5. CASE KeyEvent(c)
  BY <1>1, <1>5 DEF KeyEvent, Deleted
<1>6. WatchCancel(c) => watch' = watch \/ watch' = [watch EXCEPT ![c] = "off"]
  BY DEF WatchCancel, JobInv, JobTypes
<1>7. CASE GetKey(c)
  BY <1>1, <1>6, <1>7 DEF GetKey
<1>8. CASE GetFails(c)
  BY <1>1, <1>6, <1>8 DEF GetFails
<1>9. CASE Answer(c)
  BY <1>9, AnswerKeepsJobs
<1>10. CASE KeyWatchFails(c)
  BY <1>1, <1>10 DEF KeyWatchFails
<1> QED
  BY <1>2, <1>3, <1>4, <1>5, <1>7, <1>8, <1>9, <1>10 DEF Wait

LEMMA JobNext == JobInv /\ [Next]_vars => JobInv'
<1> SUFFICES ASSUME JobInv, [Next]_vars PROVE JobInv'
  OBVIOUS
<1> USE DEF etcdVars, listenVars
<1>1. ASSUME UNCHANGED <<log, lastJob, jobSeen, listed, work, clientVars, served>>
      PROVE  JobInv'
  BY <1>1, WaitFrame DEF JobInv, JobTypes, Completing, clientVars
<1>2. CASE UNCHANGED vars
  BY <1>1, <1>2 DEF vars
<1>3. ASSUME NEW n \in Nodes, Elect(n) PROVE JobInv'
  BY <1>1, <1>3
  DEF Elect, WatchLeader, FirstAttempt, Reacquire, LeaderEvent
<1>4. ASSUME NEW n \in Nodes, Manage(n) \/ Listen(n) PROVE JobInv'
  BY <1>4, ManageKeepsJobs
<1>5. ASSUME NEW n \in Nodes, AttemptFails(n) \/ ListFails(n) \/ Crash(n)
      PROVE  JobInv'
  <2>1. UNCHANGED <<log, clientVars, served>>
    BY <1>5 DEF AttemptFails, ListFails, Crash
  <2>2. \/ Stop(n)
        \/ UNCHANGED <<lastJob, jobSeen, listed, work>>
    BY <1>5 DEF AttemptFails, ListFails, Crash
  <2> QED
    BY <1>1, <2>1, <2>2, StopKeepsJobs
<1>6. ASSUME NEW u \in work, Perform(u) \/ ProcessFails(u) \/ CompleteFails(u)
      PROVE  JobInv'
  BY <1>6, PerformKeepsJobs
<1>7. ASSUME NEW c \in Clients,
             Wait(c) \/ AddFails(c) \/ GetFails(c) \/ KeyWatchFails(c)
      PROVE  JobInv'
  BY <1>7, WaitKeepsJobs, PutKeepsJobs
<1>8. CASE ExpireLeader
  BY <1>1, <1>8 DEF ExpireLeader
<1> QED
  BY <1>2, <1>3, <1>4, <1>5, <1>6, <1>7, <1>8 DEF Next

(* WaitForJob answers nil only to a client whose job was processed after   *)
(* it was added, whatever else is processed, fails or crashes.             *)
THEOREM DoneMeansServedAlways == Spec => []DoneMeansServed
<1>1. JobInv => DoneMeansServed
  BY DEF JobInv, WaitInv
<1> QED
  BY <1>1, JobInit, JobNext, PTL DEF Spec

-----------------------------------------------------------------------------
(* The lock *)

(* Every process has a lease of its own, granted by etcd.                  *)
LeasesInv ==
  /\ \A p \in Procs : lease[p] <= granted
  /\ \A p, q \in Procs : lease[p] = lease[q] /\ lease[p] # 0 => p = q

LockInv == LockTypeOK /\ LeasesInv /\ LiveOwnerHasKey

LEMMA LockStarts == LockInit => LockInv
<1> SUFFICES ASSUME LockInit PROVE LockInv
  OBVIOUS
<1>1. /\ place \in [Procs -> {"idle", "trying", "critical"}]
      /\ lease \in [Procs -> Nat]
      /\ tries \in [Procs -> 0..MaxTries]
  BY TriesAssumption DEF LockInit
<1>2. \A p \in Procs : lease[p] = 0 /\ place[p] = "idle"
  BY DEF LockInit
<1> QED
  BY <1>1, <1>2 DEF LockInit, LockInv, LockTypeOK, LeasesInv, LiveOwnerHasKey

LEMMA LockSteps == LockInv /\ [LockNext]_lockVars => LockInv'
<1> SUFFICES ASSUME LockInv, [LockNext]_lockVars PROVE LockInv'
  OBVIOUS
<1> USE TriesAssumption
    DEF LockInv, LockTypeOK, LeasesInv, LiveOwnerHasKey, Goto, Drop
<1>1. ASSUME NEW p \in Procs, Grant(p) PROVE LockInv'
  <2>1. /\ granted' = granted + 1
        /\ live' = live \cup {granted'}
        /\ lease' = [lease EXCEPT ![p] = granted']
        /\ tries' = [tries EXCEPT ![p] = MaxTries]
        /\ place' = [place EXCEPT ![p] = "trying"]
        /\ lockKey' = lockKey
    BY <1>1 DEF Grant
  <2>2. LockTypeOK'
    BY <2>1
  <2>3. LeasesInv'
    BY <2>1
  <2>4. LiveOwnerHasKey'
    BY <2>1
  <2> QED
    BY <2>2, <2>3, <2>4
<1>2. ASSUME NEW p \in Procs, TrySucceeds(p) PROVE LockInv'
  BY <1>2 DEF TrySucceeds
<1>3. ASSUME NEW p \in Procs, TryRefused(p) PROVE LockInv'
  BY <1>3 DEF TryRefused
<1>4. ASSUME NEW p \in Procs, TryLost(p) PROVE LockInv'
  BY <1>4 DEF TryLost
<1>5. ASSUME NEW p \in Procs, TryBusy(p) PROVE LockInv'
  BY <1>5 DEF TryBusy
<1>6. ASSUME NEW p \in Procs, GiveUp(p) PROVE LockInv'
  BY <1>6 DEF GiveUp
<1>7. ASSUME NEW p \in Procs, Release(p) PROVE LockInv'
  BY <1>7 DEF Release
<1>8. ASSUME NEW p \in Procs, ProcessEnds(p) PROVE LockInv'
  BY <1>8 DEF ProcessEnds
<1>9. ASSUME NEW l \in live, Expire(l) PROVE LockInv'
  BY <1>9 DEF Expire
<1>10. CASE UNCHANGED lockVars
  BY <1>10 DEF lockVars
<1> QED
  BY <1>1, <1>2, <1>3, <1>4, <1>5, <1>6, <1>7, <1>8, <1>9, <1>10
  DEF LockNext, Acquire

(* A process in its critical section whose lease is alive owns the key.    *)
THEOREM LiveOwnerAlways == LockSpec => [](LockTypeOK /\ LiveOwnerHasKey)
<1>1. LockInv => LockTypeOK /\ LiveOwnerHasKey
  BY DEF LockInv
<1> QED
  BY <1>1, LockStarts, LockSteps, PTL DEF LockSpec

(* Two processes are in their critical sections together only when the     *)
(* lease of one of them has expired.                                       *)
THEOREM ExclusiveAlways == LockSpec => []ExclusiveWhileLive
<1>1. LockInv => ExclusiveWhileLive
  BY DEF LockInv, LockTypeOK, LeasesInv, LiveOwnerHasKey, ExclusiveWhileLive
<1> QED
  BY <1>1, LockStarts, LockSteps, PTL DEF LockSpec

(* The owners of the abstract lock.                                        *)
Owners == {p \in Inside : lockKey # 0 /\ lease[p] = lockKey}

LEMMA LockStepsImplement ==
  ASSUME LockInv, [LockNext]_lockVars
  PROVE  [Lock!Next]_(Lock!vars)
<1> USE DEF Owners, Inside
<1> DEFINE Same == UNCHANGED <<Inside, Owners, lockKey>>
<1>1. Same => UNCHANGED Lock!vars
  BY DEF Lock!vars
<1>2. /\ place \in [Procs -> {"idle", "trying", "critical"}]
      /\ lease \in [Procs -> Nat] /\ granted \in Nat
      /\ live \subseteq 1..granted /\ lockKey \in {0} \cup live
      /\ \A p \in Procs : lease[p] <= granted
      /\ \A p, q \in Procs : lease[p] = lease[q] /\ lease[p] # 0 => p = q
  BY DEF LockInv, LockTypeOK, LeasesInv
<1>3. ASSUME NEW p \in Procs, Grant(p) PROVE Same
  BY <1>2, <1>3 DEF Grant, Goto
<1>4. ASSUME NEW p \in Procs, TrySucceeds(p) PROVE Lock!Next
  <2>1. Inside' = Inside \cup {p} /\ p \notin Inside
    BY <1>2, <1>4 DEF TrySucceeds, Goto
  <2>2. Owners' = {p}
    BY <1>2, <1>4, <2>1 DEF TrySucceeds, Goto
  <2>3. lockKey = 0 /\ lockKey' # 0
    BY <1>2, <1>4 DEF TrySucceeds
  <2>4. Lock!Enter(p)
    BY <2>1, <2>2, <2>3 DEF Lock!Enter
  <2> QED
    BY <2>4 DEF Lock!Next
<1>5. ASSUME NEW p \in Procs, TryLost(p)
      PROVE  Lock!EnterUnanswered \/ Same
  <2>1. Inside' = Inside /\ p \notin Inside
    BY <1>2, <1>5 DEF TryLost, Goto
  <2>2. CASE lockKey' = lockKey
    BY <1>5, <2>1, <2>2 DEF TryLost
  <2>3. CASE lockKey = 0 /\ lease[p] \in live /\ lockKey' = lease[p]
    <3>1. Owners = {} /\ Owners' = {}
      BY <1>2, <1>5, <2>1, <2>3 DEF TryLost
    <3> QED
      BY <1>2, <2>1, <2>3, <3>1 DEF Lock!EnterUnanswered
  <2> QED
    BY <1>5, <2>2, <2>3 DEF TryLost
<1>6. ASSUME NEW p \in Procs, TryRefused(p) \/ TryBusy(p) \/ GiveUp(p)
      PROVE  Same
  BY <1>2, <1>6 DEF TryRefused, TryBusy, GiveUp, Goto
<1>7. ASSUME NEW p \in Procs, Release(p) \/ (ProcessEnds(p) /\ p \in Inside)
      PROVE  Lock!Next
  <2>1. p \in Inside /\ Inside' = Inside \ {p}
    BY <1>2, <1>7 DEF Release, ProcessEnds, Goto
  <2>2. \/ UNCHANGED lockKey
        \/ p \in Owners /\ lockKey' = 0
    BY <1>2, <1>7, <2>1 DEF Release, ProcessEnds, Drop
  <2>3. Owners' = Owners \ {p}
    BY <1>2, <1>7, <2>1, <2>2 DEF Release, ProcessEnds
  <2>4. Lock!Leave({p})
    BY <2>1, <2>2, <2>3 DEF Lock!Leave
  <2> QED
    BY <2>4 DEF Lock!Next
<1>8. ASSUME NEW p \in Procs, ProcessEnds(p), p \notin Inside
      PROVE  Same
  BY <1>2, <1>8 DEF ProcessEnds
<1>9. ASSUME NEW l \in live, Expire(l)
      PROVE  Lock!Expire \/ Same
  BY <1>9 DEF Expire, Drop, Lock!Expire
<1>10. UNCHANGED lockVars => Same
  BY DEF lockVars
<1> HIDE DEF Same, Inside, Owners
<1> QED
  BY <1>1, <1>3, <1>4, <1>5, <1>6, <1>7, <1>8, <1>9, <1>10
  DEF LockNext, Acquire, Lock!Next

(* Every step of the lock, answers that are lost and leases that expire    *)
(* among them, is one that ClusterLock promises, or none at all.           *)
THEOREM LockImplementation == LockSpec => ImplementsLock
<1>1. LockInit => Lock!Init
  BY DEF LockInit, Lock!Init, Inside
<1> QED
  BY <1>1, LockStarts, LockSteps, LockStepsImplement, PTL
  DEF LockSpec, ImplementsLock, Lock!Spec
=============================================================================
