------------------------------ MODULE JobsEtcd ------------------------------
(***************************************************************************)
(* The jobs of a cluster: the controller of src/worker/controller-etcd.go. *)
(*                                                                         *)
(* A node becomes the leader by creating a key of etcd, attached to a      *)
(* lease; it learns that it is the leader from its own watch of that key.  *)
(* The leader watches the keys of the jobs and lists those that exist.     *)
(* Clients (a sync that lacks a certificate, the monitors) put a job's     *)
(* key and wait until it is deleted: they watch the key and get it once.   *)
(*                                                                         *)
(* A watch reports the events after its registration.  It is registered by *)
(* a goroutine of its own, so the request that the code makes next may be  *)
(* answered before.                                                        *)
(***************************************************************************)
EXTENDS Naturals, Sequences

CONSTANTS
  Nodes,      (* nodes that may become the leader                          *)
  Clients,    (* goroutines that add a job and wait for it                 *)
  Jobs,       (* the identifiers of the jobs                               *)
  JobOf,      (* the job of each client: it is computed from its data      *)
  Nobody,     (* there is no leader key                                    *)
  Scenarios   (* what the environment does: a set of the records below     *)

(* The nodes and clients that take part; prompt: a watch is registered at  *)
(* once, and the leader's key is not lost before every node has tried to   *)
(* create it; what may go wrong, and how often.                            *)
Scenario == [nodes : SUBSET Nodes, clients : SUBSET Clients, prompt : BOOLEAN,
             faults : SUBSET {"error", "lease", "job", "crash"},
             maxFaults : Nat]

ASSUME JobsAssumption == JobOf \in [Clients -> Jobs]
ASSUME NobodyAssumption == Nobody \notin Nodes
ASSUME ScenariosAssumption == Scenarios \subseteq Scenario

VARIABLES
  (* etcd *)
  leaders,    (* the values the leader's key has had: Nobody when deleted  *)
  unkept,     (* nobody keeps the lease of the leader's key alive          *)
  log,        (* the events of the keys of the jobs; an event's index is   *)
              (* its revision                                              *)
  (* nodes *)
  up,         (* the processes that run                                    *)
  tried,      (* nodes whose first attempt to become leader is over        *)
  watching,   (* nodes whose watch of the leader's key is registered       *)
  leaderSeen, (* how much of leaders each node has received                *)
  watcher,    (* the watcher: idle, acquire (about to try) or send         *)
  first,      (* the goroutine of the first attempt: idle or send          *)
  isLeader,   (* the field of that name: a set of nodes                    *)
  manager,    (* the goroutine that reads leaderChan                       *)
  jobWatch,   (* the watch of the jobs: off, starting or on                *)
  jobSeen,    (* how much of log it has received                           *)
  lastJob,    (* the field lastJobRevision                                 *)
  listed,     (* the jobs that the leader has listed, still to process     *)
  work,       (* jobs under way, and what watchers that were cancelled     *)
              (* have still to look at: [node, job, by, step, rev, last]   *)
  (* clients *)
  pc,         (* start, put, wait (for an answer), then how it has ended   *)
  ask,        (* its WaitForJob: get, or the answer it is about to send    *)
  watch,      (* the watch of its job: off, starting, on or its answer     *)
  since,      (* the revision at which that watch was registered           *)
  (* history, and the environment *)
  served,     (* clients whose job was processed since they added it       *)
  scenario, faults

etcdVars == <<leaders, unkept, log>>
electVars == <<tried, watching, leaderSeen, watcher, first, isLeader>>
listenVars == <<manager, jobWatch, jobSeen, lastJob, listed, work>>
clientVars == <<pc, ask, watch, since>>
vars == <<etcdVars, up, electVars, listenVars, clientVars, served, scenario,
          faults>>

Event == [job : Jobs, type : {"create", "modify", "delete"}]
Work == [node : Nodes, job : Jobs, by : {"watch", "list", "cancelled"},
         step : {"look", "process", "complete"}, rev : Nat, last : Nat]

Leader == IF leaders = <<>> THEN Nobody ELSE leaders[Len(leaders)]

(* The key of a job exists: the last event of the job is not its deletion. *)
Exists(j) ==
  \E i \in 1..Len(log) :
    /\ log[i].job = j /\ log[i].type # "delete"
    /\ \A k \in i+1..Len(log) : log[k].job # j

TypeOK ==
  /\ \A i \in DOMAIN leaders : leaders[i] \in Nodes \cup {Nobody}
  /\ unkept \in BOOLEAN
  /\ \A i \in DOMAIN log : log[i] \in Event
  /\ up \subseteq Nodes /\ tried \subseteq Nodes
  /\ watching \subseteq Nodes /\ isLeader \subseteq Nodes
  /\ leaderSeen \in [Nodes -> 0..Len(leaders)]
  /\ watcher \in [Nodes -> {"idle", "acquire", "send"}]
  /\ first \in [Nodes -> {"idle", "send"}]
  /\ manager \in [Nodes -> {"receive", "get", "list"}]
  /\ jobWatch \in [Nodes -> {"off", "starting", "on"}]
  /\ jobSeen \in [Nodes -> 0..Len(log)]
  /\ lastJob \in [Nodes -> 0..Len(log)]
  /\ listed \in [Nodes -> SUBSET Jobs]
  /\ work \subseteq Work
  /\ \A u, v \in work : u.node = v.node /\ u.by = v.by /\ u.by # "cancelled"
                        => u = v
  /\ pc \in [Clients -> {"start", "put", "wait", "done", "refused", "failed",
                         "panicked"}]
  /\ ask \in [Clients -> {"off", "get", "nil", "error"}]
  /\ watch \in [Clients -> {"off", "starting", "on", "nil", "error"}]
  /\ since \in [Clients -> 0..Len(log)]
  /\ served \subseteq Clients
  /\ scenario \in Scenarios /\ faults \in Nat

Init ==
  /\ leaders = <<>> /\ unkept = FALSE /\ log = <<>>
  /\ scenario \in Scenarios /\ faults = 0
  /\ up = scenario.nodes /\ tried = {} /\ isLeader = {}
  /\ watching = IF scenario.prompt THEN up ELSE {}
  /\ leaderSeen = [n \in Nodes |-> 0]
  /\ watcher = [n \in Nodes |-> "idle"]
  /\ first = [n \in Nodes |-> "idle"]
  /\ manager = [n \in Nodes |-> "receive"]
  /\ jobWatch = [n \in Nodes |-> "off"]
  /\ jobSeen = [n \in Nodes |-> 0]
  /\ lastJob = [n \in Nodes |-> 0]
  /\ listed = [n \in Nodes |-> {}]
  /\ work = {}
  /\ pc = [c \in Clients |-> IF c \in scenario.clients THEN "start"
                                                      ELSE "refused"]
  /\ watch = [c \in Clients |-> "off"]
  /\ ask = [c \in Clients |-> "off"]
  /\ since = [c \in Clients |-> 0]
  /\ served = {}

Fault(kind) ==
  /\ kind \in scenario.faults
  /\ faults < scenario.maxFaults
  /\ faults' = faults + 1

(* The process of n ends, with all of its goroutines.                      *)
Stop(n) ==
  /\ up' = up \ {n}
  /\ tried' = tried \cup {n} /\ watching' = watching \ {n}
  /\ isLeader' = isLeader \ {n}
  /\ watcher' = [watcher EXCEPT ![n] = "idle"]
  /\ first' = [first EXCEPT ![n] = "idle"]
  /\ manager' = [manager EXCEPT ![n] = "receive"]
  /\ jobWatch' = [jobWatch EXCEPT ![n] = "off"]
  /\ listed' = [listed EXCEPT ![n] = {}]
  /\ work' = {u \in work : u.node # n}
  /\ leaderSeen' = [leaderSeen EXCEPT ![n] = 0]
  /\ jobSeen' = [jobSeen EXCEPT ![n] = 0]
  /\ lastJob' = [lastJob EXCEPT ![n] = 0]

-----------------------------------------------------------------------------
(* Election *)

WatchLeader(n) ==
  /\ n \in up \ watching
  /\ watching' = watching \cup {n}
  /\ leaderSeen' = [leaderSeen EXCEPT ![n] = Len(leaders)]
  /\ UNCHANGED <<etcdVars, up, tried, watcher, first, isLeader, listenVars,
                 clientVars, served, scenario, faults>>

(* setLeader in one of the two goroutines: a change of the field is        *)
(* followed by a send, which blocks.                                       *)
SetLeader(n, set, goroutine) ==
  IF (n \in isLeader) = set
  THEN UNCHANGED isLeader /\ goroutine' = [goroutine EXCEPT ![n] = "idle"]
  ELSE /\ isLeader' = IF set THEN isLeader \cup {n} ELSE isLeader \ {n}
       /\ goroutine' = [goroutine EXCEPT ![n] = "send"]

(* acquireLeadership: the leader's key is created if there is none.  The   *)
(* node does not become the leader here, it waits for the event.           *)
TryLeadership(n, goroutine) ==
  IF Leader = Nobody
  THEN /\ leaders' = Append(leaders, n)
       /\ unkept' = FALSE
       /\ goroutine' = [goroutine EXCEPT ![n] = "idle"]
       /\ UNCHANGED isLeader
  ELSE /\ SetLeader(n, FALSE, goroutine)
       /\ UNCHANGED <<leaders, unkept>>

FirstAttempt(n) ==
  /\ n \in up \ tried
  /\ tried' = tried \cup {n}
  /\ TryLeadership(n, first)
  /\ UNCHANGED <<log, up, watching, leaderSeen, watcher, listenVars,
                 clientVars, served, scenario, faults>>

Reacquire(n) ==
  /\ n \in up /\ watcher[n] = "acquire"
  /\ TryLeadership(n, watcher)
  /\ UNCHANGED <<log, up, tried, watching, leaderSeen, first, listenVars,
                 clientVars, served, scenario, faults>>

(* The attempt fails, with or without the key: nobody keeps its lease      *)
(* then.  The first attempt ends the process; the watcher goes on.         *)
AttemptFails(n) ==
  /\ n \in up
  /\ Fault("error")
  /\ \/ UNCHANGED <<leaders, unkept>>
     \/ /\ Leader = Nobody
        /\ leaders' = Append(leaders, n)
        /\ unkept' = TRUE
  /\ \/ n \notin tried /\ Stop(n)
     \/ /\ watcher[n] = "acquire"
        /\ watcher' = [watcher EXCEPT ![n] = "idle"]
        /\ UNCHANGED <<up, tried, watching, leaderSeen, first, isLeader,
                       listenVars>>
  /\ UNCHANGED <<log, clientVars, served, scenario>>

(* Mutant: a node goes on leading when another one has become the leader.  *)
LeaderEvent_KeepsLeading(n) ==
  /\ n \in up \cap watching /\ watcher[n] = "idle"
  /\ \E i \in leaderSeen[n] + 1 .. Len(leaders) :
       /\ leaderSeen' = [leaderSeen EXCEPT ![n] = i]
       /\ CASE leaders[i] = Nobody ->
                 /\ watcher' = [watcher EXCEPT ![n] = "acquire"]
                 /\ UNCHANGED isLeader
            [] leaders[i] = n -> SetLeader(n, TRUE, watcher)
            [] OTHER -> UNCHANGED <<watcher, isLeader>>
  /\ UNCHANGED <<etcdVars, up, tried, watching, first, listenVars, clientVars,
                 served, scenario, faults>>

(* The last of the events that have arrived.                               *)
LeaderEvent(n) ==
  /\ n \in up \cap watching /\ watcher[n] = "idle"
  /\ \E i \in leaderSeen[n] + 1 .. Len(leaders) :
       /\ leaderSeen' = [leaderSeen EXCEPT ![n] = i]
       /\ IF leaders[i] = Nobody
          THEN /\ watcher' = [watcher EXCEPT ![n] = "acquire"]
               /\ UNCHANGED isLeader
          ELSE SetLeader(n, leaders[i] = n, watcher)
  /\ UNCHANGED <<etcdVars, up, tried, watching, first, listenVars, clientVars,
                 served, scenario, faults>>

(* A prompt environment loses no leader before every node has tried.       *)
InTime == scenario.prompt => up \subseteq tried

(* The lease of the leader's key expires.                                  *)
ExpireLeader ==
  /\ Leader # Nobody
  /\ IF unkept \/ Leader \notin up
     THEN UNCHANGED faults
     ELSE Fault("lease") /\ InTime
  /\ leaders' = Append(leaders, Nobody)
  /\ UNCHANGED <<unkept, log, up, electVars, listenVars, clientVars, served,
                 scenario>>

(* Also the end of the watch of the leader or of the jobs, with an error.  *)
Crash(n) ==
  /\ n \in up
  /\ Fault("crash") /\ InTime
  /\ Stop(n)
  /\ UNCHANGED <<etcdVars, clientVars, served, scenario>>

-----------------------------------------------------------------------------
(* The leader listens for jobs *)

(* A watch that the code starts now: its state and what it has seen.       *)
Started == IF scenario.prompt THEN "on" ELSE "starting"

Busy(n, by) == \E u \in work : u.node = n /\ u.by = by

(* The watchers of the jobs that work on a node: its current one cancelled,*)
(* with the events up to last in the response it has received.  It goes on *)
(* with the job it is processing and then with these events.               *)
Cancelled(n, last) ==
  {IF u.node = n /\ u.by = "watch"
   THEN [u EXCEPT !.by = "cancelled", !.last = last] ELSE u : u \in work}
  \cup
  {[node |-> n, job |-> log[i].job, by |-> "cancelled", step |-> "look",
    rev |-> i, last |-> last] :
     i \in {k \in {jobSeen[n] + 1} : k <= last /\ ~Busy(n, "watch")}}

(* A change of leadership is received: what listened before is cancelled.  *)
(* Then a node that is the leader now starts to listen.                    *)
ReceiveChange(n) ==
  /\ manager[n] = "receive"
  /\ \/ /\ first[n] = "send"
        /\ first' = [first EXCEPT ![n] = "idle"]
        /\ UNCHANGED watcher
     \/ /\ watcher[n] = "send"
        /\ watcher' = [watcher EXCEPT ![n] = "idle"]
        /\ UNCHANGED first
  /\ IF jobWatch[n] = "on"
     THEN \E last \in jobSeen[n] .. Len(log) : work' = Cancelled(n, last)
     ELSE UNCHANGED work
  /\ IF n \in isLeader
     THEN /\ manager' = [manager EXCEPT ![n] = "get"]
          /\ jobWatch' = [jobWatch EXCEPT ![n] = Started]
          /\ jobSeen' = [jobSeen EXCEPT ![n] = Len(log)]
          /\ lastJob' = [lastJob EXCEPT ![n] = 0]
     ELSE /\ jobWatch' = [jobWatch EXCEPT ![n] = "off"]
          /\ UNCHANGED <<manager, jobSeen, lastJob>>
  /\ UNCHANGED <<etcdVars, up, tried, watching, leaderSeen, isLeader, listed,
                 clientVars, served, scenario, faults>>

WatchJobs(n) ==
  /\ jobWatch[n] = "starting"
  /\ jobWatch' = [jobWatch EXCEPT ![n] = "on"]
  /\ jobSeen' = [jobSeen EXCEPT ![n] = Len(log)]
  /\ UNCHANGED <<etcdVars, up, electVars, manager, lastJob, listed, work,
                 clientVars, served, scenario, faults>>

(* Mutant: the revision that is kept is the next one.                      *)
ListJobs_OffByOne(n) ==
  /\ manager[n] = "get"
  /\ manager' = [manager EXCEPT ![n] = "list"]
  /\ lastJob' = [lastJob EXCEPT ![n] = Len(log) + 1]
  /\ listed' = [listed EXCEPT ![n] = {j \in Jobs : Exists(j)}]
  /\ UNCHANGED <<etcdVars, up, electVars, jobWatch, jobSeen, work, clientVars,
                 served, scenario, faults>>

ListJobs(n) ==
  /\ manager[n] = "get"
  /\ manager' = [manager EXCEPT ![n] = "list"]
  /\ lastJob' = [lastJob EXCEPT ![n] = Len(log)]
  /\ listed' = [listed EXCEPT ![n] = {j \in Jobs : Exists(j)}]
  /\ UNCHANGED <<etcdVars, up, electVars, jobWatch, jobSeen, work, clientVars,
                 served, scenario, faults>>

(* An error of listenForJobs ends the process.                             *)
ListFails(n) ==
  /\ manager[n] = "get"
  /\ Fault("error")
  /\ Stop(n)
  /\ UNCHANGED <<etcdVars, clientVars, served, scenario>>

Begin(n, j, by, rev) ==
  work' = work \cup {[node |-> n, job |-> j, by |-> by, step |-> "process",
                      rev |-> rev, last |-> rev]}

NextListed(n) ==
  /\ manager[n] = "list" /\ ~Busy(n, "list")
  /\ \E j \in listed[n] :
       /\ listed' = [listed EXCEPT ![n] = @ \ {j}]
       /\ Begin(n, j, "list", 0)
  /\ UNCHANGED <<etcdVars, up, electVars, manager, jobWatch, jobSeen, lastJob,
                 clientVars, served, scenario, faults>>

ListDone(n) ==
  /\ manager[n] = "list" /\ ~Busy(n, "list")
  /\ listed[n] = {}
  /\ manager' = [manager EXCEPT ![n] = "receive"]
  /\ UNCHANGED <<etcdVars, up, electVars, jobWatch, jobSeen, lastJob, listed,
                 work, clientVars, served, scenario, faults>>

(* Only the creation of a key that is newer than the list is a new job.    *)
JobEvent(n) ==
  /\ jobWatch[n] = "on" /\ ~Busy(n, "watch")
  /\ jobSeen[n] < Len(log)
  /\ jobSeen' = [jobSeen EXCEPT ![n] = @ + 1]
  /\ LET i == jobSeen[n] + 1 IN
     IF log[i].type = "create" /\ i > lastJob[n]
     THEN Begin(n, log[i].job, "watch", i)
     ELSE UNCHANGED work
  /\ UNCHANGED <<etcdVars, up, electVars, manager, jobWatch, lastJob, listed,
                 clientVars, served, scenario, faults>>

(* What a goroutine has left to do when it is done with u: the next event  *)
(* of the response, when its watcher was cancelled.                        *)
Rest(u) ==
  {[u EXCEPT !.step = "look", !.rev = i, !.job = log[i].job] :
     i \in {k \in {u.rev + 1} : u.by = "cancelled" /\ k <= u.last}}

LookAt(u) ==
  /\ u.step = "look"
  /\ work' = (work \ {u}) \cup
               IF log[u.rev].type = "create" /\ u.rev > lastJob[u.node]
               THEN {[u EXCEPT !.step = "process"]} ELSE Rest(u)
  /\ UNCHANGED <<etcdVars, up, electVars, manager, jobWatch, jobSeen, lastJob,
                 listed, clientVars, served, scenario, faults>>

(* ProcessJob; the clients that wait for the job have been served.         *)
Process(u) ==
  /\ u.step = "process"
  /\ work' = (work \ {u}) \cup {[u EXCEPT !.step = "complete"]}
  /\ served' = served \cup {c \in Clients : JobOf[c] = u.job /\ pc[c] = "wait"}
  /\ UNCHANGED <<etcdVars, up, electVars, manager, jobWatch, jobSeen, lastJob,
                 listed, clientVars, scenario, faults>>

(* Mutant: a job is marked as complete also after an error.                *)
ProcessFails_Complete(u) ==
  /\ u.step = "process"
  /\ Fault("job")
  /\ work' = (work \ {u}) \cup {[u EXCEPT !.step = "complete"]}
  /\ UNCHANGED <<etcdVars, up, electVars, manager, jobWatch, jobSeen, lastJob,
                 listed, clientVars, served, scenario>>

(* The key of a job that has failed stays.                                 *)
ProcessFails(u) ==
  /\ u.step = "process"
  /\ Fault("job")
  /\ work' = (work \ {u}) \cup Rest(u)
  /\ UNCHANGED <<etcdVars, up, electVars, manager, jobWatch, jobSeen, lastJob,
                 listed, clientVars, served, scenario>>

DeleteKey(j) ==
  log' = IF Exists(j) THEN Append(log, [job |-> j, type |-> "delete"]) ELSE log

Complete(u) ==
  /\ u.step = "complete"
  /\ DeleteKey(u.job)
  /\ work' = (work \ {u}) \cup Rest(u)
  /\ lastJob' = IF u.by = "list" THEN lastJob
                 ELSE [lastJob EXCEPT ![u.node] = u.rev]
  /\ UNCHANGED <<leaders, unkept, up, electVars, manager, jobWatch, jobSeen,
                 listed, clientVars, served, scenario, faults>>

CompleteFails(u) ==
  /\ u.step = "complete"
  /\ Fault("error")
  /\ DeleteKey(u.job) \/ UNCHANGED log
  /\ work' = (work \ {u}) \cup Rest(u)
  /\ UNCHANGED <<leaders, unkept, up, electVars, manager, jobWatch, jobSeen,
                 lastJob, listed, clientVars, served, scenario>>

-----------------------------------------------------------------------------
(* AddJob and WaitForJob *)

CheckLeader(c) ==
  /\ pc[c] = "start"
  /\ pc' = [pc EXCEPT ![c] = IF Leader = Nobody THEN "refused" ELSE "put"]
  /\ UNCHANGED <<etcdVars, up, electVars, listenVars, ask, watch, since,
                 served, scenario, faults>>

PutKey(j) ==
  log' = Append(log, [job |-> j, type |-> IF Exists(j) THEN "modify"
                                                       ELSE "create"])

(* A job that was processed and has not been deleted yet serves the client *)
(* as well.                                                                *)
PutJob(c) ==
  /\ pc[c] = "put"
  /\ PutKey(JobOf[c])
  /\ pc' = [pc EXCEPT ![c] = "wait"]
  /\ ask' = [ask EXCEPT ![c] = "get"]
  /\ watch' = [watch EXCEPT ![c] = Started]
  /\ since' = [since EXCEPT ![c] = Len(log')]
  /\ served' = IF \E u \in work : u.job = JobOf[c] /\ u.step = "complete"
                THEN served \cup {c} ELSE served
  /\ UNCHANGED <<leaders, unkept, up, electVars, listenVars, scenario,
                 faults>>

(* AddJob fails, with or without a job.                                    *)
AddFails(c) ==
  /\ pc[c] \in {"start", "put"}
  /\ Fault("error")
  /\ \/ UNCHANGED log
     \/ pc[c] = "put" /\ PutKey(JobOf[c])
  /\ pc' = [pc EXCEPT ![c] = "refused"]
  /\ UNCHANGED <<leaders, unkept, up, electVars, listenVars, ask, watch, since,
                 served, scenario>>

WatchKey(c) ==
  /\ watch[c] = "starting"
  /\ watch' = [watch EXCEPT ![c] = "on"]
  /\ since' = [since EXCEPT ![c] = Len(log)]
  /\ UNCHANGED <<etcdVars, up, electVars, listenVars, pc, ask, served,
                 scenario, faults>>

KeyEvent(c) ==
  /\ watch[c] = "on"
  /\ \E i \in since[c] + 1 .. Len(log) :
       log[i] = [job |-> JobOf[c], type |-> "delete"]
  /\ watch' = [watch EXCEPT ![c] = "nil"]
  /\ UNCHANGED <<etcdVars, up, electVars, listenVars, pc, ask, since, served,
                 scenario, faults>>

(* The watch ends with an error.                                           *)
KeyWatchFails(c) ==
  /\ watch[c] \in {"starting", "on"}
  /\ Fault("error")
  /\ watch' = [watch EXCEPT ![c] = "error"]
  /\ UNCHANGED <<etcdVars, up, electVars, listenVars, pc, ask, since, served,
                 scenario>>

(* watchCancel: a watcher that has its answer sends it nevertheless.       *)
WatchCancel(c) ==
  watch' = [watch EXCEPT ![c] = IF @ \in {"nil", "error"} THEN @ ELSE "off"]

GetKey(c) ==
  /\ ask[c] = "get"
  /\ IF Exists(JobOf[c])
     THEN ask' = [ask EXCEPT ![c] = "off"] /\ UNCHANGED watch
     ELSE ask' = [ask EXCEPT ![c] = "nil"] /\ WatchCancel(c)
  /\ UNCHANGED <<etcdVars, up, electVars, listenVars, pc, since, served,
                 scenario, faults>>

GetFails(c) ==
  /\ ask[c] = "get"
  /\ Fault("error")
  /\ ask' = [ask EXCEPT ![c] = "error"]
  /\ WatchCancel(c)
  /\ UNCHANGED <<etcdVars, up, electVars, listenVars, pc, since, served,
                 scenario>>

(* One of the two goroutines answers.  The client closes the channel when  *)
(* it has received: a second answer was sent before, or it panics.         *)
Answer(c) ==
  \E answer \in {"nil", "error"} :
    /\ \/ /\ ask[c] = answer
          /\ ask' = [ask EXCEPT ![c] = "off"]
          /\ UNCHANGED watch
       \/ /\ watch[c] = answer
          /\ watch' = [watch EXCEPT ![c] = "off"]
          /\ UNCHANGED ask
    /\ \/ /\ pc[c] = "wait"
          /\ pc' = [pc EXCEPT ![c] = IF answer = "nil" THEN "done" ELSE "failed"]
       \/ /\ pc[c] # "wait"
          /\ pc' = [pc EXCEPT ![c] = "panicked"]
       \/ /\ pc[c] # "wait"
          /\ UNCHANGED pc
    /\ UNCHANGED <<etcdVars, up, electVars, listenVars, since, served, scenario,
                   faults>>

-----------------------------------------------------------------------------
Elect(n) ==
  \/ WatchLeader(n) \/ FirstAttempt(n) \/ Reacquire(n) \/ LeaderEvent(n)

Manage(n) ==
  \/ ReceiveChange(n) \/ ListJobs(n) \/ NextListed(n) \/ ListDone(n)

Listen(n) == WatchJobs(n) \/ JobEvent(n)

Perform(u) == LookAt(u) \/ Process(u) \/ Complete(u)

Wait(c) ==
  \/ CheckLeader(c) \/ PutJob(c) \/ WatchKey(c) \/ KeyEvent(c) \/ GetKey(c)
  \/ Answer(c)

Next ==
  \/ \E n \in Nodes : \/ Elect(n) \/ Manage(n) \/ Listen(n)
                      \/ AttemptFails(n) \/ ListFails(n) \/ Crash(n)
  \/ \E u \in work : Perform(u) \/ ProcessFails(u) \/ CompleteFails(u)
  \/ \E c \in Clients : Wait(c) \/ AddFails(c) \/ GetFails(c) \/ KeyWatchFails(c)
  \/ ExpireLeader

(* Goroutines that can go on do so, a watch is registered and its events   *)
(* arrive, jobs end, and a lease that nobody keeps alive expires.          *)
Fairness ==
  /\ \A n \in Nodes :
       /\ WF_vars(WatchLeader(n)) /\ WF_vars(FirstAttempt(n))
       /\ WF_vars(Reacquire(n) \/ LeaderEvent(n))
       /\ WF_vars(Manage(n))
       /\ WF_vars(WatchJobs(n)) /\ WF_vars(JobEvent(n))
       /\ \A j \in Jobs :
            WF_vars(\E u \in work : u.node = n /\ u.job = j /\ Perform(u))
  /\ \A c \in Clients :
       /\ WF_vars(CheckLeader(c) \/ PutJob(c))
       /\ WF_vars(WatchKey(c)) /\ WF_vars(KeyEvent(c))
       /\ WF_vars(GetKey(c)) /\ WF_vars(Answer(c))
  /\ WF_vars(ExpireLeader /\ (unkept \/ Leader \notin up))

Spec == Init /\ [][Next]_vars
FairSpec == Spec /\ Fairness

-----------------------------------------------------------------------------
(* Properties *)

(* A node that has received every event of the leader's key and believes   *)
(* that it is the leader owns the key, if the key exists: two leaders are  *)
(* possible only while one of them has not heard of the other.             *)
LeaderOwnsKey ==
  \A n \in isLeader :
    /\ leaderSeen[n] = Len(leaders) /\ watcher[n] # "acquire"
    /\ Leader # Nobody
    => Leader = n

(* WaitForJob answers nil only when the job was processed after the client *)
(* had added it, or just before but not yet marked as complete: whichever  *)
(* of its two ways found the key missing, and whoever else added, listed   *)
(* or processed a job with the same identifier.                            *)
DoneMeansServed == \A c \in Clients : pc[c] = "done" => c \in served

(* Every client that has added a job gets its answer, also when the leader *)
(* is lost, as long as jobs and requests succeed and watches are           *)
(* registered in time.                                                     *)
Undisturbed == scenario.prompt /\ scenario.faults \subseteq {"lease", "crash"}
WaitEnds ==
  \A c \in Clients :
    Undisturbed /\ pc[c] = "wait" ~> pc[c] # "wait"

(* "We acquired the lock, so we're leaders" (controller-etcd.go:341): a    *)
(* node that has created the leader's key works as the leader, unless it   *)
(* loses the key again.                                                    *)
OwnerLeads ==
  \A n \in Nodes : Leader = n ~> (Leader # n \/ n \in isLeader)
=============================================================================
