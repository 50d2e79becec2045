----------------------------- MODULE ApiServer -----------------------------
(***************************************************************************)
(* The process around the queue: the API server (src/api/server.go), which *)
(* the runner restarts when the certificate of the node has changed, the   *)
(* requests it handles, which queue syncs, and the signals (src/main.go).  *)
(*                                                                         *)
(* Three parties wait for each other here.  A restart shuts the server     *)
(* down and waits for the requests under way; a request waits for the      *)
(* semaphore, which the runner holds; and the runner waits for Start's     *)
(* loop to receive its restart.  Only a timeout ends a circle, by a panic. *)
(***************************************************************************)
EXTENDS SyncQueue

CONSTANTS
  Handlers,     (* the callers that are requests                           *)
  Resyncs,      (* the callers that SIGUSR1 starts, one for each           *)
  MaxServers,   (* bounds the iterations of Start's loop                   *)
  Scenarios     (* what the environment does in a behaviour: how many      *)
                (* signals, renewed certificates and requests, the last    *)
                (* version, whether other callers queue a sync, whether    *)
                (* the node has a certificate (tls.node.enabled), whether  *)
                (* main gets to Start and is told to terminate             *)

ASSUME RolesAssumption ==
  /\ Handlers \subseteq Callers
  /\ Resyncs \subseteq Callers

ASSUME MaxServersAssumption == MaxServers \in Nat

Environment ==
  [signals : Nat, certs : Nat, requests : Nat, version : Nat,
   others : BOOLEAN, tls : BOOLEAN, start : BOOLEAN, terminate : BOOLEAN]

ASSUME ScenariosAssumption == Scenarios \subseteq Environment

Servers == 1..MaxServers
Others  == Callers \ (Handlers \cup Resyncs)

VARIABLES
  left,         (* what the environment may still do                       *)
  loop,         (* where Start is, once main has called it                 *)
  running,      (* s.running                                               *)
  srv,          (* s.srv: which of the servers, 0 is nil                   *)
  closing,      (* the server whose Shutdown the loop waits for            *)
  spawned,      (* number of servers started                               *)
  server,       (* where the goroutine of each server is                   *)
  stopped,      (* servers whose Shutdown was called                       *)
  renewed,      (* the node's certificate, as GetCertificate returns it    *)
  certFile,     (* misc/node.cert.pem                                      *)
  keyFile,      (* misc/node.key.pem                                       *)
  loaded,       (* the certificate of the server that serves               *)
  misc,         (* where SyncMiscFiles of each runner is                   *)
  pair,         (* the certificate each runner got                         *)
  restart,      (* restartServer of each runner                            *)
  stage,        (* where each request is                                   *)
  request,      (* the server that handles it                              *)
  signal,       (* the goroutine that receives SIGUSR1 has one to handle   *)
  resyncs,      (* the goroutines it has started that have still to call   *)
  overlapped,   (* history: a restart began before the last one had ended  *)
  lost,         (* history: a runner that failed forgot a restart          *)
  cause         (* history: what ended the process                         *)

loopVars    == <<loop, running, srv, closing, spawned, server, stopped>>
certVars    == <<renewed, certFile, keyFile, loaded, misc, pair, restart>>
requestVars == <<stage, request, signal, resyncs>>
historyVars == <<overlapped, lost, cause>>
apiOnlyVars == <<left, loopVars, certVars, requestVars, historyVars>>
apiVars     == <<vars, apiOnlyVars>>

ApiTypeOK ==
  /\ left \in Environment
  /\ loop \in {"spawn", "select", "draining", "terminating"}
  /\ running \in BOOLEAN
  /\ srv \in 0..MaxServers /\ closing \in 0..MaxServers
  /\ spawned \in 0..MaxServers
  /\ server \in [Servers -> {"none", "new", "assigned", "bound", "serving",
                             "closed"}]
  /\ stopped \subseteq Servers
  /\ {renewed, certFile, keyFile, loaded} \subseteq Nat
  /\ misc \in [Procs -> {"cert", "key", "done"}]
  /\ pair \in [Procs -> Nat]
  /\ restart \in [Procs -> BOOLEAN]
  /\ stage \in [Handlers -> {"none", "begun", "called"}]
  /\ request \in [Handlers -> 0..MaxServers]
  /\ signal \in BOOLEAN /\ resyncs \in Nat
  /\ overlapped \in BOOLEAN /\ lost \in BOOLEAN
  /\ cause \in {"none", "timeout", "nil", "exit", "port", "pair",
                "missing"}

Torn == 0   (* there is no such file, or a part of one                     *)

(* The certificate and the key on the disk can be loaded.                  *)
Loadable == certFile = keyFile /\ (left.tls => certFile # Torn)

(* Where SyncMiscFiles begins.                                             *)
FirstFile == IF left.tls THEN "cert" ELSE "done"

ApiInit ==
  /\ Init
  /\ left \in Scenarios
  /\ loop = "spawn" /\ running = FALSE /\ srv = 0 /\ closing = 0 /\ spawned = 0
  /\ server = [i \in Servers |-> "none"]
  /\ stopped = {}
  /\ renewed = 1 /\ certFile = 0 /\ keyFile = 0 /\ loaded = 0
  /\ misc = [p \in Procs |-> FirstFile]
  /\ pair = [p \in Procs |-> 0]
  /\ restart = [p \in Procs |-> FALSE]
  /\ stage = [h \in Handlers |-> "none"]
  /\ request = [h \in Handlers |-> 0]
  /\ signal = FALSE /\ resyncs = 0
  /\ overlapped = FALSE /\ lost = FALSE /\ cause = "none"

(* The process ends.                                                       *)
Ends(why) == MainEnds /\ cause' = why

-----------------------------------------------------------------------------
(* Shutdown and the loop of Start *)

(* Shutdown of net/http: listeners are closed, and a server that is shut   *)
(* down before it listens or serves will do neither.                       *)
Shutdown(i) ==
  /\ stopped' = stopped \cup {i}
  /\ server' = [server EXCEPT ![i] = IF @ = "serving" THEN "closed" ELSE @]

SpawnServer ==
  /\ left.start /\ pc[Main] = "serving"
  /\ loop = "spawn" /\ spawned < MaxServers
  /\ loop' = "select"
  /\ spawned' = spawned + 1
  /\ server' = [server EXCEPT ![spawned + 1] = "new"]
  /\ UNCHANGED <<vars, left, running, srv, closing, stopped, certVars,
                 requestVars, historyVars>>

(* Restart: the send on restartCh, which has no buffer, and its receipt.   *)
(* The loop takes s.srv as it is now, although the goroutine it has just   *)
(* started may not have set it yet.                                        *)
Restart ==
  IF running
  THEN /\ loop = "select"
       /\ loop' = "draining"
       /\ closing' = srv
       /\ Shutdown(srv)
       /\ overlapped' = (overlapped \/ server[spawned] # "serving")
       /\ UNCHANGED <<running, srv, spawned>>
  ELSE UNCHANGED <<loopVars, overlapped>>

Busy(h) == stage[h] # "none" /\ request[h] = closing

Drained ==
  /\ loop = "draining"
  /\ \A h \in Handlers : ~Busy(h)
  /\ loop' = "spawn"
  /\ UNCHANGED <<vars, left, running, srv, closing, spawned, server, stopped,
                 certVars, requestVars, historyVars>>

(* Mutant: Shutdown waits without a limit.                                 *)
DrainTimeout_None == FALSE /\ UNCHANGED apiVars

(* The context of Shutdown expires after 15 seconds.                       *)
DrainTimeout ==
  /\ loop = "draining"
  /\ \E h \in Handlers : Busy(h)
  /\ Ends("timeout")
  /\ UNCHANGED <<left, loopVars, certVars, requestVars, overlapped, lost>>

(* SIGINT, SIGTERM or SIGQUIT.  Before the first server has set s.srv, the *)
(* call of Shutdown is one on nil.                                         *)
Terminate ==
  /\ left.terminate
  /\ loop = "select"
  /\ left' = [left EXCEPT !.terminate = FALSE]
  /\ IF srv = 0
     THEN Ends("nil") /\ UNCHANGED loopVars
     ELSE /\ loop' = "terminating"
          /\ Shutdown(srv)
          /\ UNCHANGED <<vars, cause, running, srv, closing, spawned>>
  /\ UNCHANGED <<certVars, requestVars, overlapped, lost>>

(* Start returns once the requests have ended or five seconds have passed. *)
StartReturns ==
  /\ loop = "terminating"
  /\ running' = FALSE
  /\ Ends("exit")
  /\ UNCHANGED <<left, loop, srv, closing, spawned, server, stopped, certVars,
                 requestVars, overlapped, lost>>

-----------------------------------------------------------------------------
(* The goroutine of one server *)

At(i, from, to) ==
  /\ server[i] = from
  /\ server' = [server EXCEPT ![i] = to]

HasPort(i) == server[i] \in {"bound", "serving"}

Assign(i) ==
  /\ At(i, "new", "assigned")
  /\ srv' = i
  /\ running' = TRUE
  /\ UNCHANGED <<vars, left, loop, closing, spawned, stopped, certVars,
                 requestVars, historyVars>>

(* A server that was shut down returns before it listens, or before it     *)
(* serves, and then gives the port back.                                   *)
Abandon(i) ==
  /\ i \in stopped
  /\ \/ At(i, "assigned", "closed")
     \/ Loadable /\ At(i, "bound", "closed")
  /\ UNCHANGED <<vars, left, loop, running, srv, closing, spawned, stopped,
                 certVars, requestVars, historyVars>>

Listen(i) ==
  /\ i \notin stopped
  /\ \A j \in Servers : ~HasPort(j)
  /\ At(i, "assigned", "bound")
  /\ UNCHANGED <<vars, left, loop, running, srv, closing, spawned, stopped,
                 certVars, requestVars, historyVars>>

(* Mutant: the certificate is loaded once, before the loop of Start.       *)
Serve_LoadedOnce(i) ==
  /\ i \notin stopped
  /\ Loadable
  /\ At(i, "bound", "serving")
  /\ loaded' = IF loaded = 0 THEN certFile ELSE loaded
  /\ lost' = FALSE
  /\ UNCHANGED <<vars, left, loop, running, srv, closing, spawned, stopped,
                 renewed, certFile, keyFile, misc, pair, restart, requestVars,
                 overlapped, cause>>

(* ServeTLS loads the certificate after the port was taken.                *)
Serve(i) ==
  /\ i \notin stopped
  /\ Loadable
  /\ At(i, "bound", "serving")
  /\ loaded' = certFile
  /\ lost' = FALSE
  /\ UNCHANGED <<vars, left, loop, running, srv, closing, spawned, stopped,
                 renewed, certFile, keyFile, misc, pair, restart, requestVars,
                 overlapped, cause>>

(* The goroutine panics when it cannot listen, or when the certificate and *)
(* the key on the disk do not belong together.                             *)
ServerPanics(i) ==
  /\ \/ /\ server[i] = "assigned" /\ i \notin stopped
        /\ \E j \in Servers : HasPort(j)
        /\ Ends("port")
     \/ /\ server[i] = "bound" /\ ~Loadable
        /\ Ends(IF certFile = keyFile THEN "missing" ELSE "pair")
  /\ UNCHANGED <<left, loopVars, certVars, requestVars, overlapped, lost>>

-----------------------------------------------------------------------------
(* The runner *)

(* Statements of the runner that have nothing to do with the server.       *)
SyncStep(p) ==
  /\ SetHealth(p) \/ ReadSites(p) \/ SetComplete(p)
  /\ UNCHANGED apiOnlyVars

(* SyncMiscFiles gets the certificate of the node and writes two files.    *)
WriteCert(p) ==
  /\ runner[p] = "apps" /\ misc[p] = "cert"
  /\ misc' = [misc EXCEPT ![p] = "key"]
  /\ pair' = [pair EXCEPT ![p] = renewed]
  /\ certFile' = renewed
  /\ restart' = [restart EXCEPT ![p] = certFile # renewed]
  /\ UNCHANGED <<vars, left, loopVars, renewed, keyFile, loaded, requestVars,
                 historyVars>>

(* A write of one of them that fails leaves a part of it: the sync fails.  *)
Tear(p) ==
  /\ runner[p] = "apps"
  /\ \/ /\ misc[p] = "cert" /\ certFile # renewed
        /\ certFile' = Torn /\ UNCHANGED keyFile
     \/ /\ misc[p] = "key" /\ keyFile # pair[p]
        /\ keyFile' = Torn /\ UNCHANGED certFile
  /\ Interrupt(p, "apps")
  /\ lost' = TRUE
  /\ UNCHANGED <<chanVars, pc, sites, packageVars, version, requested,
                 attempted, left, loopVars, renewed, loaded, misc, pair,
                 restart, requestVars, overlapped, cause>>

(* Mutant: the key is written even if the node's certificate was not.      *)
WriteKey_Separate(p) ==
  /\ runner[p] = "apps" /\ misc[p] = "key"
  /\ misc' = [misc EXCEPT ![p] = "done"]
  /\ keyFile' = renewed
  /\ restart' = [restart EXCEPT ![p] = @ \/ keyFile # renewed]
  /\ UNCHANGED <<vars, left, loopVars, renewed, certFile, pair, loaded,
                 requestVars, historyVars>>

WriteKey(p) ==
  /\ runner[p] = "apps" /\ misc[p] = "key"
  /\ misc' = [misc EXCEPT ![p] = "done"]
  /\ keyFile' = pair[p]
  /\ restart' = [restart EXCEPT ![p] = @ \/ keyFile # pair[p]]
  /\ UNCHANGED <<vars, left, loopVars, renewed, certFile, pair, loaded,
                 requestVars, historyVars>>

(* A runner that fails returns, and restartServer is forgotten.            *)
Forget(p) == lost' = (lost \/ (restart[p] /\ err'[p] = "error"))

SyncState(p) ==
  /\ SyncApps(p)
  /\ runner'[p] = "nginx" => misc[p] = "done"
  /\ Forget(p)
  /\ UNCHANGED <<left, loopVars, certVars, requestVars, overlapped, cause>>

(* The files of the node are among those that make nginx be restarted.     *)
SyncServer(p) ==
  /\ SyncConfiguration(p)
  /\ err'[p] = "nil" => IF restart[p] THEN runner'[p] = "restartNginx"
                                      ELSE runner'[p] # "restartApi"
  /\ Forget(p)
  /\ UNCHANGED <<left, loopVars, certVars, requestVars, overlapped, cause>>

ReloadNginx(p) ==
  /\ RestartNginx(p)
  /\ err'[p] = "nil" => (restart[p] <=> runner'[p] = "restartApi")
  /\ Forget(p)
  /\ UNCHANGED <<left, loopVars, certVars, requestVars, overlapped, cause>>

RestartFromSync(p) ==
  /\ RestartApi(p)
  /\ Restart
  /\ UNCHANGED <<left, certVars, requestVars, lost, cause>>

EndSync(p) ==
  /\ StoreError(p)
  /\ misc' = [misc EXCEPT ![p] = FirstFile]
  /\ pair' = [pair EXCEPT ![p] = 0]
  /\ restart' = [restart EXCEPT ![p] = FALSE]
  /\ UNCHANGED <<left, loopVars, renewed, certFile, keyFile, loaded,
                 requestVars, historyVars>>

ApiRunner(p) ==
  \/ SyncStep(p) \/ WriteCert(p) \/ WriteKey(p) \/ Tear(p) \/ SyncState(p)
  \/ SyncServer(p) \/ ReloadNginx(p) \/ RestartFromSync(p) \/ EndSync(p)

-----------------------------------------------------------------------------
(* Requests, signals and the other callers *)

Call(c) == EnterQueue(c) \/ DropCall(c)

Accept(h, i) ==
  /\ left.requests > 0
  /\ server[i] = "serving" /\ stage[h] = "none"
  /\ left' = [left EXCEPT !.requests = @ - 1]
  /\ stage' = [stage EXCEPT ![h] = "begun"]
  /\ request' = [request EXCEPT ![h] = i]
  /\ UNCHANGED <<vars, loopVars, certVars, signal, resyncs,
                 historyVars>>

CallFromRequest(h) ==
  /\ stage[h] = "begun"
  /\ Call(h)
  /\ stage' = [stage EXCEPT ![h] = "called"]
  /\ UNCHANGED <<left, loopVars, certVars, request, signal, resyncs,
                 historyVars>>

(* The answer is sent when QueueRun has returned, or without a call of it. *)
Respond(h) ==
  /\ stage[h] # "none" /\ pc[h] = "idle"
  /\ stage' = [stage EXCEPT ![h] = "none"]
  /\ request' = [request EXCEPT ![h] = 0]
  /\ UNCHANGED <<vars, left, loopVars, certVars, signal, resyncs,
                 historyVars>>

(* SIGUSR1, once its handler is installed.                                 *)
Signal ==
  /\ left.signals > 0
  /\ pc[Main] = "serving"
  /\ ~signal /\ signal' = TRUE
  /\ left' = [left EXCEPT !.signals = @ - 1]
  /\ UNCHANGED <<vars, loopVars, certVars, stage, request, resyncs, historyVars>>

(* The restart, then a goroutine of its own that calls QueueRun.           *)
RestartFromSignal ==
  /\ signal /\ signal' = FALSE
  /\ Restart
  /\ resyncs' = resyncs + 1
  /\ UNCHANGED <<vars, left, certVars, stage, request, lost, cause>>

CallFromSignal(c) ==
  /\ resyncs > 0
  /\ Call(c)
  /\ resyncs' = resyncs - 1
  /\ UNCHANGED <<left, loopVars, certVars, stage, request, signal, historyVars>>

CallFromOther(c) ==
  /\ left.others
  /\ Call(c)
  /\ UNCHANGED apiOnlyVars

Change ==
  /\ version < left.version
  /\ ChangeState
  /\ UNCHANGED apiOnlyVars

(* The node gets a new certificate.                                        *)
Renew ==
  /\ left.certs > 0
  /\ left' = [left EXCEPT !.certs = @ - 1]
  /\ renewed' = renewed + 1
  /\ UNCHANGED <<vars, loopVars, certFile, keyFile, loaded, misc, pair,
                 restart, requestVars, historyVars>>

-----------------------------------------------------------------------------
LoopStep   == SpawnServer \/ Drained \/ DrainTimeout \/ StartReturns
ServerStep(i) ==
  Assign(i) \/ Abandon(i) \/ Listen(i) \/ Serve(i) \/ ServerPanics(i)
SignalStep ==
  RestartFromSignal \/ \E c \in Resyncs : CallFromSignal(c)
QueueStep(c) == Queued(c) /\ UNCHANGED apiOnlyVars
ReleaseStep(c) == Release(c) /\ UNCHANGED apiOnlyVars
MainStep == (RunRelease \/ RunReturn) /\ UNCHANGED apiOnlyVars
AcquireStep == RunAcquire /\ UNCHANGED apiOnlyVars

ApiNext ==
  /\ Alive
  /\ \/ Change \/ Renew \/ Signal \/ Terminate
     \/ LoopStep \/ SignalStep
     \/ \E i \in Servers : ServerStep(i)
     \/ \E p \in Procs : ApiRunner(p)
     \/ \E h \in Handlers :
          \/ \E i \in Servers : Accept(h, i)
          \/ CallFromRequest(h) \/ Respond(h)
     \/ \E c \in Others : CallFromOther(c)
     \/ \E c \in Callers : QueueStep(c) \/ ReleaseStep(c)
     \/ AcquireStep \/ MainStep

(* As in SyncQueue; the loop, the servers and the goroutine of the signals *)
(* go on, and requests end.  Senders on restartCh are served in turn.      *)
ApiFairness ==
  /\ WF_apiVars(Alive /\ \E c \in Callers : QueueStep(c) \/ ReleaseStep(c))
  /\ WF_apiVars(Alive /\ \E p \in Procs : ApiRunner(p))
  /\ SF_apiVars(Alive /\ AcquireStep) /\ WF_apiVars(Alive /\ MainStep)
  /\ WF_apiVars(Alive /\ LoopStep)
  /\ WF_apiVars(Alive /\ SignalStep)
  /\ WF_apiVars(Alive /\ \E i \in Servers : ServerStep(i))
  /\ WF_apiVars(Alive /\ \E h \in Handlers : Respond(h))

ApiSpec == ApiInit /\ [][ApiNext]_apiVars
FairApiSpec == ApiSpec /\ ApiFairness

-----------------------------------------------------------------------------
(* Properties *)

Serving == \E i \in Servers : server[i] = "serving"

(* The API is not down for ever, whatever restarts meet requests that wait *)
(* for a sync and syncs that wait for a restart: the server serves again,  *)
(* or the process ends and is started again by its supervisor.             *)
ServerComesBack == left.start /\ ~Serving ~> (Serving \/ ~Alive)

(* A restart that begins when the last one has ended does not fail on the  *)
(* port or on the files of the certificate, unless a sync is writing the   *)
(* files or has failed while it wrote one of them.  There is a certificate *)
(* for the first server, unless the first sync has failed and Run has      *)
(* returned the result of another one.                                     *)
RestartIsSafe ==
  /\ cause = "port" => overlapped
  /\ cause = "pair" => lost \/ \E p \in Procs : misc[p] = "key"
  /\ cause = "missing" => lost \/ err[Main] = "error"

(* When nothing runs or waits, the API server serves the certificate that  *)
(* is on the disk, unless a sync that had changed it failed later and no   *)
(* server was started since.                                               *)
Settled ==
  /\ Alive /\ Quiet
  /\ loop = "select" /\ ~signal
  /\ server[spawned] \in {"serving", "closed"}
CertIsServed == Settled /\ Serving /\ ~lost => loaded = certFile
=============================================================================
