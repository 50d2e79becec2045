----------------------------- MODULE SyncQueue -----------------------------
(***************************************************************************)
(* The synchronization queue of an agent (src/sync/run.go).                *)
(*                                                                         *)
(* Goroutines that changed the state (HTTP handlers, the callback of the   *)
(* store, the signal handler, background workers) call QueueRun.  Two      *)
(* channels of capacity 1 are used as semaphores: `semaphore' is held by   *)
(* the sync that runs, `isWaiting' by the one call that waits for it.  A   *)
(* call that finds another one waiting returns at once.  The main          *)
(* goroutine calls Run, which runs a sync in the foreground, once.         *)
(*                                                                         *)
(* The content of the state is abstracted to a version number.             *)
(***************************************************************************)
EXTENDS Naturals

CONSTANTS
  Callers,     (* goroutines that call QueueRun                            *)
  Callbacks,   (* those that may do so before the first sync has finished: *)
               (* the callbacks of the store, see src/sync/init.go         *)
  Main,        (* the main goroutine                                       *)
  MaxVersion   (* bounds how often the state changes                       *)

ASSUME CallersAssumption ==
  /\ Callbacks \subseteq Callers
  /\ Main \notin Callers

ASSUME MaxVersionAssumption == MaxVersion \in Nat

Procs == Callers \cup {Main}

VARIABLES
  semaphore,        (* number of values in the channel of that name        *)
  isWaiting,        (* number of values in the channel of that name        *)
  pc,               (* where each goroutine is                             *)
  runner,           (* where the runner started by each goroutine is       *)
  sites,            (* the version each runner got from GetSites           *)
  err,              (* the error each runner is about to return            *)
  syncError,        (* the package variable: the last recorded error       *)
  startupComplete,  (* the package variable StartupComplete                *)
  version,          (* version of the state in memory                      *)
  requested,        (* version in memory at the last call of QueueRun      *)
  attempted,        (* version in memory when the last runner started      *)
  written,          (* version the files of apps and web server are for    *)
  applied,          (* version the web server has loaded                   *)
  unloaded          (* history: a sync has failed after it changed files,  *)
                    (* and the web server has not loaded any since         *)

chanVars    == <<semaphore, isWaiting>>
runnerVars  == <<runner, sites, err>>
packageVars == <<syncError, startupComplete>>
servedVars  == <<written, applied, unloaded>>
stateVars   == <<version, requested, attempted, servedVars>>
vars == <<chanVars, pc, runnerVars, packageVars, stateVars>>

Errors       == {"nil", "error"}
CallerStates == {"idle", "waiting", "ahead", "clear"}
MainStates   == {"start", "running", "returning", "serving", "panicked"}
RunnerStates == {"off", "health", "read", "apps", "nginx", "restartNginx",
                 "restartApi", "store", "complete", "release"}

TypeOK ==
  /\ semaphore \in 0..1
  /\ isWaiting \in 0..1
  /\ pc \in [Procs -> CallerStates \cup MainStates]
  /\ \A c \in Callers : pc[c] \in CallerStates
  /\ pc[Main] \in MainStates
  /\ runner \in [Procs -> RunnerStates]
  /\ sites \in [Procs -> Nat]
  /\ err \in [Procs -> Errors]
  /\ syncError \in Errors
  /\ startupComplete \in BOOLEAN
  /\ version \in Nat /\ requested \in Nat
  /\ attempted \in Nat
  /\ written \in Nat /\ applied \in Nat /\ unloaded \in BOOLEAN

Init ==
  /\ semaphore = 0
  /\ isWaiting = 0
  /\ pc = [p \in Procs |-> IF p = Main THEN "start" ELSE "idle"]
  /\ runner = [p \in Procs |-> "off"]
  /\ sites = [p \in Procs |-> 0]
  /\ err = [p \in Procs |-> "nil"]
  /\ syncError = "nil"
  /\ startupComplete = FALSE
  /\ version = 0 /\ requested = 0 /\ attempted = 0
  /\ written = 0 /\ applied = 0 /\ unloaded = FALSE

-----------------------------------------------------------------------------
(* Environment *)

(* Some operation of the state manager changes the state in memory.        *)
ChangeState ==
  /\ version < MaxVersion
  /\ version' = version + 1
  /\ UNCHANGED <<chanVars, pc, runnerVars, packageVars, requested, attempted,
                 servedVars>>

-----------------------------------------------------------------------------
(* QueueRun *)

MayCall(c) == c \in Callbacks \/ startupComplete

(* The select of QueueRun, when the send on isWaiting succeeds.            *)
EnterQueue(c) ==
  /\ pc[c] = "idle" /\ MayCall(c)
  /\ isWaiting = 0
  /\ isWaiting' = 1
  /\ pc' = [pc EXCEPT ![c] = "waiting"]
  /\ requested' = version
  /\ UNCHANGED <<semaphore, runnerVars, packageVars, version, attempted,
                 servedVars>>

(* Mutant: a call also returns at once when a sync runs.                   *)
DropCall_Running(c) ==
  /\ pc[c] = "idle" /\ MayCall(c)
  /\ isWaiting = 1 \/ semaphore = 1
  /\ requested' = version
  /\ UNCHANGED <<chanVars, pc, runnerVars, packageVars, version, attempted,
                 servedVars>>

(* The select of QueueRun, when a call waits already: return.              *)
DropCall(c) ==
  /\ pc[c] = "idle" /\ MayCall(c)
  /\ isWaiting = 1
  /\ requested' = version
  /\ UNCHANGED <<chanVars, pc, runnerVars, packageVars, version, attempted,
                 servedVars>>

(* Mutant: the channel has room for one more value.                        *)
Acquire_Capacity(c) ==
  /\ pc[c] = "waiting"
  /\ semaphore < 2
  /\ semaphore' = semaphore + 1
  /\ pc' = [pc EXCEPT ![c] = "ahead"]
  /\ UNCHANGED <<isWaiting, runnerVars, packageVars, stateVars>>

Acquire(c) ==
  /\ pc[c] = "waiting"
  /\ semaphore = 0
  /\ semaphore' = 1
  /\ pc' = [pc EXCEPT ![c] = "ahead"]
  /\ UNCHANGED <<isWaiting, runnerVars, packageVars, stateVars>>

(* Mutant: the place in the queue is not given back before the sync.       *)
LeaveQueue_Kept(c) ==
  /\ pc[c] = "ahead"
  /\ pc' = [pc EXCEPT ![c] = "clear"]
  /\ UNCHANGED <<chanVars, runnerVars, packageVars, stateVars>>

LeaveQueue(c) ==
  /\ pc[c] = "ahead"
  /\ isWaiting = 1
  /\ isWaiting' = 0
  /\ pc' = [pc EXCEPT ![c] = "clear"]
  /\ UNCHANGED <<semaphore, runnerVars, packageVars, stateVars>>

(* syncError = nil, then the runner is started in a goroutine of its own   *)
(* and the call returns.                                                   *)
Spawn(c) ==
  /\ pc[c] = "clear"
  /\ syncError' = "nil"
  /\ runner' = [runner EXCEPT ![c] = "health"]
  /\ pc' = [pc EXCEPT ![c] = "idle"]
  /\ UNCHANGED <<chanVars, sites, err, startupComplete, stateVars>>

-----------------------------------------------------------------------------
(* runner, as called by the goroutine of QueueRun and by Run *)

(* The runner of p goes from one of its statements to another.             *)
Goto(p, from, to) ==
  /\ runner[p] = from
  /\ runner' = [runner EXCEPT ![p] = to]

(* An early return with an error.                                          *)
Fail(p, from) ==
  /\ Goto(p, from, "store")
  /\ err' = [err EXCEPT ![p] = "error"]

(* The node's health, with the sync marked as running, is stored.          *)
SetHealth(p) ==
  /\ \/ Goto(p, "health", "read") /\ UNCHANGED err
     \/ Fail(p, "health")
  /\ attempted' = version
  /\ UNCHANGED <<chanVars, pc, sites, packageVars, version, requested,
                 servedVars>>

ReadSites(p) ==
  /\ Goto(p, "read", "apps")
  /\ sites' = [sites EXCEPT ![p] = version]
  /\ UNCHANGED <<chanVars, pc, err, packageVars, stateVars>>

(* A sync that fails has changed files, or none.  Which it has changed is  *)
(* not remembered.                                                         *)
Interrupt(p, from) ==
  /\ Fail(p, from)
  /\ unloaded' \in {unloaded, TRUE}
  /\ UNCHANGED <<written, applied>>

SyncApps(p) ==
  /\ \/ Goto(p, "apps", "nginx") /\ UNCHANGED <<err, servedVars>>
     \/ Interrupt(p, "apps")
  /\ UNCHANGED <<chanVars, pc, sites, packageVars, version, requested,
                 attempted>>

(* Mutant: an error of the web server's configuration is not returned.     *)
SyncConfiguration_NoError(p) ==
  /\ \/ Goto(p, "nginx", "restartNginx") /\ written' = sites[p]
     \/ Goto(p, "nginx", "store") /\ UNCHANGED written
  /\ UNCHANGED <<chanVars, pc, sites, err, packageVars, version, requested,
                 attempted, applied, unloaded>>

(* The files of the web server are written.  If neither they nor those of  *)
(* SyncApps were changed, the web server, which is not restarted then, has *)
(* the same ones, unless a sync was interrupted.                           *)
SyncConfiguration(p) ==
  /\ \/ /\ Goto(p, "nginx", "restartNginx")
        /\ written' = sites[p]
        /\ UNCHANGED <<err, applied, unloaded>>
     \/ /\ \E to \in {"restartApi", "store"} : Goto(p, "nginx", to)
        /\ written' = sites[p]
        /\ applied' = IF unloaded THEN applied ELSE sites[p]
        /\ UNCHANGED <<err, unloaded>>
     \/ Interrupt(p, "nginx")
  /\ UNCHANGED <<chanVars, pc, sites, packageVars, version, requested,
                 attempted>>

RestartNginx(p) ==
  /\ \/ /\ \E to \in {"restartApi", "store"} : Goto(p, "restartNginx", to)
        /\ applied' = sites[p] /\ unloaded' = FALSE
        /\ UNCHANGED err
     \/ /\ Fail(p, "restartNginx")
        /\ unloaded' = TRUE
        /\ UNCHANGED applied
  /\ UNCHANGED <<chanVars, pc, sites, packageVars, version, requested,
                 attempted, written>>

RestartApi(p) ==
  /\ Goto(p, "restartApi", "store")
  /\ UNCHANGED <<chanVars, pc, sites, err, packageVars, stateVars>>

(* Back in QueueRun's goroutine or in Run: syncError = runner().           *)
StoreError(p) ==
  /\ Goto(p, "store", "complete")
  /\ syncError' = err[p]
  /\ UNCHANGED <<chanVars, pc, sites, err, startupComplete, stateVars>>

SetComplete(p) ==
  /\ Goto(p, "complete", "release")
  /\ startupComplete' = TRUE
  /\ UNCHANGED <<chanVars, pc, sites, err, syncError, stateVars>>

-----------------------------------------------------------------------------
(* The end of a sync *)

(* Mutant: the semaphore is not released after an error.                   *)
Release_NotOnError(c) ==
  /\ c \in Callers
  /\ Goto(c, "release", "off")
  /\ semaphore' = IF err[c] = "error" THEN semaphore ELSE 0
  /\ err' = [err EXCEPT ![c] = "nil"]
  /\ UNCHANGED <<isWaiting, pc, sites, packageVars, stateVars>>

(* The goroutine of QueueRun releases the semaphore and ends.              *)
Release(c) ==
  /\ c \in Callers
  /\ Goto(c, "release", "off")
  /\ semaphore = 1
  /\ semaphore' = 0
  /\ err' = [err EXCEPT ![c] = "nil"]
  /\ UNCHANGED <<isWaiting, pc, sites, packageVars, stateVars>>

RunAcquire ==
  /\ pc[Main] = "start"
  /\ semaphore = 0
  /\ semaphore' = 1
  /\ pc' = [pc EXCEPT ![Main] = "running"]
  /\ runner' = [runner EXCEPT ![Main] = "health"]
  /\ UNCHANGED <<isWaiting, sites, err, packageVars, stateVars>>

RunRelease ==
  /\ Goto(Main, "release", "off")
  /\ semaphore = 1
  /\ semaphore' = 0
  /\ pc' = [pc EXCEPT ![Main] = "returning"]
  /\ UNCHANGED <<isWaiting, sites, err, packageVars, stateVars>>

(* Run returns the package variable, and main panics on an error.          *)
RunReturn ==
  /\ pc[Main] = "returning"
  /\ pc' = [pc EXCEPT ![Main] = IF syncError = "error"
                              THEN "panicked" ELSE "serving"]
  /\ UNCHANGED <<chanVars, runnerVars, packageVars, stateVars>>

(* What main does after the first sync panics or returns: starting nginx,  *)
(* then the loop of the API server.                                        *)
MainEnds ==
  /\ pc[Main] = "serving"
  /\ pc' = [pc EXCEPT ![Main] = "panicked"]
  /\ UNCHANGED <<chanVars, runnerVars, packageVars, stateVars>>

-----------------------------------------------------------------------------
Runner(p) ==
  \/ SetHealth(p) \/ ReadSites(p) \/ SyncApps(p) \/ SyncConfiguration(p)
  \/ RestartNginx(p) \/ RestartApi(p) \/ StoreError(p) \/ SetComplete(p)

Queued(c) == Acquire(c) \/ LeaveQueue(c) \/ Spawn(c)

(* A panic of the main goroutine, or its return, ends the process.         *)
Alive == pc[Main] # "panicked"

Next ==
  /\ Alive
  /\ \/ ChangeState
     \/ \E c \in Callers : \/ EnterQueue(c) \/ DropCall(c)
                           \/ Queued(c) \/ Release(c)
     \/ \E p \in Procs : Runner(p)
     \/ RunAcquire \/ RunRelease \/ RunReturn \/ MainEnds

(* Goroutines that can go on do so eventually, and every call the runner   *)
(* makes returns.  Senders blocked on a channel are served in their order, *)
(* so Run is not overtaken for ever: strong fairness.                      *)
Fairness ==
  /\ \A c \in Callers :
       WF_vars(Alive /\ Queued(c)) /\ WF_vars(Alive /\ Release(c))
  /\ \A p \in Procs : WF_vars(Alive /\ Runner(p))
  /\ SF_vars(Alive /\ RunAcquire)
  /\ WF_vars(Alive /\ (RunRelease \/ RunReturn))

Spec == Init /\ [][Next]_vars
FairSpec == Spec /\ Fairness

-----------------------------------------------------------------------------
(* Properties *)

Running(p) == runner[p] # "off"

(* At most one sync runs at any time: QueueRun "ensures that only one sync *)
(* can happen at a time", although the runner outlives the call that       *)
(* started it and the semaphore is released by another goroutine.          *)
OneRunner == \A p, q \in Procs : Running(p) /\ Running(q) => p = q

(* A sync that will start later than now is certain.                       *)
Owed == \/ \E c \in Callers : pc[c] \in {"waiting", "ahead", "clear"}
        \/ \E p \in Procs : runner[p] = "health"

(* Every call of QueueRun is followed by the start of a sync that sees the *)
(* state the caller saw, also a call that was dropped because another one  *)
(* waited: a dropped call is covered by the waiting one.                   *)
NoRequestLost == requested > attempted => Owed

(* The queue keeps the promise of SyncRequests.                            *)
Requests == INSTANCE SyncRequests WITH
              owed <- Owed \/ pc[Main] = "start", alive <- Alive
ImplementsRequests == Requests!Spec

(* When nothing runs or waits and no error is recorded, the node has the   *)
(* files of the last request and serves them: what an operator concludes   *)
(* from the health of a node (SyncError is nil).  The web server may lag   *)
(* behind its files only after a sync that failed once it had changed some *)
(* of them: the next one finds nothing to change, and clears the error.    *)
Quiet == semaphore = 0 /\ isWaiting = 0
QuietMeansApplied ==
  Quiet /\ syncError = "nil"
    => written >= requested /\ (applied >= requested \/ unloaded)

(* Nobody starves at the semaphore, unless the process ends: every call of *)
(* QueueRun is eventually followed by a sync attempt with a state at least *)
(* as new, and the first sync, in the foreground, ends, so that the        *)
(* workers that poll StartupComplete and the API server get to start.      *)
NobodyStarves ==
  /\ \A v \in 1..MaxVersion :
       requested >= v ~> (attempted >= v \/ pc[Main] = "panicked")
  /\ <>(pc[Main] \in {"serving", "panicked"})
=============================================================================
