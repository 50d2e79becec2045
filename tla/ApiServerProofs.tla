--------------------------- MODULE ApiServerProofs ---------------------------
(***************************************************************************)
(* Proofs about SyncQueue and ApiServer, for any set of callers, any       *)
(* number of restarts and any environment.                                 *)
(*                                                                         *)
(* The first part is about the queue and uses nothing of the server.  Its  *)
(* invariant is inductive once it says who holds each of the two           *)
(* semaphores: a full channel has exactly one holder, and the holder of    *)
(* `semaphore' is either a call on its way to the runner or a runner.      *)
(*                                                                         *)
(* The composition implements the specification of the queue, so what is   *)
(* proved of the queue holds in it.  RestartIsSafe rests on two facts: as  *)
(* long as restarts have not overlapped, every server but the last one is  *)
(* closed, and the last one once the loop is past the select; and files    *)
(* that do not match are owed to a sync that is between the two.           *)
(* CertIsServed adds to them that a server that is still to be shut down   *)
(* is never the one that serves, and that a sync that has changed the      *)
(* certificate since a server has read it still owes a restart.            *)
(***************************************************************************)
EXTENDS ApiServer, TLAPS

-----------------------------------------------------------------------------
(* The queue *)

AtSemaphore(p) == pc[p] \in {"ahead", "clear"}
InQueue(p)     == pc[p] \in {"waiting", "ahead"}
Holds(p)       == AtSemaphore(p) \/ Running(p)

(* `semaphore' has at most one holder, and is full iff it has one.         *)
SemaphoreInv ==
  /\ \A p, q \in Procs : Holds(p) /\ Holds(q) => p = q
  /\ \A p \in Procs : ~(AtSemaphore(p) /\ Running(p))
  /\ semaphore = 1 <=> \E p \in Procs : Holds(p)
  /\ Running(Main) <=> pc[Main] = "running"

(* `isWaiting' has at most one holder, and is full iff it has one.         *)
QueueInv ==
  /\ \A c, d \in Callers : InQueue(c) /\ InQueue(d) => c = d
  /\ isWaiting = 1 <=> \E c \in Callers : InQueue(c)

RequestInv ==
  /\ requested <= version
  /\ NoRequestLost

(* The files are those of the last sync, and so is what the web server has *)
(* loaded, unless a sync was interrupted and nothing loaded since.         *)
Done ==
  /\ written >= attempted
  /\ applied >= attempted \/ unloaded

(* What the sync of p has done by the time it is at each of its statements *)
StageInv(p) ==
  /\ runner[p] \in {"health", "read"} => err[p] = "nil"
  /\ runner[p] \in {"apps", "nginx"} =>
       err[p] = "nil" /\ sites[p] >= attempted
  /\ runner[p] = "restartNginx" =>
       err[p] = "nil" /\ written >= attempted /\ sites[p] >= attempted
  /\ runner[p] = "restartApi" => err[p] = "nil" /\ Done
  /\ runner[p] \in {"store", "complete", "release"} =>
       err[p] = "error" \/ Done
  /\ runner[p] \in {"complete", "release"} => syncError = err[p]

(* An error is recorded until the next sync, and what is not an error is a *)
(* sync that was applied.                                                  *)
ResultInv ==
  /\ \A c \in Callers : runner[c] = "off" => err[c] = "nil"
  /\ pc[Main] = "start" => err[Main] = "nil"
  /\ (\A p \in Procs : ~Running(p)) /\ syncError = "nil"
       => Done \/ \E c \in Callers : pc[c] = "clear"

ProgressInv ==
  /\ attempted <= version
  /\ \A p \in Procs : StageInv(p)
  /\ ResultInv

SyncInv == TypeOK /\ SemaphoreInv /\ QueueInv /\ RequestInv

-----------------------------------------------------------------------------
LEMMA StepOfConfiguration ==
  ASSUME NEW p, SyncConfiguration(p)
  PROVE  /\ \E to \in RunnerStates : runner' = [runner EXCEPT ![p] = to]
         /\ err' = err \/ err' = [err EXCEPT ![p] = "error"]
         /\ UNCHANGED <<semaphore, isWaiting, pc, sites, syncError,
                       startupComplete, version, requested, attempted>>
BY DEF SyncConfiguration, Interrupt, Goto, Fail, RunnerStates, chanVars,
       packageVars

LEMMA HistoryOfConfiguration ==
  ASSUME NEW p, SyncConfiguration(p)
  PROVE  /\ unloaded' \in {unloaded, TRUE}
         /\ written' \in {written, sites[p]} /\ applied' \in {applied, sites[p]}
BY DEF SyncConfiguration, Interrupt

THEOREM TypeCorrect == Spec => []TypeOK
<1> USE DEF TypeOK, Procs, Errors, CallerStates, MainStates, RunnerStates
<1>1. Init => TypeOK
  <2> SUFFICES ASSUME Init PROVE TypeOK
    OBVIOUS
  <2>1. Main \in Procs /\ \A c \in Callers : c \in Procs /\ c # Main
    BY CallersAssumption
  <2>2. /\ pc \in [Procs -> CallerStates \cup MainStates]
        /\ \A c \in Callers : pc[c] \in CallerStates
        /\ pc[Main] \in MainStates
    BY <2>1 DEF Init
  <2>3. /\ runner \in [Procs -> RunnerStates]
        /\ sites \in [Procs -> Nat]
        /\ err \in [Procs -> Errors]
    BY DEF Init
  <2>4. startupComplete \in BOOLEAN /\ unloaded \in BOOLEAN
    BY DEF Init
  <2> QED
    BY <2>2, <2>3, <2>4 DEF Init
<1>2. TypeOK /\ [Next]_vars => TypeOK'
  <2> SUFFICES ASSUME TypeOK, [Next]_vars PROVE TypeOK'
    OBVIOUS
  <2> USE CallersAssumption DEF chanVars, runnerVars, packageVars, stateVars, servedVars, Goto, Fail, Interrupt
  <2>1. CASE ChangeState
    BY <2>1 DEF ChangeState
  <2>2. ASSUME NEW c \in Callers, EnterQueue(c) PROVE TypeOK'
    BY <2>2 DEF EnterQueue
  <2>3. ASSUME NEW c \in Callers, DropCall(c) PROVE TypeOK'
    BY <2>3 DEF DropCall
  <2>4. ASSUME NEW c \in Callers, Queued(c) PROVE TypeOK'
    BY <2>4 DEF Queued, Acquire, LeaveQueue, Spawn
  <2>5. ASSUME NEW c \in Callers, Release(c) PROVE TypeOK'
    BY <2>5 DEF Release
  <2>6. ASSUME NEW p \in Procs, Runner(p) PROVE TypeOK'
    <3>1. CASE SetHealth(p)         BY <3>1 DEF SetHealth
    <3>2. CASE ReadSites(p)         BY <3>2 DEF ReadSites
    <3>3. CASE SyncApps(p)          BY <3>3 DEF SyncApps
    <3>4. CASE SyncConfiguration(p)
      <4>0. unloaded' \in {unloaded, TRUE}
        BY <3>4, HistoryOfConfiguration
      <4>1. unloaded' \in BOOLEAN
        BY <4>0
      <4>2. written' \in Nat /\ applied' \in Nat
        <5>1. written' \in {written, sites[p]} /\ applied' \in {applied, sites[p]}
          BY <3>4, HistoryOfConfiguration
        <5> QED
          BY <5>1
      <4>3. /\ \E to \in RunnerStates : runner' = [runner EXCEPT ![p] = to]
            /\ err' = err \/ err' = [err EXCEPT ![p] = "error"]
            /\ UNCHANGED <<semaphore, isWaiting, pc, sites, syncError,
                          startupComplete, version, requested, attempted>>
        BY <3>4, StepOfConfiguration
      <4> QED
        BY <4>1, <4>2, <4>3
    <3>5. CASE RestartNginx(p)
      <4>1. unloaded' \in BOOLEAN
        BY <3>5 DEF RestartNginx
      <4>2. applied' \in Nat
        BY <3>5 DEF RestartNginx
      <4> QED
        BY <3>5, <4>1, <4>2 DEF RestartNginx
    <3>6. CASE RestartApi(p)        BY <3>6 DEF RestartApi
    <3>7. CASE StoreError(p)        BY <3>7 DEF StoreError
    <3>8. CASE SetComplete(p)       BY <3>8 DEF SetComplete
    <3> QED
      BY <2>6, <3>1, <3>2, <3>3, <3>4, <3>5, <3>6, <3>7, <3>8 DEF Runner
  <2>7. CASE RunAcquire BY <2>7 DEF RunAcquire
  <2>8. CASE RunRelease BY <2>8 DEF RunRelease
  <2>9. CASE RunReturn \/ MainEnds BY <2>9 DEF RunReturn, MainEnds
  <2>10. CASE UNCHANGED vars
    BY <2>10 DEF vars
  <2> QED
    BY <2>1, <2>2, <2>3, <2>4, <2>5, <2>6, <2>7, <2>8, <2>9, <2>10 DEF Next
<1> QED
  BY <1>1, <1>2, PTL DEF Spec

LEMMA InitInv == Init => SemaphoreInv /\ QueueInv /\ RequestInv
<1> SUFFICES ASSUME Init PROVE SemaphoreInv /\ QueueInv /\ RequestInv
  OBVIOUS
<1>1. \A p \in Procs : ~AtSemaphore(p) /\ ~Running(p) /\ ~InQueue(p)
  BY DEF Init, AtSemaphore, Running, InQueue
<1>2. pc[Main] = "start" /\ ~Running(Main)
  BY <1>1 DEF Init, Procs
<1> QED
  BY <1>1, <1>2
  DEF Init, SemaphoreInv, QueueInv, RequestInv, NoRequestLost, Holds, Procs

LEMMA NextSemaphore == SyncInv /\ [Next]_vars => SemaphoreInv'
<1> SUFFICES ASSUME SyncInv, [Next]_vars PROVE SemaphoreInv'
  OBVIOUS
<1> USE CallersAssumption
    DEF SyncInv, TypeOK, Procs, Errors, CallerStates, MainStates, RunnerStates,
        SemaphoreInv, AtSemaphore, Running, Holds,
        chanVars, runnerVars, packageVars, stateVars, servedVars
<1>1. CASE ChangeState
  BY <1>1 DEF ChangeState
<1>2. ASSUME NEW c \in Callers, EnterQueue(c) \/ DropCall(c) PROVE SemaphoreInv'
  BY <1>2 DEF EnterQueue, DropCall
<1>3. ASSUME NEW c \in Callers, Acquire(c) PROVE SemaphoreInv'
  BY <1>3 DEF Acquire
<1>4. ASSUME NEW c \in Callers, LeaveQueue(c) PROVE SemaphoreInv'
  BY <1>4 DEF LeaveQueue
<1>5. ASSUME NEW c \in Callers, Spawn(c) PROVE SemaphoreInv'
  BY <1>5 DEF Spawn
<1>6. ASSUME NEW c \in Callers, Release(c) PROVE SemaphoreInv'
  BY <1>6 DEF Release, Goto
<1>7. ASSUME NEW p \in Procs, Runner(p) PROVE SemaphoreInv'
  <2>1. /\ Running(p)
        /\ \E to \in RunnerStates \ {"off"} : runner' = [runner EXCEPT ![p] = to]
        /\ UNCHANGED <<semaphore, pc>>
    BY <1>7 DEF Runner, Goto, Fail, Interrupt, SetHealth, ReadSites, SyncApps,
       SyncConfiguration, RestartNginx, RestartApi, StoreError, SetComplete
  <2>2. \A q \in Procs : Running(q)' <=> Running(q)
    BY <2>1
  <2> QED
    BY <2>1, <2>2
<1>8. CASE RunAcquire
  BY <1>8 DEF RunAcquire
<1>9. CASE RunRelease
  BY <1>9 DEF RunRelease, Goto
<1>10. CASE RunReturn \/ MainEnds
  BY <1>10 DEF RunReturn, MainEnds
<1>11. CASE UNCHANGED vars
  BY <1>11 DEF vars
<1> QED
  BY <1>1, <1>2, <1>3, <1>4, <1>5, <1>6, <1>7, <1>8, <1>9, <1>10, <1>11
  DEF Next, Queued

LEMMA NextQueue == SyncInv /\ [Next]_vars => QueueInv'
<1> SUFFICES ASSUME SyncInv, [Next]_vars PROVE QueueInv'
  OBVIOUS
<1> USE CallersAssumption
    DEF SyncInv, TypeOK, Procs, CallerStates, MainStates, QueueInv, InQueue,
        chanVars, runnerVars, packageVars, stateVars, servedVars
<1>1. CASE ChangeState
  BY <1>1 DEF ChangeState
<1>2. ASSUME NEW c \in Callers, EnterQueue(c) PROVE QueueInv'
  BY <1>2 DEF EnterQueue
<1>3. ASSUME NEW c \in Callers, DropCall(c) PROVE QueueInv'
  BY <1>3 DEF DropCall
<1>4. ASSUME NEW c \in Callers, Acquire(c) PROVE QueueInv'
  BY <1>4 DEF Acquire
<1>5. ASSUME NEW c \in Callers, LeaveQueue(c) PROVE QueueInv'
  BY <1>5 DEF LeaveQueue
<1>6. ASSUME NEW c \in Callers, Spawn(c) PROVE QueueInv'
  BY <1>6 DEF Spawn
<1>7. ASSUME NEW c \in Callers, Release(c) PROVE QueueInv'
  BY <1>7 DEF Release
<1>8. ASSUME NEW p \in Procs, Runner(p) PROVE QueueInv'
  <2>1. UNCHANGED <<isWaiting, pc>>
    BY <1>8 DEF Runner, SetHealth, ReadSites, SyncApps, SyncConfiguration,
       RestartNginx, RestartApi, StoreError, SetComplete
  <2> QED
    BY <2>1
<1>9. CASE RunAcquire \/ RunRelease \/ RunReturn \/ MainEnds
  <2>1. isWaiting' = isWaiting /\ \A c \in Callers : pc'[c] = pc[c]
    BY <1>9 DEF RunAcquire, RunRelease, RunReturn, MainEnds
  <2> QED
    BY <2>1
<1>10. CASE UNCHANGED vars
  BY <1>10 DEF vars
<1> QED
  BY <1>1, <1>2, <1>3, <1>4, <1>5, <1>6, <1>7, <1>8, <1>9, <1>10
  DEF Next, Queued

LEMMA NextRequest == SyncInv /\ [Next]_vars => RequestInv'
<1> SUFFICES ASSUME SyncInv, [Next]_vars PROVE RequestInv'
  OBVIOUS
<1> USE CallersAssumption
    DEF SyncInv, TypeOK, Procs, CallerStates, MainStates, RequestInv,
        NoRequestLost, Owed, chanVars, runnerVars, packageVars, stateVars, servedVars
<1>1. CASE ChangeState
  BY <1>1 DEF ChangeState
<1>2. ASSUME NEW c \in Callers, EnterQueue(c) PROVE RequestInv'
  <2>1. pc'[c] = "waiting"
    BY <1>2 DEF EnterQueue
  <2> QED
    BY <1>2, <2>1 DEF EnterQueue
<1>3. ASSUME NEW c \in Callers, DropCall(c) PROVE RequestInv'
  <2>1. PICK d \in Callers : InQueue(d)
    BY <1>3 DEF DropCall, QueueInv
  <2>2. pc'[d] \in {"waiting", "ahead"}
    BY <1>3, <2>1 DEF DropCall, InQueue
  <2> QED
    BY <1>3, <2>2 DEF DropCall
<1>4. ASSUME NEW c \in Callers, Acquire(c) \/ LeaveQueue(c) PROVE RequestInv'
  <2>1. pc'[c] \in {"ahead", "clear"}
    BY <1>4 DEF Acquire, LeaveQueue
  <2> QED
    BY <1>4, <2>1 DEF Acquire, LeaveQueue
<1>5. ASSUME NEW c \in Callers, Spawn(c) PROVE RequestInv'
  <2>1. runner'[c] = "health"
    BY <1>5 DEF Spawn
  <2> QED
    BY <1>5, <2>1 DEF Spawn
<1>6. ASSUME NEW p \in Procs, SetHealth(p) PROVE RequestInv'
  BY <1>6 DEF SetHealth
<1>7. ASSUME NEW p \in Procs,
             \/ ReadSites(p) \/ SyncApps(p) \/ SyncConfiguration(p)
             \/ RestartNginx(p) \/ RestartApi(p)
             \/ StoreError(p) \/ SetComplete(p)
             \/ p \in Callers /\ Release(p)
      PROVE  RequestInv'
  <2>1. /\ UNCHANGED <<pc, version, requested, attempted>>
        /\ runner[p] # "health"
        /\ \E to \in RunnerStates : runner' = [runner EXCEPT ![p] = to]
    BY <1>7 DEF Goto, Fail, Interrupt, ReadSites, SyncApps, SyncConfiguration,
       RestartNginx, RestartApi, StoreError, SetComplete, Release, RunnerStates
  <2>2. Owed => Owed'
    BY <2>1
  <2> QED
    BY <2>1, <2>2
<1>8. CASE RunAcquire
  <2>1. runner'[Main] = "health"
    BY <1>8 DEF RunAcquire
  <2> QED
    BY <1>8, <2>1 DEF RunAcquire
<1>9. CASE RunRelease \/ RunReturn \/ MainEnds
  <2>1. /\ UNCHANGED <<version, requested, attempted>>
        /\ \A c \in Callers : pc'[c] = pc[c]
        /\ \A p \in Procs : runner[p] = "health" => runner'[p] = "health"
    BY <1>9 DEF RunRelease, RunReturn, MainEnds, Goto
  <2> QED
    BY <2>1
<1>10. CASE UNCHANGED vars
  BY <1>10 DEF vars
<1> QED
  BY <1>1, <1>2, <1>3, <1>4, <1>5, <1>6, <1>7, <1>8, <1>9, <1>10
  DEF Next, Queued, Runner

-----------------------------------------------------------------------------
LEMMA SyncInvariant == Spec => []SyncInv
<1>1. Init => SemaphoreInv /\ QueueInv /\ RequestInv
  BY InitInv
<1>2. SyncInv /\ [Next]_vars => (SemaphoreInv /\ QueueInv /\ RequestInv)'
  BY NextSemaphore, NextQueue, NextRequest
<1> QED
  BY <1>1, <1>2, TypeCorrect, PTL DEF Spec, SyncInv

(* At most one sync runs, however many goroutines call QueueRun.           *)
THEOREM OneRunnerAlways == Spec => []OneRunner
<1>1. SyncInv => OneRunner
  BY DEF SyncInv, SemaphoreInv, Holds, OneRunner
<1> QED
  BY <1>1, SyncInvariant, PTL

(* A call of QueueRun that finds another one waiting may return at once:   *)
(* the start of a sync that sees the caller's state is certain.            *)
THEOREM NoRequestLostAlways == Spec => []NoRequestLost
<1>1. SyncInv => NoRequestLost
  BY DEF SyncInv, RequestInv
<1> QED
  BY <1>1, SyncInvariant, PTL

-----------------------------------------------------------------------------
LEMMA InitProgress == Init => ProgressInv
<1> SUFFICES ASSUME Init PROVE ProgressInv
  OBVIOUS
<1>1. \A p \in Procs : runner[p] = "off" /\ err[p] = "nil"
  BY DEF Init
<1>2. Main \in Procs /\ Callers \subseteq Procs
  BY DEF Procs
<1> QED
  BY <1>1, <1>2 DEF Init, ProgressInv, StageInv, ResultInv, Done, Running

(* The step of a runner, the last one included.                            *)
RunnerStep(p) ==
  \/ Runner(p)
  \/ p \in Callers /\ Release(p)
  \/ p = Main /\ RunRelease

LEMMA RunnerFrame ==
  ASSUME TypeOK, SemaphoreInv, NEW p \in Procs, RunnerStep(p)
  PROVE  /\ Running(p)
         /\ \A q \in Procs : q # p =>
              runner[q] = "off" /\ runner'[q] = "off" /\ err'[q] = err[q]
         /\ \A c \in Callers : pc[c] # "clear" /\ pc'[c] = pc[c]
         /\ p = Main => pc[Main] = "running" /\ pc'[Main] # "start"
         /\ p # Main => pc'[Main] = pc[Main]
<1> USE CallersAssumption
    DEF TypeOK, Procs, runnerVars, chanVars, packageVars, stateVars, servedVars
<1>1. /\ Running(p)
      /\ \E to \in RunnerStates : runner' = [runner EXCEPT ![p] = to]
      /\ \/ err' = err
         \/ \E e \in Errors : err' = [err EXCEPT ![p] = e]
      /\ \/ pc' = pc
         \/ p = Main /\ pc' = [pc EXCEPT ![Main] = "returning"]
  BY DEF RunnerStep, Runner, Goto, Fail, Interrupt, SetHealth, ReadSites, SyncApps,
     SyncConfiguration, RestartNginx, RestartApi, StoreError, SetComplete,
     Release, RunRelease, Running, RunnerStates, Errors
<1>2. \A q \in Procs : q # p => runner[q] = "off"
  BY <1>1 DEF SemaphoreInv, Holds, Running
<1>3. \A c \in Callers : pc[c] # "clear"
  BY <1>1 DEF SemaphoreInv, Holds, AtSemaphore
<1>4. p = Main => pc[Main] = "running"
  BY <1>1 DEF SemaphoreInv
<1> QED
  BY <1>1, <1>2, <1>3, <1>4

LEMMA RunnerProgress ==
  ASSUME SyncInv, ProgressInv, NEW p \in Procs, RunnerStep(p)
  PROVE  ProgressInv'
<1> USE DEF SyncInv, TypeOK, Procs, runnerVars, chanVars, packageVars, stateVars, servedVars
<1>1. /\ Running(p)
      /\ \A q \in Procs : q # p =>
           runner[q] = "off" /\ runner'[q] = "off" /\ err'[q] = err[q]
      /\ \A c \in Callers : pc[c] # "clear" /\ pc'[c] = pc[c]
      /\ p = Main => pc[Main] = "running" /\ pc'[Main] # "start"
      /\ p # Main => pc'[Main] = pc[Main]
  BY RunnerFrame
<1>2. StageInv(p) /\ attempted <= version
  BY DEF ProgressInv
<1>3. /\ attempted' <= version'
      /\ StageInv(p)'
      /\ runner'[p] = "off" => Done' \/ syncError' = "error"
      /\ runner'[p] = "off" /\ p \in Callers => err'[p] = "nil"
  <2> USE <1>2 DEF StageInv, Done, Goto, Fail, Interrupt, Errors
  <2>1. CASE SetHealth(p)         BY <2>1 DEF SetHealth
  <2>2. CASE ReadSites(p)         BY <2>2 DEF ReadSites
  <2>3. CASE SyncApps(p)          BY <2>3 DEF SyncApps
  <2>4. CASE SyncConfiguration(p) BY <2>4 DEF SyncConfiguration
  <2>5. CASE RestartNginx(p)      BY <2>5 DEF RestartNginx
  <2>6. CASE RestartApi(p)        BY <2>6 DEF RestartApi
  <2>7. CASE StoreError(p)        BY <2>7 DEF StoreError
  <2>8. CASE SetComplete(p)       BY <2>8 DEF SetComplete
  <2>9. CASE p \in Callers /\ Release(p)
    BY <2>9 DEF Release
  <2>10. CASE p = Main /\ RunRelease
    BY <2>10, CallersAssumption DEF RunRelease
  <2> QED
    BY <2>1, <2>2, <2>3, <2>4, <2>5, <2>6, <2>7, <2>8, <2>9, <2>10
    DEF Runner, RunnerStep
<1>4. \A q \in Procs : StageInv(q)'
  BY <1>1, <1>3 DEF StageInv
<1>5. ResultInv'
  BY <1>1, <1>3 DEF ProgressInv, ResultInv, Running
<1> QED
  BY <1>3, <1>4, <1>5 DEF ProgressInv

LEMMA NextProgress == SyncInv /\ ProgressInv /\ [Next]_vars => ProgressInv'
<1> SUFFICES ASSUME SyncInv, ProgressInv, [Next]_vars PROVE ProgressInv'
  OBVIOUS
<1> USE CallersAssumption
    DEF SyncInv, TypeOK, Procs, ProgressInv, StageInv, Done, ResultInv,
        Running, chanVars, runnerVars, packageVars, stateVars, servedVars
<1>1. CASE ChangeState
  BY <1>1 DEF ChangeState
<1>2. ASSUME NEW c \in Callers,
             EnterQueue(c) \/ DropCall(c) \/ Acquire(c) \/ LeaveQueue(c)
      PROVE  ProgressInv'
  BY <1>2 DEF EnterQueue, DropCall, Acquire, LeaveQueue
<1>3. ASSUME NEW c \in Callers, Spawn(c) PROVE ProgressInv'
  <2>1. runner[c] = "off" /\ \A q \in Procs : ~Running(q)
    BY <1>3 DEF Spawn, SemaphoreInv, AtSemaphore, Holds
  <2> QED
    BY <1>3, <2>1 DEF Spawn
<1>4. ASSUME NEW p \in Procs, RunnerStep(p) PROVE ProgressInv'
  BY <1>4, RunnerProgress
<1>5. CASE RunAcquire
  BY <1>5 DEF RunAcquire
<1>6. CASE RunReturn \/ MainEnds
  BY <1>6 DEF RunReturn, MainEnds
<1>7. CASE UNCHANGED vars
  BY <1>7 DEF vars
<1>8. Main \in Procs /\ Callers \subseteq Procs
  OBVIOUS
<1> HIDE DEF SyncInv, TypeOK, Procs, ProgressInv
<1> QED
  BY <1>1, <1>2, <1>3, <1>4, <1>5, <1>6, <1>7, <1>8
  DEF Next, Queued, RunnerStep

(* A quiet node without a recorded error has the files of the last state   *)
(* requested, and serves them, unless a sync failed after it had changed   *)
(* files and the web server has not loaded any since.                      *)
THEOREM QuietMeansAppliedAlways == Spec => []QuietMeansApplied
<1>1. SyncInv /\ ProgressInv => QuietMeansApplied
  <2> SUFFICES ASSUME SyncInv, ProgressInv, Quiet, syncError = "nil"
               PROVE  written >= requested /\ (applied >= requested \/ unloaded)
    BY DEF QuietMeansApplied
  <2>1. /\ \A p \in Procs : ~Running(p) /\ ~AtSemaphore(p)
        /\ \A c \in Callers : ~InQueue(c)
    BY DEF Quiet, SyncInv, SemaphoreInv, QueueInv, Holds
  <2>2. ~Owed /\ \A c \in Callers : pc[c] # "clear"
    BY <2>1 DEF Owed, Running, AtSemaphore, InQueue, Procs
  <2> QED
    BY <2>1, <2>2
    DEF SyncInv, TypeOK, RequestInv, NoRequestLost, ProgressInv, ResultInv, Done
<1> QED
  BY <1>1, SyncInvariant, InitProgress, NextProgress, PTL DEF Spec

-----------------------------------------------------------------------------
(* The queue implements SyncRequests: a request may be merged with another *)
(* one, and every attempt is one that was owed.                            *)
THEOREM Implementation == Spec => ImplementsRequests
<1>1. Init => Requests!Init
  BY DEF Init, Requests!Init, Alive, Procs
<1>2. SyncInv /\ [Next]_vars => [Requests!Next]_(Requests!vars)
  <2> SUFFICES ASSUME SyncInv, [Next]_vars
               PROVE  [Requests!Next]_(Requests!vars)
    OBVIOUS
  <2> USE CallersAssumption
      DEF SyncInv, TypeOK, Procs, CallerStates, MainStates, Alive,
          Requests!Next, Requests!vars,
          chanVars, runnerVars, packageVars, stateVars, servedVars
  <2>1. CASE Alive /\ ChangeState
    BY <2>1 DEF ChangeState, Requests!Change, Owed
  <2>2. ASSUME NEW c \in Callers, Alive, EnterQueue(c) \/ DropCall(c)
        PROVE  Requests!Request
    <3>1. Owed'
      <4>1. CASE EnterQueue(c)
        BY <4>1 DEF EnterQueue, Owed
      <4>2. CASE DropCall(c)
        BY <4>2 DEF DropCall, QueueInv, InQueue, Owed
      <4> QED BY <2>2, <4>1, <4>2
    <3> QED
      BY <2>2, <3>1 DEF EnterQueue, DropCall, Requests!Request
  <2>3. ASSUME NEW p \in Procs, Alive, SetHealth(p)
        PROVE  Requests!Attempt
    BY <2>3 DEF SetHealth, Goto, Fail, Interrupt, Owed, Requests!Attempt
  <2>4. ASSUME NEW c \in Callers, Queued(c)
        PROVE  /\ Owed /\ Owed'
               /\ UNCHANGED <<version, requested, attempted, pc[Main]>>
    <3>1. Owed /\ UNCHANGED <<version, requested, attempted, pc[Main]>>
      BY <2>4 DEF Queued, Acquire, LeaveQueue, Spawn, Owed
    <3>2. pc'[c] \in {"ahead", "clear"} \/ runner'[c] = "health"
      BY <2>4 DEF Queued, Acquire, LeaveQueue, Spawn
    <3> QED
      BY <3>1, <3>2 DEF Owed
  <2>5. ASSUME NEW p \in Procs, RunnerStep(p), ~SetHealth(p)
        PROVE  /\ UNCHANGED <<version, requested, attempted>>
               /\ Owed' <=> Owed
               /\ \/ pc'[Main] = pc[Main]
                  \/ pc[Main] = "running" /\ pc'[Main] = "returning"
    <3>1. /\ UNCHANGED <<version, requested, attempted>>
          /\ runner[p] # "health"
          /\ \E to \in RunnerStates \ {"health"} :
               runner' = [runner EXCEPT ![p] = to]
          /\ \/ pc' = pc
             \/ p = Main /\ pc' = [pc EXCEPT ![Main] = "returning"]
      BY <2>5 DEF RunnerStep, Runner, Goto, Fail, Interrupt, ReadSites, SyncApps,
         SyncConfiguration, RestartNginx, RestartApi, StoreError, SetComplete,
         Release, RunRelease, RunnerStates
    <3>2. \A c \in Callers : pc'[c] = pc[c]
      BY <3>1
    <3>3. p = Main => pc[Main] = "running"
      BY <2>5, RunnerFrame
    <3>4. \A q \in Procs : runner'[q] = "health" <=> runner[q] = "health"
      BY <3>1
    <3> QED
      BY <3>1, <3>2, <3>3, <3>4 DEF Owed
  <2>6. CASE Alive /\ RunAcquire
    BY <2>6 DEF RunAcquire, Owed
  <2>7. CASE Alive /\ (RunReturn \/ MainEnds)
    BY <2>7 DEF RunReturn, MainEnds, Owed, Requests!Stop
  <2>8. CASE UNCHANGED vars
    BY <2>8 DEF vars, Owed
  <2>9. ASSUME NEW c \in Callers, Queued(c)
        PROVE  UNCHANGED Requests!vars
    BY <2>4, <2>9
  <2>10. ASSUME NEW p \in Procs, Alive, RunnerStep(p)
         PROVE  [Requests!Next]_(Requests!vars)
    BY <2>3, <2>5, <2>10
  <2>11. Main \in Procs /\ Callers \subseteq Procs
    OBVIOUS
  <2> HIDE DEF SyncInv, TypeOK, Procs, Alive, Requests!Next, Requests!vars
  <2>12. ASSUME NEW c \in Callers, Alive,
                EnterQueue(c) \/ DropCall(c) \/ Queued(c) \/ Release(c)
         PROVE  [Requests!Next]_(Requests!vars)
    BY <2>2, <2>9, <2>10, <2>11, <2>12 DEF RunnerStep, Requests!Next
  <2>13. CASE Alive /\ RunRelease
    BY <2>10, <2>11, <2>13 DEF RunnerStep
  <2> QED
    BY <2>1, <2>6, <2>7, <2>8, <2>10, <2>12, <2>13 DEF Next, RunnerStep
<1> QED
  BY <1>1, <1>2, SyncInvariant, PTL DEF Spec, ImplementsRequests, Requests!Spec

-----------------------------------------------------------------------------
(* The server *)

(* The parts of the type invariant that the proofs need.                   *)
ServerTypes ==
  /\ loop \in {"spawn", "select", "draining", "terminating"}
  /\ spawned \in 0..MaxServers
  /\ server \in [Servers -> {"none", "new", "assigned", "bound", "serving",
                             "closed"}]
  /\ misc \in [Procs -> {"cert", "key", "done"}]
  /\ DOMAIN pair = Procs /\ DOMAIN restart = Procs
  /\ overlapped \in BOOLEAN /\ lost \in BOOLEAN

(* Servers that can hold the port when no restarts have overlapped.        *)
PortInv ==
  /\ \A i \in Servers : i > spawned => server[i] = "none"
  /\ loop \in {"select", "terminating", "draining"} => spawned # 0
  /\ ~overlapped =>
       /\ \A i \in 1..spawned :
            i # spawned \/ loop \in {"draining", "spawn"} => server[i] = "closed"
       /\ loop = "select" => server[spawned] = "new" \/ srv = spawned

(* A sync between the two files owes the second one, or has failed.        *)
BetweenFiles(p) ==
  /\ runner[p] \in {"apps", "store"}
  /\ runner[p] = "apps" => pair[p] = certFile
  /\ certFile # keyFile => lost \/ (runner[p] = "apps" /\ restart[p])

FilesInv ==
  /\ \A p \in Procs : misc[p] = "key" => BetweenFiles(p)
  /\ certFile # keyFile => lost \/ \E p \in Procs : misc[p] = "key"

(* A node with a certificate: a sync that is past the files of the node    *)
(* has written them, and so has the first one before there is a server,    *)
(* unless it has failed.  A file that was torn later is known as lost.     *)
Written == certFile # Torn \/ lost
Past(p) ==
  \/ runner[p] \in {"nginx", "restartNginx", "restartApi"}
  \/ runner[p] \in {"store", "complete", "release"} /\ err[p] = "nil"

CertInv ==
  /\ renewed \in Nat \ {Torn}
  /\ left \in Environment
  /\ left.tls =>
       /\ \A p \in Procs : misc[p] # "cert" \/ Past(p) => Written
       /\ pc[Main] \in {"returning", "serving"} => Written \/ err[Main] = "error"

CauseInv == cause # "none" => ~Alive

(* The last server of the loop was not shut down while the loop can start  *)
(* another restart; only a server that was assigned has the port.          *)
LastInv ==
  /\ srv \in 0..spawned /\ stopped \subseteq 0..spawned
  /\ \A i \in Servers : server[i] = "closed" => i \in stopped
  /\ loop = "select" => spawned \notin stopped
  /\ Alive => \A i \in Servers :
                 server[i] \in {"assigned", "bound", "serving"} => running

(* A sync that has changed the certificate and has still to restart.       *)
OwesRestart(p) ==
  restart[p] /\ runner[p] \in {"apps", "nginx", "restartNginx", "restartApi"}

(* A certificate that the last server has not loaded is owed by a sync.    *)
LoadedInv ==
  /\ \A p \in Procs : misc[p] = "cert" => ~restart[p]
  /\ Alive /\ ~lost /\ loop = "select" /\ server[spawned] = "serving"
     => loaded = certFile \/ \E p \in Procs : OwesRestart(p)

ApiInv ==
  ServerTypes /\ PortInv /\ FilesInv /\ CertInv /\ CauseInv /\ RestartIsSafe

-----------------------------------------------------------------------------
(* The composition and the queue *)

LEMMA RunnerOfQueue ==
  ASSUME NEW p \in Procs, ApiRunner(p)
  PROVE  Runner(p) \/ UNCHANGED vars
BY DEF ApiRunner, SyncStep, WriteCert, WriteKey, Tear, SyncState, SyncServer,
       ReloadNginx, RestartFromSync, EndSync, Runner, SyncApps

LEMMA EndOfQueue ==
  ASSUME LoopStep \/ Terminate \/ \E i \in Servers : ServerStep(i)
  PROVE  MainEnds \/ UNCHANGED vars
BY DEF LoopStep, SpawnServer, Drained, DrainTimeout, StartReturns, Terminate,
       ServerStep, Assign, Abandon, Listen, Serve, ServerPanics, Ends

(* Every step of the process is one of the queue or leaves it alone.       *)
LEMMA StepOfQueue == [ApiNext]_apiVars => [Next]_vars
<1> SUFFICES ASSUME [ApiNext]_apiVars PROVE [Next]_vars
  OBVIOUS
<1>1. CASE UNCHANGED apiVars
  BY <1>1 DEF apiVars
<1>2. CASE ApiNext
  <2> Alive
    BY <1>2 DEF ApiNext
  <2>1. CASE Change
    BY <2>1 DEF Change, Next
  <2>2. CASE Renew \/ Signal
    BY <2>2 DEF Renew, Signal
  <2>3. CASE LoopStep \/ Terminate \/ \E i \in Servers : ServerStep(i)
    BY <2>3, EndOfQueue DEF Next
  <2>4. CASE SignalStep
    <3>1. CASE RestartFromSignal
      BY <3>1 DEF RestartFromSignal
    <3>2. ASSUME NEW c \in Resyncs, CallFromSignal(c) PROVE Next
      BY <3>2, RolesAssumption DEF CallFromSignal, Call, Next
    <3> QED
      BY <2>4, <3>1, <3>2 DEF SignalStep
  <2>5. ASSUME NEW p \in Procs, ApiRunner(p) PROVE [Next]_vars
    BY <2>5, RunnerOfQueue DEF Next
  <2>6. ASSUME NEW h \in Handlers,
               \/ \E i \in Servers : Accept(h, i)
               \/ CallFromRequest(h) \/ Respond(h)
        PROVE  [Next]_vars
    BY <2>6, RolesAssumption
    DEF Accept, CallFromRequest, Respond, Call, Next
  <2>7. ASSUME NEW c \in Others, CallFromOther(c) PROVE Next
    BY <2>7 DEF CallFromOther, Call, Others, Next
  <2>8. ASSUME NEW c \in Callers, QueueStep(c) \/ ReleaseStep(c) PROVE Next
    BY <2>8 DEF QueueStep, ReleaseStep, Next
  <2>9. CASE AcquireStep \/ MainStep
    BY <2>9 DEF AcquireStep, MainStep, Next
  <2> QED
    BY <1>2, <2>1, <2>2, <2>3, <2>4, <2>5, <2>6, <2>7, <2>8, <2>9 DEF ApiNext
<1> QED
  BY <1>1, <1>2

(* The process that starts and restarts the API server, and its requests   *)
(* and signals, use the queue as SyncQueue says.                           *)
THEOREM Composition == ApiSpec => Spec
<1>1. ApiInit => Init
  BY DEF ApiInit
<1> QED
  BY <1>1, StepOfQueue, PTL DEF ApiSpec, Spec

(* Also with the API server, at most one sync runs.                        *)
THEOREM OneRunnerInProcess == ApiSpec => []OneRunner
BY Composition, OneRunnerAlways, PTL

(* Also with the API server, no request of a sync is lost.                 *)
THEOREM NoRequestLostInProcess == ApiSpec => []NoRequestLost
BY Composition, NoRequestLostAlways, PTL

(* Also with the API server, whose restarts a sync waits for, a process at *)
(* rest without an error serves what was last requested ...                *)
THEOREM QuietInProcess == ApiSpec => []QuietMeansApplied
BY Composition, QuietMeansAppliedAlways, PTL

(* ... and its syncs are those of the abstract specification.              *)
THEOREM ImplementationInProcess == ApiSpec => ImplementsRequests
BY Composition, Implementation, PTL

-----------------------------------------------------------------------------
(* Restarts *)

LEMMA ApiInitInv == ApiInit => ApiInv
<1> SUFFICES ASSUME ApiInit PROVE ApiInv
  OBVIOUS
<1>1. ServerTypes
  <2>1. FirstFile \in {"cert", "key", "done"}
    BY DEF FirstFile
  <2>2. misc \in [Procs -> {"cert", "key", "done"}]
    BY <2>1 DEF ApiInit
  <2>3. spawned \in 0..MaxServers
    BY MaxServersAssumption DEF ApiInit
  <2>4. /\ server \in [Servers -> {"none", "new", "assigned", "bound",
                                  "serving", "closed"}]
        /\ DOMAIN pair = Procs /\ DOMAIN restart = Procs
    BY DEF ApiInit
  <2>5. loop = "spawn" /\ overlapped = FALSE /\ lost = FALSE
    BY DEF ApiInit
  <2> QED
    BY <2>2, <2>3, <2>4, <2>5 DEF ServerTypes
<1>2. PortInv
  BY MaxServersAssumption DEF ApiInit, PortInv, Servers
<1>3. FilesInv
  <2>1. \A p \in Procs : misc[p] # "key"
    BY DEF ApiInit, FirstFile
  <2>2. certFile = keyFile
    BY DEF ApiInit
  <2> QED
    BY <2>1, <2>2 DEF FilesInv
<1>4. CauseInv /\ RestartIsSafe
  BY DEF ApiInit, CauseInv, RestartIsSafe
<1>5. CertInv
  <2>1. \A p \in Procs : runner[p] = "off" /\ ~Past(p)
    BY DEF ApiInit, Init, Past
  <2>2. left \in Environment /\ pc[Main] = "start"
    BY ScenariosAssumption DEF ApiInit, Init, Procs
  <2>3. left.tls => \A p \in Procs : misc[p] = "cert"
    BY DEF ApiInit, FirstFile
  <2> QED
    BY <2>1, <2>2, <2>3 DEF ApiInit, CertInv, Torn
<1> QED
  BY <1>1, <1>2, <1>3, <1>4, <1>5 DEF ApiInv

LEMMA NextTypes == ServerTypes /\ [ApiNext]_apiVars => ServerTypes'
<1> SUFFICES ASSUME ServerTypes, [ApiNext]_apiVars PROVE ServerTypes'
  OBVIOUS
<1> USE MaxServersAssumption
    DEF ServerTypes, Servers, loopVars, certVars, historyVars
<1>1. CASE UNCHANGED apiVars
  BY <1>1 DEF apiVars, apiOnlyVars
<1>2. CASE Change \/ Renew \/ Signal
  BY <1>2 DEF Change, Renew, Signal, apiOnlyVars
<1>3. CASE LoopStep
  <2>1. CASE SpawnServer
    BY <2>1 DEF SpawnServer
  <2>2. CASE Drained \/ DrainTimeout \/ StartReturns
    BY <2>2 DEF Drained, DrainTimeout, StartReturns
  <2> QED
    BY <1>3, <2>1, <2>2 DEF LoopStep
<1>4. CASE Terminate
  BY <1>4 DEF Terminate, Shutdown
<1>5. ASSUME NEW i \in Servers, ServerStep(i) PROVE ServerTypes'
  BY <1>5
  DEF ServerStep, Assign, Abandon, Listen, Serve, ServerPanics, At
<1>6. CASE SignalStep
  BY <1>6 DEF SignalStep, RestartFromSignal, CallFromSignal, Restart, Shutdown
<1>7. ASSUME NEW p \in Procs, ApiRunner(p) PROVE ServerTypes'
  <2>1. CASE SyncStep(p)
    BY <2>1 DEF SyncStep, apiOnlyVars
  <2>2. CASE WriteCert(p) \/ WriteKey(p) \/ Tear(p)
    BY <2>2 DEF WriteCert, WriteKey, Tear
  <2>3. CASE SyncState(p) \/ SyncServer(p) \/ ReloadNginx(p)
    BY <2>3 DEF SyncState, SyncServer, ReloadNginx, Forget
  <2>4. CASE RestartFromSync(p)
    BY <2>4 DEF RestartFromSync, Restart, Shutdown
  <2>5. CASE EndSync(p)
    BY <2>5 DEF EndSync, FirstFile
  <2> QED
    BY <1>7, <2>1, <2>2, <2>3, <2>4, <2>5 DEF ApiRunner
<1>8. ASSUME NEW h \in Handlers,
             \/ \E i \in Servers : Accept(h, i)
             \/ CallFromRequest(h) \/ Respond(h)
      PROVE  ServerTypes'
  BY <1>8 DEF Accept, CallFromRequest, Respond
<1>9. ASSUME NEW c \in Callers,
             CallFromOther(c) \/ QueueStep(c) \/ ReleaseStep(c)
      PROVE  ServerTypes'
  BY <1>9 DEF CallFromOther, QueueStep, ReleaseStep, apiOnlyVars
<1>10. CASE AcquireStep \/ MainStep
  BY <1>10 DEF AcquireStep, MainStep, apiOnlyVars
<1> QED
  BY <1>1, <1>2, <1>3, <1>4, <1>5, <1>6, <1>7, <1>8, <1>9, <1>10
  DEF ApiNext, Others

(* Steps that leave the loop and the servers alone.                        *)
LEMMA PortFrame ==
  ASSUME PortInv, UNCHANGED <<loopVars, overlapped>>
  PROVE  PortInv'
BY DEF PortInv, loopVars, Servers

LEMMA RestartKeepsPort ==
  ASSUME ServerTypes, PortInv, Restart
  PROVE  PortInv'
<1> USE MaxServersAssumption DEF ServerTypes, PortInv, Servers
<1>1. CASE ~running
  BY <1>1 DEF Restart, loopVars
<1>2. CASE running
  <2>1. /\ loop' = "draining" /\ spawned' = spawned /\ spawned # 0
        /\ server' = [server EXCEPT ![srv] = IF @ = "serving" THEN "closed"
                                             ELSE @]
        /\ overlapped' = (overlapped \/ server[spawned] # "serving")
    BY <1>2 DEF Restart, Shutdown
  <2>2. \A i \in Servers : i > spawned' => server'[i] = "none"
    BY <2>1
  <2>3. ASSUME ~overlapped', NEW i \in 1..spawned PROVE server'[i] = "closed"
    <3>1. ~overlapped /\ server[spawned] = "serving" /\ srv = spawned
      BY <1>2, <2>1, <2>3 DEF Restart
    <3> QED
      BY <2>1, <3>1
  <2> QED
    BY <2>1, <2>2, <2>3
<1> QED
  BY <1>1, <1>2

LEMMA NextPort == ServerTypes /\ PortInv /\ [ApiNext]_apiVars => PortInv'
<1> SUFFICES ASSUME ServerTypes, PortInv, [ApiNext]_apiVars PROVE PortInv'
  OBVIOUS
<1> USE MaxServersAssumption DEF Servers
<1>1. CASE UNCHANGED apiVars
  BY <1>1, PortFrame DEF apiVars, apiOnlyVars, historyVars
<1>2. CASE Change \/ Renew \/ Signal
  BY <1>2, PortFrame DEF Change, Renew, Signal, apiOnlyVars, historyVars
<1>3. CASE LoopStep
  <2>1. CASE SpawnServer
    BY <2>1 DEF SpawnServer, PortInv, ServerTypes, historyVars
  <2>2. CASE Drained
    BY <2>2 DEF Drained, PortInv, ServerTypes, historyVars
  <2>3. CASE DrainTimeout
    BY <2>3, PortFrame DEF DrainTimeout
  <2>4. CASE StartReturns
    BY <2>4 DEF StartReturns, PortInv, ServerTypes
  <2> QED
    BY <1>3, <2>1, <2>2, <2>3, <2>4 DEF LoopStep
<1>4. CASE Terminate
  <2>1. CASE srv = 0
    BY <1>4, <2>1, PortFrame DEF Terminate
  <2>2. CASE srv # 0
    BY <1>4, <2>2 DEF Terminate, Shutdown, PortInv, ServerTypes
  <2> QED
    BY <2>1, <2>2
<1>5. ASSUME NEW i \in Servers, ServerStep(i) PROVE PortInv'
  <2>1. CASE Assign(i)
    BY <2>1 DEF Assign, At, PortInv, ServerTypes, historyVars
  <2>2. CASE Abandon(i) \/ Listen(i)
    BY <2>2 DEF Abandon, Listen, At, PortInv, ServerTypes, historyVars
  <2>3. CASE Serve(i)
    BY <2>3 DEF Serve, At, PortInv, ServerTypes
  <2>4. CASE ServerPanics(i)
    BY <2>4, PortFrame DEF ServerPanics
  <2> QED
    BY <1>5, <2>1, <2>2, <2>3, <2>4 DEF ServerStep
<1>6. CASE SignalStep
  BY <1>6, PortFrame, RestartKeepsPort
  DEF SignalStep, RestartFromSignal, CallFromSignal, historyVars
<1>7. ASSUME NEW p \in Procs, ApiRunner(p) PROVE PortInv'
  BY <1>7, PortFrame, RestartKeepsPort
  DEF ApiRunner, SyncStep, WriteCert, WriteKey, Tear, SyncState, SyncServer,
      ReloadNginx, RestartFromSync, EndSync, apiOnlyVars, historyVars
<1>8. ASSUME NEW h \in Handlers,
             \/ \E i \in Servers : Accept(h, i)
             \/ CallFromRequest(h) \/ Respond(h)
      PROVE  PortInv'
  BY <1>8, PortFrame DEF Accept, CallFromRequest, Respond, historyVars
<1>9. ASSUME NEW c \in Callers,
             CallFromOther(c) \/ QueueStep(c) \/ ReleaseStep(c)
      PROVE  PortInv'
  BY <1>9, PortFrame
  DEF CallFromOther, QueueStep, ReleaseStep, apiOnlyVars, historyVars
<1>10. CASE AcquireStep \/ MainStep
  BY <1>10, PortFrame DEF AcquireStep, MainStep, apiOnlyVars, historyVars
<1> QED
  BY <1>1, <1>2, <1>3, <1>4, <1>5, <1>6, <1>7, <1>8, <1>9, <1>10
  DEF ApiNext, Others

-----------------------------------------------------------------------------
(* The files of the certificate *)

LEMMA FilesFrame ==
  ASSUME FilesInv,
         UNCHANGED <<certFile, keyFile, misc, pair, restart, lost>>,
         \A p \in Procs : misc[p] = "key" => runner'[p] = runner[p]
  PROVE  FilesInv'
BY DEF FilesInv, BetweenFiles

(* Steps of the queue that do not come from a runner start one at most,    *)
(* where none is.                                                          *)
LEMMA QueueKeepsRunners ==
  ASSUME SyncInv,
         \/ ChangeState \/ RunAcquire \/ RunRelease \/ RunReturn \/ MainEnds
         \/ \E c \in Callers : \/ EnterQueue(c) \/ DropCall(c)
                               \/ Queued(c) \/ Release(c)
  PROVE  \A p \in Procs :
           runner[p] \notin {"off", "release"} => runner'[p] = runner[p]
<1> USE CallersAssumption
    DEF SyncInv, TypeOK, Procs, SemaphoreInv, Running, Holds, AtSemaphore,
        chanVars, runnerVars
<1>1. CASE ChangeState \/ RunReturn \/ MainEnds
  BY <1>1 DEF ChangeState, RunReturn, MainEnds
<1>2. CASE RunAcquire \/ RunRelease
  BY <1>2 DEF RunAcquire, RunRelease, Goto
<1>3. ASSUME NEW c \in Callers, EnterQueue(c) \/ DropCall(c) \/ Release(c)
      PROVE  \A p \in Procs :
               runner[p] \notin {"off", "release"} => runner'[p] = runner[p]
  BY <1>3 DEF EnterQueue, DropCall, Release, Goto
<1>4. ASSUME NEW c \in Callers, Queued(c)
      PROVE  \A p \in Procs :
               runner[p] \notin {"off", "release"} => runner'[p] = runner[p]
  BY <1>4 DEF Queued, Acquire, LeaveQueue, Spawn
<1> QED
  BY <1>1, <1>2, <1>3, <1>4

LEMMA RunnerKeepsFiles ==
  ASSUME SyncInv, ServerTypes, FilesInv, NEW p \in Procs, ApiRunner(p)
  PROVE  FilesInv'
<1>1. \A q \in Procs : misc[q] = "key" => q = p
  BY DEF SyncInv, SemaphoreInv, Holds, Running, FilesInv, BetweenFiles,
     ApiRunner, SyncStep, WriteCert, WriteKey, Tear, SyncState, SyncServer,
     ReloadNginx, RestartFromSync, EndSync, SetHealth, ReadSites, SetComplete,
     SyncApps, SyncConfiguration, RestartNginx, RestartApi, StoreError, Goto,
     Fail, Interrupt
<1>2. runner \in [Procs -> RunnerStates] /\ err \in [Procs -> Errors]
  BY DEF SyncInv, TypeOK
<1> USE <1>1, <1>2 DEF FilesInv, BetweenFiles, ServerTypes
<1>3. CASE SyncStep(p)
  BY <1>3
  DEF SyncStep, SetHealth, ReadSites, SetComplete, Goto, Fail, Interrupt, apiOnlyVars,
      certVars, historyVars
<1>4. CASE WriteCert(p)
  BY <1>4 DEF WriteCert, vars, runnerVars, historyVars
<1>5. CASE WriteKey(p)
  BY <1>5 DEF WriteKey, vars, runnerVars, historyVars
<1>6. CASE SyncState(p)
  <2>1. UNCHANGED <<certFile, keyFile, misc, pair, restart>>
    BY <1>6 DEF SyncState, certVars
  <2>2. CASE runner'[p] = "nginx"
    <3>1. misc[p] = "done" /\ (lost => lost')
      BY <1>6, <2>2 DEF SyncState, Forget
    <3> QED
      BY <2>1, <3>1
  <2>3. CASE Fail(p, "apps")
    <3>1. runner'[p] = "store" /\ lost' = (lost \/ restart[p])
      BY <1>6, <2>3 DEF SyncState, Fail, Goto, Forget
    <3> QED
      BY <2>1, <3>1
  <2> QED
    BY <1>6, <2>2, <2>3 DEF SyncState, SyncApps, Goto, Interrupt
<1>10. CASE Tear(p)
  <2>1. /\ runner'[p] = "store" /\ lost' = TRUE
        /\ UNCHANGED <<misc, pair, restart>>
    BY <1>10 DEF Tear, Interrupt, Fail, Goto
  <2> QED
    BY <2>1
<1>7. CASE SyncServer(p) \/ ReloadNginx(p)
  BY <1>7
  DEF SyncServer, ReloadNginx, SyncConfiguration, RestartNginx, Goto, Fail, Interrupt,
      Forget, certVars
<1>8. CASE RestartFromSync(p)
  BY <1>8 DEF RestartFromSync, RestartApi, Goto, certVars
<1>9. CASE EndSync(p)
  BY <1>9 DEF EndSync, StoreError, Goto, FirstFile, historyVars
<1> QED
  BY <1>3, <1>4, <1>5, <1>6, <1>7, <1>8, <1>9, <1>10 DEF ApiRunner

LEMMA NextFiles ==
  SyncInv /\ ServerTypes /\ FilesInv /\ [ApiNext]_apiVars => FilesInv'
<1> SUFFICES ASSUME SyncInv, ServerTypes, FilesInv, [ApiNext]_apiVars
             PROVE  FilesInv'
  OBVIOUS
<1>1. CASE UNCHANGED apiVars
  BY <1>1, FilesFrame
  DEF apiVars, apiOnlyVars, vars, runnerVars, certVars, historyVars
<1>2. CASE Renew \/ Signal
  BY <1>2, FilesFrame DEF Renew, Signal, vars, runnerVars, certVars, historyVars
<1>3. CASE Change \/ AcquireStep \/ MainStep
  BY <1>3, FilesFrame, QueueKeepsRunners
  DEF Change, AcquireStep, MainStep, apiOnlyVars, certVars, historyVars,
      FilesInv, BetweenFiles
<1>4. CASE LoopStep \/ Terminate
  <2>1. /\ UNCHANGED <<certVars, lost>>
        /\ MainEnds \/ UNCHANGED vars
    BY <1>4, EndOfQueue
    DEF LoopStep, SpawnServer, Drained, DrainTimeout, StartReturns, Terminate,
        historyVars
  <2> QED
    BY <2>1, FilesFrame DEF MainEnds, vars, runnerVars, certVars
<1>5. ASSUME NEW i \in Servers, ServerStep(i) PROVE FilesInv'
  <2>1. CASE Serve(i)
    BY <2>1 DEF Serve, Loadable, FilesInv, BetweenFiles, vars, runnerVars
  <2>2. CASE Assign(i) \/ Abandon(i) \/ Listen(i)
    BY <2>2, FilesFrame
    DEF Assign, Abandon, Listen, vars, runnerVars, certVars, historyVars
  <2>3. CASE ServerPanics(i)
    BY <2>3, FilesFrame DEF ServerPanics, Ends, MainEnds, runnerVars, certVars
  <2> QED
    BY <1>5, <2>1, <2>2, <2>3 DEF ServerStep
<1>6. ASSUME NEW p \in Procs, ApiRunner(p) PROVE FilesInv'
  BY <1>6, RunnerKeepsFiles
<1>7. ASSUME NEW h \in Handlers,
             (\E i \in Servers : Accept(h, i)) \/ Respond(h)
      PROVE  FilesInv'
  BY <1>7, FilesFrame
  DEF Accept, Respond, vars, runnerVars, certVars, historyVars
<1>8. ASSUME NEW c \in Callers, EnterQueue(c) \/ DropCall(c),
             UNCHANGED <<certVars, historyVars>>
      PROVE  FilesInv'
  BY <1>8, FilesFrame
  DEF EnterQueue, DropCall, runnerVars, certVars, historyVars
<1>9. ASSUME NEW c \in Callers, QueueStep(c) \/ ReleaseStep(c) PROVE FilesInv'
  <2>1. /\ UNCHANGED <<certFile, keyFile, misc, pair, restart, lost>>
        /\ Queued(c) \/ Release(c)
    BY <1>9
    DEF QueueStep, ReleaseStep, apiOnlyVars, certVars, historyVars
  <2> QED
    BY <2>1, FilesFrame, QueueKeepsRunners DEF FilesInv, BetweenFiles
<1>10. CASE SignalStep
  <2>1. CASE RestartFromSignal
    BY <2>1, FilesFrame DEF RestartFromSignal, vars, runnerVars, certVars
  <2>2. ASSUME NEW c \in Resyncs, CallFromSignal(c) PROVE FilesInv'
    BY <2>2, <1>8, RolesAssumption DEF CallFromSignal, Call
  <2> QED
    BY <1>10, <2>1, <2>2 DEF SignalStep
<1>11. ASSUME NEW h \in Handlers, CallFromRequest(h) PROVE FilesInv'
  BY <1>11, <1>8, RolesAssumption DEF CallFromRequest, Call
<1>12. ASSUME NEW c \in Others, CallFromOther(c) PROVE FilesInv'
  BY <1>12, <1>8 DEF CallFromOther, Call, Others, apiOnlyVars
<1> QED
  BY <1>1, <1>2, <1>3, <1>4, <1>5, <1>6, <1>7, <1>9, <1>10, <1>11, <1>12
  DEF ApiNext

-----------------------------------------------------------------------------
(* The certificate of the first server *)

(* What was written stays so, or is known as lost.                         *)
LEMMA WrittenStays ==
  ASSUME CertInv, [ApiNext]_apiVars
  PROVE  /\ renewed' \in Nat \ {Torn}
         /\ left' \in Environment /\ left'.tls = left.tls
         /\ left.tls /\ Written => Written'
<1> USE DEF CertInv, Written
<1>1. CASE Renew \/ Signal \/ Terminate \/ \E h \in Handlers, i \in Servers : Accept(h, i)
  <2>1. UNCHANGED <<certFile, lost>>
    BY <1>1 DEF Renew, Signal, Terminate, Accept, certVars, historyVars
  <2>2. renewed' = renewed \/ renewed' = renewed + 1
    BY <1>1 DEF Renew, Signal, Terminate, Accept, certVars, historyVars
  <2>3. /\ left' \in Environment
        /\ left'.tls = left.tls
    <3>1. CASE Renew \/ Signal
      BY <3>1 DEF Renew, Signal, Environment
    <3>2. CASE Terminate
      BY <3>2 DEF Terminate, Environment
    <3>3. ASSUME NEW h \in Handlers, NEW i \in Servers, Accept(h, i)
          PROVE  left' \in Environment /\ left'.tls = left.tls
      BY <3>3 DEF Accept, Environment
    <3> QED
      BY <1>1, <3>1, <3>2, <3>3
  <2> QED
    BY <2>1, <2>2, <2>3 DEF Torn
<1>2. ASSUME NEW i \in Servers, Serve(i)
      PROVE  UNCHANGED <<renewed, certFile, left>> /\ (left.tls => certFile # Torn)
  BY <1>2 DEF Serve, Loadable
<1>3. ASSUME NEW p \in Procs, ApiRunner(p)
      PROVE  UNCHANGED <<renewed, left>> /\ (Written => Written')
  <2>1. CASE WriteCert(p)
    BY <2>1 DEF WriteCert
  <2>2. CASE Tear(p)
    BY <2>2 DEF Tear
  <2>3. CASE SyncState(p) \/ SyncServer(p) \/ ReloadNginx(p)
    BY <2>3 DEF SyncState, SyncServer, ReloadNginx, Forget, certVars
  <2>4. CASE SyncStep(p) \/ WriteKey(p) \/ RestartFromSync(p) \/ EndSync(p)
    BY <2>4 DEF SyncStep, WriteKey, RestartFromSync, EndSync, apiOnlyVars,
       certVars, historyVars
  <2> QED
    BY <1>3, <2>1, <2>2, <2>3, <2>4 DEF ApiRunner
<1>4. \/ Renew \/ Signal \/ Terminate
      \/ \E h \in Handlers, i \in Servers : Accept(h, i)
      \/ \E i \in Servers : Serve(i)
      \/ \E p \in Procs : ApiRunner(p)
      \/ UNCHANGED <<renewed, left, certFile, lost>>
  BY DEF ApiNext, Change, LoopStep, SpawnServer, Drained, DrainTimeout,
     StartReturns, SignalStep, RestartFromSignal, CallFromSignal, ServerStep,
     Assign, Abandon, Listen, ServerPanics, CallFromRequest, Respond,
     CallFromOther, QueueStep, ReleaseStep, AcquireStep, MainStep, apiVars,
     apiOnlyVars, certVars, historyVars
<1>5. CASE UNCHANGED <<renewed, left, certFile, lost>>
  BY <1>5
<1> QED
  BY <1>1, <1>2, <1>3, <1>4, <1>5

(* Steps of the queue that do not come from a runner.                      *)
LEMMA QueueKeepsCert ==
  ASSUME SyncInv, CertInv, UNCHANGED misc,
         renewed' \in Nat \ {Torn}, left' \in Environment, left'.tls = left.tls,
         left.tls /\ Written => Written',
         \/ UNCHANGED vars
         \/ ChangeState \/ RunAcquire \/ RunRelease \/ RunReturn \/ MainEnds
         \/ \E c \in Callers : \/ EnterQueue(c) \/ DropCall(c)
                               \/ Queued(c) \/ Release(c)
  PROVE  CertInv'
<1> USE CallersAssumption DEF SyncInv, TypeOK, Procs, chanVars, runnerVars
<1>1. CASE UNCHANGED vars \/ ChangeState \/ RunReturn \/ MainEnds
  <2>1. /\ UNCHANGED <<runner, err>>
        /\ pc'[Main] \in {"returning", "serving"} =>
             pc[Main] \in {"returning", "serving"}
    BY <1>1 DEF vars, ChangeState, RunReturn, MainEnds
  <2> QED
    BY <2>1 DEF CertInv, Past
<1>2. CASE RunAcquire
  <2>1. /\ runner' = [runner EXCEPT ![Main] = "health"]
        /\ err' = err /\ pc'[Main] = "running"
    BY <1>2 DEF RunAcquire
  <2> QED
    BY <2>1 DEF CertInv, Past
<1>3. CASE RunRelease
  <2>1. /\ runner[Main] = "release" /\ err' = err
        /\ runner' = [runner EXCEPT ![Main] = "off"]
    BY <1>3 DEF RunRelease, Goto
  <2>2. Past(Main) \/ err[Main] = "error"
    BY <2>1 DEF Past, Errors
  <2> QED
    BY <2>1, <2>2 DEF CertInv, Past
<1>4. ASSUME NEW c \in Callers,
             EnterQueue(c) \/ DropCall(c) \/ Queued(c) \/ Release(c)
      PROVE  CertInv'
  <2>1. /\ pc'[Main] = pc[Main]
        /\ \/ UNCHANGED <<runner, err>>
           \/ \E to \in {"health", "off"} :
                /\ runner' = [runner EXCEPT ![c] = to]
                /\ err' = err \/ err' = [err EXCEPT ![c] = "nil"]
    BY <1>4 DEF EnterQueue, DropCall, Queued, Acquire, LeaveQueue, Spawn,
       Release, Goto
  <2> QED
    BY <2>1 DEF CertInv, Past
<1> QED
  BY <1>1, <1>2, <1>3, <1>4

LEMMA RunnerKeepsCert ==
  ASSUME SyncInv, ServerTypes, CertInv,
         renewed' \in Nat \ {Torn}, left' \in Environment,
         left'.tls = left.tls, left.tls /\ Written => Written',
         NEW p \in Procs, ApiRunner(p)
  PROVE  CertInv'
<1>1. left.tls /\ pc'[Main] \in {"returning", "serving"}
        => Written' \/ err'[Main] = "error"
  <2>1. CASE UNCHANGED vars
    BY <2>1 DEF CertInv, vars, runnerVars
  <2>2. CASE Runner(p)
    <3>1. /\ p = Main => pc[Main] = "running"
          /\ p # Main => err'[Main] = err[Main]
          /\ pc' = pc
      <4>1. SemaphoreInv /\ TypeOK /\ RunnerStep(p) /\ Main \in Procs
        BY <2>2 DEF SyncInv, RunnerStep, Procs
      <4>2. pc' = pc
        BY <2>2 DEF Runner, SetHealth, ReadSites, SyncApps, SyncConfiguration,
           RestartNginx, RestartApi, StoreError, SetComplete
      <4> QED
        BY <4>1, <4>2, RunnerFrame
    <3> QED
      BY <3>1 DEF CertInv
  <2> QED
    BY <2>1, <2>2, RunnerOfQueue
<1>2. ASSUME left.tls, NEW q \in Procs, misc'[q] # "cert" PROVE Written'
  <2>1. CASE WriteCert(p)
    BY <2>1 DEF WriteCert, Written, CertInv
  <2>2. CASE EndSync(p)
    BY <1>2, <2>2 DEF EndSync, FirstFile, ServerTypes, CertInv
  <2>3. CASE WriteKey(p)
    BY <1>2, <2>3 DEF WriteKey, ServerTypes, CertInv
  <2>4. CASE SyncStep(p) \/ Tear(p) \/ SyncState(p) \/ SyncServer(p)
             \/ ReloadNginx(p) \/ RestartFromSync(p)
    <3>1. misc' = misc
      BY <2>4 DEF SyncStep, Tear, SyncState, SyncServer, ReloadNginx,
         RestartFromSync, apiOnlyVars, certVars
    <3> QED
      BY <1>2, <3>1 DEF CertInv
  <2> QED
    BY <2>1, <2>2, <2>3, <2>4 DEF ApiRunner
<1>3. ASSUME left.tls, NEW q \in Procs, Past(q)' PROVE Written'
  <2>1. CASE UNCHANGED vars
    BY <1>3, <2>1 DEF CertInv, Past, vars, runnerVars
  <2>2. CASE Runner(p)
    <3>1. q = p
      <4>1. SemaphoreInv /\ TypeOK /\ RunnerStep(p)
        BY <2>2 DEF SyncInv, RunnerStep
      <4> QED
        BY <1>3, <4>1, RunnerFrame DEF Past
    <3>2. runner \in [Procs -> RunnerStates] /\ err \in [Procs -> Errors]
      BY DEF SyncInv, TypeOK
    <3>3. CASE SyncApps(p)
      <4>1. misc[p] = "done"
        <5>1. SyncState(p)
          BY <1>3, <3>1, <3>2, <3>3 DEF ApiRunner, SyncStep, WriteCert, WriteKey,
             Tear, SyncServer, ReloadNginx, RestartFromSync, EndSync, SyncApps,
             SetHealth, ReadSites, SetComplete, SyncConfiguration, RestartNginx,
             RestartApi, StoreError, Goto, Fail, Interrupt, vars, runnerVars, Past
        <5> QED
          BY <1>3, <3>1, <3>2, <5>1
          DEF SyncState, SyncApps, Goto, Fail, Interrupt, Past
      <4> QED
        BY <1>3, <4>1 DEF CertInv
    <3>4. CASE SetHealth(p) \/ ReadSites(p)
      BY <1>3, <3>1, <3>2, <3>4 DEF SetHealth, ReadSites, Goto, Fail, Past
    <3>5. CASE SyncConfiguration(p) \/ RestartNginx(p) \/ RestartApi(p)
               \/ StoreError(p) \/ SetComplete(p)
      <4>1. Past(p)
        BY <1>3, <3>1, <3>2, <3>5 DEF SyncConfiguration, RestartNginx,
           RestartApi, StoreError, SetComplete, Goto, Fail, Interrupt, Past
      <4> QED
        BY <1>3, <4>1 DEF CertInv
    <3> QED
      BY <2>2, <3>3, <3>4, <3>5 DEF Runner
  <2> QED
    BY <2>1, <2>2, RunnerOfQueue
<1> QED
  BY <1>1, <1>2, <1>3 DEF CertInv

LEMMA NextCert ==
  SyncInv /\ ServerTypes /\ CertInv /\ [ApiNext]_apiVars => CertInv'
<1> SUFFICES ASSUME SyncInv, ServerTypes, CertInv, [ApiNext]_apiVars
             PROVE  CertInv'
  OBVIOUS
<1>1. /\ renewed' \in Nat \ {Torn}
      /\ left' \in Environment /\ left'.tls = left.tls
      /\ left.tls /\ Written => Written'
  BY WrittenStays
<1>2. ASSUME NEW p \in Procs, ApiRunner(p) PROVE CertInv'
  BY <1>1, <1>2, RunnerKeepsCert DEF CertInv
<1>3. \/ \E p \in Procs : ApiRunner(p)
      \/ UNCHANGED misc
  BY DEF ApiNext, Change, Renew, Signal, Terminate, LoopStep, SpawnServer,
     Drained, DrainTimeout, StartReturns, SignalStep, RestartFromSignal,
     CallFromSignal, ServerStep, Assign, Abandon, Listen, Serve, ServerPanics,
     Accept, CallFromRequest, Respond, CallFromOther, QueueStep, ReleaseStep,
     AcquireStep, MainStep, apiVars, apiOnlyVars, certVars
<1>4. \/ \E p \in Procs : ApiRunner(p)
      \/ UNCHANGED vars
      \/ ChangeState \/ RunAcquire \/ RunRelease \/ RunReturn \/ MainEnds
      \/ \E c \in Callers : EnterQueue(c) \/ DropCall(c) \/ Queued(c) \/ Release(c)
  <2>1. CASE LoopStep \/ Terminate \/ \E i \in Servers : ServerStep(i)
    BY <2>1, EndOfQueue
  <2>2. CASE \/ Change \/ Renew \/ Signal \/ AcquireStep \/ MainStep
             \/ UNCHANGED apiVars
    BY <2>2 DEF Change, Renew, Signal, AcquireStep, MainStep, apiVars
  <2>3. CASE SignalStep
    BY <2>3, RolesAssumption DEF SignalStep, RestartFromSignal, CallFromSignal, Call
  <2>4. ASSUME NEW h \in Handlers,
               \/ \E i \in Servers : Accept(h, i)
               \/ CallFromRequest(h) \/ Respond(h)
        PROVE  \/ UNCHANGED vars
               \/ EnterQueue(h) \/ DropCall(h)
    BY <2>4 DEF Accept, CallFromRequest, Respond, Call
  <2>5. ASSUME NEW c \in Others, CallFromOther(c)
        PROVE  EnterQueue(c) \/ DropCall(c)
    BY <2>5 DEF CallFromOther, Call
  <2>6. ASSUME NEW c \in Callers, QueueStep(c) \/ ReleaseStep(c)
        PROVE  Queued(c) \/ Release(c)
    BY <2>6 DEF QueueStep, ReleaseStep
  <2>7. Handlers \subseteq Callers /\ Others \subseteq Callers
    BY RolesAssumption DEF Others
  <2> QED
    BY <2>1, <2>2, <2>3, <2>4, <2>5, <2>6, <2>7 DEF ApiNext
<1> QED
  BY <1>1, <1>2, <1>3, <1>4, QueueKeepsCert

-----------------------------------------------------------------------------
(* What ends the process *)

LEMMA NextCause ==
  ASSUME SyncInv, ServerTypes, PortInv, FilesInv, CertInv, CauseInv,
         RestartIsSafe, [ApiNext]_apiVars
  PROVE  CauseInv' /\ RestartIsSafe'
<1>1. CASE UNCHANGED apiVars
  BY <1>1
  DEF apiVars, apiOnlyVars, vars, certVars, historyVars, CauseInv,
      RestartIsSafe, Alive, runnerVars
<1>2. CASE ApiNext /\ cause' = cause
  BY <1>2 DEF ApiNext, CauseInv, RestartIsSafe
<1>3. CASE ApiNext /\ cause' # cause
  <2>1. \/ DrainTimeout \/ Terminate \/ StartReturns
        \/ \E i \in Servers : ServerPanics(i)
    BY <1>3
    DEF ApiNext, Change, Renew, Signal, LoopStep, SpawnServer, Drained,
        SignalStep, RestartFromSignal, CallFromSignal, ServerStep, Assign,
        Abandon, Listen, Serve, ApiRunner, SyncStep, WriteCert, WriteKey, Tear,
        SyncState, SyncServer, ReloadNginx, RestartFromSync, EndSync, Accept,
        CallFromRequest, Respond, CallFromOther, QueueStep, ReleaseStep,
        AcquireStep, MainStep, apiOnlyVars, historyVars
  <2>2. MainEnds
    BY <1>3, <2>1 DEF DrainTimeout, Terminate, StartReturns, ServerPanics, Ends
  <2>3. ~Alive'
    BY <2>2 DEF MainEnds, Alive, SyncInv, TypeOK, Procs
  <2>4. CASE DrainTimeout \/ Terminate \/ StartReturns
    BY <1>3, <2>3, <2>4
    DEF DrainTimeout, Terminate, StartReturns, Ends, CauseInv, RestartIsSafe
  <2>5. ASSUME NEW i \in Servers, ServerPanics(i)
        PROVE  CauseInv' /\ RestartIsSafe'
    <3>1. UNCHANGED <<overlapped, lost, misc>>
      BY <2>5 DEF ServerPanics, certVars
    <3>2. CASE cause' = "port"
      <4>1. PICK j \in Servers : HasPort(j) /\ server[i] = "assigned"
        BY <2>5, <3>2 DEF ServerPanics, Ends
      <4>2. i # j /\ server[i] # "closed" /\ server[j] # "closed"
        BY <4>1 DEF HasPort
      <4>3. overlapped
        BY <4>1, <4>2, MaxServersAssumption
        DEF PortInv, ServerTypes, Servers, HasPort
      <4> QED
        BY <2>3, <3>1, <3>2, <4>3 DEF CauseInv, RestartIsSafe
    <3>3. CASE cause' = "pair"
      <4>1. certFile # keyFile
        BY <2>5, <3>3 DEF ServerPanics, Ends
      <4> QED
        BY <2>3, <3>1, <3>3, <4>1 DEF CauseInv, RestartIsSafe, FilesInv
    <3>4. CASE cause' = "missing"
      <4>1. certFile = keyFile /\ ~Loadable /\ pc[Main] = "serving"
        BY <2>5, <3>4 DEF ServerPanics, Ends, MainEnds
      <4>2. lost \/ err[Main] = "error"
        BY <4>1 DEF Loadable, CertInv, Written
      <4>3. err' = err
        BY <2>2 DEF MainEnds, runnerVars
      <4> QED
        BY <2>3, <3>1, <3>4, <4>2, <4>3 DEF CauseInv, RestartIsSafe
    <3> QED
      BY <2>5, <3>2, <3>3, <3>4 DEF ServerPanics, Ends
  <2> QED
    BY <2>1, <2>4, <2>5
<1> QED
  BY <1>1, <1>2, <1>3

(* A restart that begins when the last one has ended does not find its own *)
(* predecessor on the port, and no server meets a certificate and a key    *)
(* that do not match, except between the two writes of a sync or after one *)
(* has failed there.                                                       *)
THEOREM RestartIsSafeAlways == ApiSpec => []RestartIsSafe
<1>1. ApiInit => ApiInv
  BY ApiInitInv
<1>2. SyncInv /\ ApiInv /\ [ApiNext]_apiVars => ApiInv'
  BY NextTypes, NextPort, NextFiles, NextCert, NextCause DEF ApiInv
<1>3. ApiInv => RestartIsSafe
  BY DEF ApiInv
<1> QED
  BY <1>1, <1>2, <1>3, Composition, SyncInvariant, PTL DEF ApiSpec

-----------------------------------------------------------------------------
(* The certificate that is served *)

LEMMA EndsProcess == SyncInv /\ MainEnds => ~Alive'
BY DEF MainEnds, Alive, SyncInv, TypeOK, Procs

LEMMA LastFrame ==
  ASSUME LastInv, UNCHANGED loopVars, Alive
  PROVE  LastInv'
BY DEF LastInv, loopVars

LEMMA RestartKeepsLast ==
  ASSUME ServerTypes, LastInv, Restart, Alive
  PROVE  LastInv'
<1>1. CASE running
  <2>1. /\ loop' = "draining" /\ stopped' = stopped \cup {srv}
        /\ server' = [server EXCEPT ![srv] = IF @ = "serving" THEN "closed"
                                             ELSE @]
        /\ UNCHANGED <<running, srv, spawned>>
    BY <1>1 DEF Restart, Shutdown
  <2> QED
    BY <1>1, <2>1, MaxServersAssumption DEF LastInv, ServerTypes, Servers
<1>2. CASE ~running
  BY <1>2, LastFrame DEF Restart
<1> QED
  BY <1>1, <1>2

LEMMA NextLast ==
  SyncInv /\ ServerTypes /\ PortInv /\ LastInv /\ [ApiNext]_apiVars => LastInv'
<1> SUFFICES ASSUME SyncInv, ServerTypes, PortInv, LastInv, [ApiNext]_apiVars
             PROVE  LastInv'
  OBVIOUS
<1> USE MaxServersAssumption DEF Servers
<1>1. CASE UNCHANGED apiVars
  BY <1>1 DEF apiVars, apiOnlyVars, vars, loopVars, LastInv, Alive
<1> SUFFICES ASSUME ApiNext, Alive PROVE LastInv'
  BY <1>1 DEF ApiNext
<1>2. CASE Change \/ Renew \/ Signal
  BY <1>2, LastFrame DEF Change, Renew, Signal, apiOnlyVars
<1>3. CASE LoopStep
  <2>1. CASE SpawnServer
    BY <2>1 DEF SpawnServer, LastInv, ServerTypes, PortInv
  <2>2. CASE Drained
    BY <2>2 DEF Drained, LastInv
  <2>3. CASE DrainTimeout
    BY <2>3, LastFrame DEF DrainTimeout
  <2>4. CASE StartReturns
    BY <2>4, EndsProcess DEF StartReturns, Ends, LastInv
  <2> QED
    BY <1>3, <2>1, <2>2, <2>3, <2>4 DEF LoopStep
<1>4. CASE Terminate
  <2>1. CASE srv = 0
    BY <1>4, <2>1, LastFrame DEF Terminate
  <2>2. CASE srv # 0
    <3>1. /\ loop' = "terminating" /\ stopped' = stopped \cup {srv}
          /\ server' = [server EXCEPT ![srv] = IF @ = "serving" THEN "closed"
                                               ELSE @]
          /\ UNCHANGED <<running, srv, spawned>>
      BY <1>4, <2>2 DEF Terminate, Shutdown
    <3> QED
      BY <3>1 DEF LastInv, ServerTypes
  <2> QED
    BY <2>1, <2>2
<1>5. ASSUME NEW i \in Servers, ServerStep(i) PROVE LastInv'
  <2>1. CASE Assign(i)
    <3>1. i \in 0..spawned
      BY <2>1 DEF Assign, At, PortInv, ServerTypes
    <3> QED
      BY <2>1, <3>1 DEF Assign, At, LastInv, ServerTypes
  <2>2. CASE Abandon(i)
    BY <2>2 DEF Abandon, At, LastInv, ServerTypes
  <2>3. CASE Listen(i) \/ Serve(i)
    <3>1. /\ server[i] \in {"assigned", "bound"}
          /\ \E to \in {"bound", "serving"} : server' = [server EXCEPT ![i] = to]
          /\ UNCHANGED <<srv, spawned, stopped, loop, running>>
      BY <2>3 DEF Listen, Serve, At
    <3>2. running
      BY <3>1 DEF LastInv
    <3>3. \A j \in Servers : server'[j] = "closed" => server[j] = "closed"
      BY <3>1 DEF ServerTypes
    <3> QED
      BY <3>1, <3>2, <3>3 DEF LastInv
  <2>4. CASE ServerPanics(i)
    BY <2>4, LastFrame DEF ServerPanics
  <2> QED
    BY <1>5, <2>1, <2>2, <2>3, <2>4 DEF ServerStep
<1>6. CASE SignalStep
  BY <1>6, LastFrame, RestartKeepsLast
  DEF SignalStep, RestartFromSignal, CallFromSignal
<1>7. ASSUME NEW p \in Procs, ApiRunner(p) PROVE LastInv'
  BY <1>7, LastFrame, RestartKeepsLast
  DEF ApiRunner, SyncStep, WriteCert, WriteKey, Tear, SyncState, SyncServer,
      ReloadNginx, RestartFromSync, EndSync, apiOnlyVars
<1>8. ASSUME NEW h \in Handlers,
             \/ \E i \in Servers : Accept(h, i)
             \/ CallFromRequest(h) \/ Respond(h)
      PROVE  LastInv'
  BY <1>8, LastFrame DEF Accept, CallFromRequest, Respond
<1>9. ASSUME NEW c \in Callers,
             CallFromOther(c) \/ QueueStep(c) \/ ReleaseStep(c)
      PROVE  LastInv'
  BY <1>9, LastFrame DEF CallFromOther, QueueStep, ReleaseStep, apiOnlyVars
<1>10. CASE AcquireStep \/ MainStep
  BY <1>10, LastFrame DEF AcquireStep, MainStep, apiOnlyVars
<1> QED
  BY <1>2, <1>3, <1>4, <1>5, <1>6, <1>7, <1>8, <1>9, <1>10
  DEF ApiNext, Others

(* Steps that leave the servers, the certificate and the runners alone.    *)
LEMMA LoadedFrame ==
  ASSUME LoadedInv, Alive,
         UNCHANGED <<loop, spawned, server, loaded, certFile, misc, restart,
                     lost>>,
         \A p \in Procs :
           runner[p] \notin {"off", "release"} => runner'[p] = runner[p]
  PROVE  LoadedInv'
BY DEF LoadedInv, OwesRestart

LEMMA RunnerKeepsLoaded ==
  ASSUME SyncInv, ServerTypes, PortInv, LastInv, LoadedInv, Alive,
         NEW p \in Procs, ApiRunner(p)
  PROVE  LoadedInv'
<1>1. runner \in [Procs -> RunnerStates] /\ err \in [Procs -> Errors]
  BY DEF SyncInv, TypeOK
<1> USE <1>1 DEF LoadedInv, OwesRestart, ServerTypes
<1>2. CASE SyncStep(p)
  BY <1>2
  DEF SyncStep, SetHealth, ReadSites, SetComplete, Goto, Fail, Interrupt, apiOnlyVars,
      loopVars, certVars, historyVars
<1>3. CASE WriteCert(p)
  BY <1>3 DEF WriteCert, vars, runnerVars, loopVars, historyVars
<1>4. CASE WriteKey(p)
  BY <1>4 DEF WriteKey, vars, runnerVars, loopVars, historyVars
<1>5. ASSUME UNCHANGED <<loopVars, certVars>>, Forget(p), runner[p] # "store",
             NEW to \in RunnerStates, Goto(p, runner[p], to),
             restart[p] => \/ to \in {"nginx", "restartNginx", "restartApi"}
                           \/ err'[p] = "error"
      PROVE  LoadedInv'
  <2>1. runner'[p] = to /\ \A q \in Procs \ {p} : runner'[q] = runner[q]
    BY <1>5 DEF Goto
  <2>2. CASE lost'
    BY <1>5, <2>2 DEF certVars
  <2>3. CASE ~lost'
    <3>1. ~lost /\ ~(restart[p] /\ err'[p] = "error")
      BY <1>5, <2>3 DEF Forget
    <3> QED
      BY <1>5, <2>1, <2>3, <3>1 DEF loopVars, certVars
  <2> QED
    BY <2>2, <2>3
<1>6. CASE SyncState(p)
  BY <1>5, <1>6 DEF SyncState, SyncApps, Goto, Fail, Interrupt, RunnerStates
<1>7. CASE SyncServer(p)
  <2>1. /\ UNCHANGED <<loopVars, certVars>> /\ Forget(p) /\ runner[p] = "nginx"
    BY <1>7 DEF SyncServer, SyncConfiguration, Goto, Fail, Interrupt
  <2>2. err'[p] = "error" \/ (restart[p] => runner'[p] = "restartNginx")
    <3>1. err'[p] \in Errors
      BY <1>7, StepOfConfiguration DEF SyncServer, Errors
    <3> QED
      BY <1>7, <3>1 DEF SyncServer, Errors
  <2>3. PICK to \in RunnerStates : Goto(p, "nginx", to)
    BY <1>7 DEF SyncServer, SyncConfiguration, Interrupt, Fail, Goto,
       RunnerStates
  <2>4. runner'[p] = to
    BY <2>3 DEF Goto
  <2> QED
    BY <1>5, <2>1, <2>2, <2>3, <2>4
<1>8. CASE ReloadNginx(p)
  BY <1>5, <1>8 DEF ReloadNginx, RestartNginx, Goto, Fail, Interrupt, RunnerStates, Errors
<1>9. CASE RestartFromSync(p)
  <2>1. UNCHANGED <<misc, restart>>
    BY <1>9 DEF RestartFromSync, certVars
  <2>2. CASE running
    BY <1>9, <2>1, <2>2 DEF RestartFromSync, Restart
  <2>3. CASE ~running
    <3>1. UNCHANGED <<loop, spawned, server>>
      BY <1>9, <2>3 DEF RestartFromSync, Restart, loopVars
    <3>2. ~(loop = "select" /\ server[spawned] = "serving")
      BY <2>3, MaxServersAssumption DEF LastInv, PortInv, ServerTypes, Servers
    <3> QED
      BY <2>1, <3>1, <3>2
  <2> QED
    BY <2>2, <2>3
<1>10. CASE EndSync(p)
  BY <1>10 DEF EndSync, StoreError, Goto, FirstFile, loopVars, historyVars
<1>11. CASE Tear(p)
  BY <1>11 DEF Tear
<1> QED
  BY <1>2, <1>3, <1>4, <1>6, <1>7, <1>8, <1>9, <1>10, <1>11 DEF ApiRunner

LEMMA NextLoaded ==
  ASSUME SyncInv, ServerTypes, PortInv, LastInv, LoadedInv, [ApiNext]_apiVars
  PROVE  LoadedInv'
<1>1. CASE UNCHANGED apiVars
  BY <1>1
  DEF apiVars, apiOnlyVars, vars, runnerVars, loopVars, certVars, historyVars,
      LoadedInv, OwesRestart, Alive
<1> SUFFICES ASSUME ApiNext, Alive PROVE LoadedInv'
  BY <1>1 DEF ApiNext
<1>2. CASE Renew \/ Signal
  BY <1>2, LoadedFrame
  DEF Renew, Signal, vars, runnerVars, loopVars, certVars, historyVars
<1>3. CASE Change \/ AcquireStep \/ MainStep
  BY <1>3, LoadedFrame, QueueKeepsRunners
  DEF Change, AcquireStep, MainStep, apiOnlyVars, loopVars, certVars,
      historyVars
<1>4. CASE LoopStep
  <2>1. CASE SpawnServer
    <3>1. server'[spawned'] = "new"
      BY <2>1, MaxServersAssumption DEF SpawnServer, ServerTypes, Servers
    <3> QED
      BY <2>1, <3>1 DEF SpawnServer, LoadedInv, certVars
  <2>2. CASE Drained
    BY <2>2 DEF Drained, LoadedInv, certVars
  <2>3. CASE DrainTimeout \/ StartReturns
    BY <2>3, EndsProcess DEF DrainTimeout, StartReturns, Ends, LoadedInv, certVars
  <2> QED
    BY <1>4, <2>1, <2>2, <2>3 DEF LoopStep
<1>5. CASE Terminate
  <2>1. CASE srv = 0
    BY <1>5, <2>1, EndsProcess DEF Terminate, Ends, LoadedInv, certVars
  <2>2. CASE srv # 0
    BY <1>5, <2>2 DEF Terminate, LoadedInv, certVars
  <2> QED
    BY <2>1, <2>2
<1>6. ASSUME NEW i \in Servers, ServerStep(i) PROVE LoadedInv'
  <2>1. CASE Serve(i)
    BY <2>1 DEF Serve, LoadedInv
  <2>2. CASE Assign(i) \/ Abandon(i) \/ Listen(i)
    <3>1. /\ UNCHANGED <<vars, loop, spawned, certVars, lost>>
          /\ \A j \in Servers :
               server'[j] = "serving" => server[j] = "serving"
      BY <2>2
      DEF Assign, Abandon, Listen, At, historyVars, ServerTypes
    <3>2. loop = "select" => spawned \in Servers
      BY MaxServersAssumption DEF PortInv, ServerTypes, Servers
    <3> QED
      BY <3>1, <3>2 DEF LoadedInv, OwesRestart, certVars, vars, runnerVars
  <2>3. CASE ServerPanics(i)
    BY <2>3, EndsProcess DEF ServerPanics, Ends, LoadedInv, certVars
  <2> QED
    BY <1>6, <2>1, <2>2, <2>3 DEF ServerStep
<1>7. ASSUME NEW p \in Procs, ApiRunner(p) PROVE LoadedInv'
  BY <1>7, RunnerKeepsLoaded
<1>8. ASSUME NEW h \in Handlers,
             (\E i \in Servers : Accept(h, i)) \/ Respond(h)
      PROVE  LoadedInv'
  BY <1>8, LoadedFrame
  DEF Accept, Respond, vars, runnerVars, loopVars, certVars, historyVars
<1>9. ASSUME NEW c \in Callers, EnterQueue(c) \/ DropCall(c),
             UNCHANGED <<loopVars, certVars, historyVars>>
      PROVE  LoadedInv'
  BY <1>9, LoadedFrame
  DEF EnterQueue, DropCall, runnerVars, loopVars, certVars, historyVars
<1>10. ASSUME NEW c \in Callers, QueueStep(c) \/ ReleaseStep(c)
       PROVE  LoadedInv'
  <2>1. Queued(c) \/ Release(c)
    BY <1>10 DEF QueueStep, ReleaseStep
  <2>2. UNCHANGED <<loop, spawned, server, loaded, certFile, misc, restart,
                    lost>>
    BY <1>10
    DEF QueueStep, ReleaseStep, apiOnlyVars, loopVars, certVars, historyVars
  <2> QED
    BY <2>1, <2>2, LoadedFrame, QueueKeepsRunners
<1>11. CASE SignalStep
  <2>1. CASE RestartFromSignal
    <3>1. CASE running
      BY <2>1, <3>1 DEF RestartFromSignal, Restart, LoadedInv, certVars
    <3>2. CASE ~running
      BY <2>1, <3>2, LoadedFrame
      DEF RestartFromSignal, Restart, vars, runnerVars, loopVars, certVars
    <3> QED
      BY <3>1, <3>2
  <2>2. ASSUME NEW c \in Resyncs, CallFromSignal(c) PROVE LoadedInv'
    BY <2>2, <1>9, RolesAssumption DEF CallFromSignal, Call
  <2> QED
    BY <1>11, <2>1, <2>2 DEF SignalStep
<1>12. ASSUME NEW h \in Handlers, CallFromRequest(h) PROVE LoadedInv'
  BY <1>12, <1>9, RolesAssumption DEF CallFromRequest, Call
<1>13. ASSUME NEW c \in Others, CallFromOther(c) PROVE LoadedInv'
  BY <1>13, <1>9 DEF CallFromOther, Call, Others, apiOnlyVars
<1> QED
  BY <1>2, <1>3, <1>4, <1>5, <1>6, <1>7, <1>8, <1>10, <1>11, <1>12, <1>13
  DEF ApiNext

LEMMA LoadedInit == ApiInit => LastInv /\ LoadedInv
BY MaxServersAssumption DEF ApiInit, LastInv, LoadedInv, Servers

(* A renewed certificate reaches the API: when no sync runs or waits and   *)
(* no restart is under way, the server has the certificate of the disk,    *)
(* unless a sync that had changed it failed and no server was started      *)
(* since.                                                                  *)
THEOREM CertIsServedAlways == ApiSpec => []CertIsServed
<1> DEFINE I == ServerTypes /\ PortInv /\ LastInv /\ LoadedInv
<1>1. ApiInit => I
  BY ApiInitInv, LoadedInit DEF ApiInv
<1>2. SyncInv /\ I /\ [ApiNext]_apiVars => I'
  BY NextTypes, NextPort, NextLast, NextLoaded
<1>3. SyncInv /\ I => CertIsServed
  <2> SUFFICES ASSUME SyncInv, I, Settled, ~lost PROVE loaded = certFile
    BY DEF CertIsServed
  <2>1. spawned \in Servers
    BY MaxServersAssumption DEF Settled, PortInv, ServerTypes, Servers
  <2>2. server[spawned] = "serving"
    BY <2>1 DEF Settled, LastInv
  <2>3. \A p \in Procs : runner[p] = "off"
    BY DEF Settled, Quiet, SyncInv, SemaphoreInv, Holds, Running
  <2> QED
    BY <2>2, <2>3 DEF Settled, LoadedInv, OwesRestart
<1> QED
  BY <1>1, <1>2, <1>3, Composition, SyncInvariant, PTL DEF ApiSpec
=============================================================================
