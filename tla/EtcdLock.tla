------------------------------ MODULE EtcdLock ------------------------------
(***************************************************************************)
(* The lock the nodes of a cluster take on the shared state                *)
(* (AcquireLock, ReleaseLock and tryLockAcquisition of                     *)
(* src/state/store-etcd.go).                                               *)
(*                                                                         *)
(* The lock is a key in etcd, attached to a lease.  The lease is granted   *)
(* once, before the first attempt, it is never renewed, and it is not      *)
(* revoked when the attempts fail: time is modelled by leases that may     *)
(* expire at any moment, also while their owner is in its critical         *)
(* section.                                                                *)
(***************************************************************************)
EXTENDS Naturals

CONSTANTS
  Procs,      (* goroutines that take the lock, on any of the nodes        *)
  Patient,    (* those that call AcquireLock with timeout = false          *)
  MaxTries,   (* attempts before AcquireLock gives up: EtcdLockDuration*2  *)
  MaxLeases   (* bounds how many leases are granted                        *)

ASSUME ProcsAssumption    == Patient \subseteq Procs
ASSUME TriesAssumption    == MaxTries \in Nat \ {0}
ASSUME LeasesAssumption   == MaxLeases \in Nat

VARIABLES
  place,    (* idle, trying (in AcquireLock) or critical (before Release)  *)
  lease,    (* the lease of each process; 0: none yet                      *)
  tries,    (* the attempts each process has left                          *)
  granted,  (* etcd: number of leases granted so far, the newest's ID      *)
  live,     (* etcd: the leases that are neither expired nor revoked       *)
  lockKey   (* etcd: the lease the lock's key is attached to; 0: no key    *)

lockVars == <<place, lease, tries, granted, live, lockKey>>

LeaseIDs == Nat \ {0}

LockTypeOK ==
  /\ place \in [Procs -> {"idle", "trying", "critical"}]
  /\ lease \in [Procs -> Nat]
  /\ tries \in [Procs -> 0..MaxTries]
  /\ granted \in Nat
  /\ live \subseteq 1..granted
  /\ lockKey \in {0} \cup live

LockInit ==
  /\ place = [p \in Procs |-> "idle"]
  /\ lease = [p \in Procs |-> 0]
  /\ tries = [p \in Procs |-> 0]
  /\ granted = 0
  /\ live = {}
  /\ lockKey = 0

Goto(p, from, to) == place[p] = from /\ place' = [place EXCEPT ![p] = to]

-----------------------------------------------------------------------------
(* etcd *)

(* etcd deletes the keys attached to a lease that is gone.                 *)
Drop(l) ==
  /\ live' = live \ {l}
  /\ lockKey' = IF lockKey = l THEN 0 ELSE lockKey

Expire(l) ==
  /\ l \in live
  /\ Drop(l)
  /\ UNCHANGED <<place, lease, tries, granted>>

-----------------------------------------------------------------------------
(* AcquireLock *)

(* A call starts by asking for a lease; when etcd refuses, nothing changes *)
(* and the call returns an error.                                          *)
Grant(p) ==
  /\ Goto(p, "idle", "trying")
  /\ granted < MaxLeases
  /\ granted' = granted + 1
  /\ live' = live \cup {granted'}
  /\ lease' = [lease EXCEPT ![p] = granted']
  /\ tries' = [tries EXCEPT ![p] = MaxTries]
  /\ UNCHANGED lockKey

(* Mutant: the key is put whether or not it exists.                        *)
TrySucceeds_NoCompare(p) ==
  /\ Goto(p, "trying", "critical")
  /\ lease[p] \in live
  /\ lockKey' = lease[p]
  /\ UNCHANGED <<lease, tries, granted, live>>

(* Mutant: the key is put without the lease; it stays until it is deleted. *)
TrySucceeds_NoLease(p) ==
  /\ Goto(p, "trying", "critical")
  /\ tries[p] > 0
  /\ lockKey = 0
  /\ lease[p] \in live
  /\ lockKey' = granted + 1
  /\ UNCHANGED <<lease, tries, granted, live>>

(* The key does not exist, so it is put.                                   *)
TrySucceeds(p) ==
  /\ Goto(p, "trying", "critical")
  /\ tries[p] > 0
  /\ lockKey = 0
  /\ lease[p] \in live
  /\ lockKey' = lease[p]
  /\ UNCHANGED <<lease, tries, granted, live>>

(* The key does not exist, but the lease has expired: etcd refuses the put *)
(* and the call returns the error.                                         *)
TryRefused(p) ==
  /\ Goto(p, "trying", "idle")
  /\ tries[p] > 0
  /\ lockKey = 0
  /\ lease[p] \notin live
  /\ UNCHANGED <<lease, tries, granted, live, lockKey>>

(* The answer of etcd is lost, the put may have been made: the call        *)
(* returns an error and leaves the lease to expire.                        *)
TryLost(p) ==
  /\ Goto(p, "trying", "idle")
  /\ tries[p] > 0
  /\ \/ UNCHANGED lockKey
     \/ /\ lockKey = 0
        /\ lease[p] \in live
        /\ lockKey' = lease[p]
  /\ UNCHANGED <<lease, tries, granted, live>>

(* Someone else has the lock: count the attempt, unless the call has no    *)
(* timeout, and sleep.                                                     *)
TryBusy(p) ==
  /\ place[p] = "trying"
  /\ tries[p] > 0
  /\ lockKey # 0
  /\ tries' = [tries EXCEPT ![p] = IF p \in Patient THEN @ ELSE @ - 1]
  /\ UNCHANGED <<place, lease, granted, live, lockKey>>

GiveUp(p) ==
  /\ Goto(p, "trying", "idle")
  /\ tries[p] = 0
  /\ UNCHANGED <<lease, tries, granted, live, lockKey>>

-----------------------------------------------------------------------------
(* Mutant: the lock's key is deleted, whoever it belongs to.               *)
Release_AnyKey(p) ==
  /\ Goto(p, "critical", "idle")
  /\ live' = live \ {lease[p]}
  /\ lockKey' = 0
  /\ UNCHANGED <<lease, tries, granted>>

(* ReleaseLock revokes the lease.  The error of a revocation that failed,  *)
(* or of a lease that is gone already, is dropped by the deferred call.    *)
Release(p) ==
  /\ Goto(p, "critical", "idle")
  /\ \/ Drop(lease[p])
     \/ UNCHANGED <<live, lockKey>>
  /\ UNCHANGED <<lease, tries, granted>>

(* The process ends between two steps; its lease stays until it expires.   *)
ProcessEnds(p) ==
  /\ place[p] # "idle"
  /\ place' = [place EXCEPT ![p] = "idle"]
  /\ UNCHANGED <<lease, tries, granted, live, lockKey>>

-----------------------------------------------------------------------------
Acquire(p) == TrySucceeds(p) \/ TryRefused(p) \/ TryBusy(p) \/ GiveUp(p)

LockNext ==
  \/ \E p \in Procs :
       \/ Grant(p) \/ Acquire(p) \/ TryLost(p)
       \/ Release(p) \/ ProcessEnds(p)
  \/ \E l \in live : Expire(l)

(* Leases that nobody renews expire; processes may stop anywhere.          *)
LockFairness == \A l \in 1..MaxLeases : WF_lockVars(Expire(l))

LockSpec == LockInit /\ [][LockNext]_lockVars
FairLockSpec == LockSpec /\ LockFairness

-----------------------------------------------------------------------------
(* Properties *)

(* A process whose lease is alive in its critical section owns the key: no *)
(* step of another process takes the key away from it, not even one that   *)
(* ends late with a lease of its own that has expired meanwhile.           *)
LiveOwnerHasKey ==
  \A p \in Procs :
    place[p] = "critical" /\ lease[p] \in live => lockKey = lease[p]

(* "Ensuring that only one node at a time can be syncing" (state.go:96):   *)
(* two processes are in their critical sections together only when the     *)
(* lease of one of them has expired.                                       *)
ExclusiveWhileLive ==
  \A p, q \in Procs :
    /\ p # q
    /\ place[p] = "critical" /\ place[q] = "critical"
    => lease[p] \notin live \/ lease[q] \notin live

(* The operations that take the lock may rely on ClusterLock: the key is   *)
(* put only when it does not exist, it belongs to the call that goes on    *)
(* then, and nothing takes it away from that call but the end of its lease.*)
Inside == {p \in Procs : place[p] = "critical"}
Lock == INSTANCE ClusterLock WITH
          held <- lockKey # 0, inside <- Inside,
          owners <- {p \in Inside : lockKey # 0 /\ lease[p] = lockKey}
ImplementsLock == Lock!Spec

(* No lock outlives its owner for ever: neither a crash, nor a put whose   *)
(* answer was lost, nor a revocation that failed leaves a lock behind.     *)
LockIsFreed == \A l \in 1..MaxLeases : lockKey = l ~> lockKey # l
=============================================================================
