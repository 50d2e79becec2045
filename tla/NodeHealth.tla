----------------------------- MODULE NodeHealth -----------------------------
(***************************************************************************)
(* What a node tells the cluster about itself: syncs (src/sync/run.go),    *)
(* the health worker (src/worker/health.go) and GET /status?force=1 each   *)
(* make the health of the node, with the status check of the apps          *)
(* (src/statuscheck/), and store it in the node's key (StoreNodeHealth of  *)
(* src/state/store-etcd.go) with setIfDifferent (EtcdPut).                 *)
(*                                                                         *)
(* The key is attached to a lease.  A goroutine per lease drains the       *)
(* channel of its keepalives and, when the channel is closed, resets the   *)
(* field clusterMemberLease, so that the next call asks for a new lease.   *)
(***************************************************************************)
EXTENDS EtcdPut, FiniteSets

CONSTANTS
  Runner, Worker, Handler,   (* goroutines: sync, health worker, API       *)
  MaxSyncs,                  (* the most syncs of a scenario               *)
  Scenarios                  (* errors and requests to explore             *)

ASSUME SyncsAssumption == MaxSyncs \in Nat \ {0}

Untested == 0

(* Is a sync running, which was the last one that began, and after which   *)
(* one were the apps tested?                                               *)
Health == [running : BOOLEAN, sync : 0..MaxSyncs,
           apps : {Untested} \cup 1..MaxSyncs]

(* The key that EtcdPut is about is the node's: it is attached to a lease, *)
(* three goroutines write it, and what they write is the node's health.    *)
KeyOfNode ==
  /\ Leased
  /\ Writers = {Runner, Worker, Handler}
  /\ Health \subseteq Values

ASSUME ScenariosAssumption ==
  Scenarios \subseteq [leases : Nat, calls : Nat, requests : Nat,
                       syncs : 1..MaxSyncs]

VARIABLES
  live,          (* etcd: leases that have not expired                     *)
  granted,       (* etcd: how many leases were granted                     *)
  keyLease,      (* etcd: the lease of the key, 0 for none                 *)
  memberLease,   (* the field clusterMemberLease; 0: none                  *)
  kept,          (* leases with a goroutine that reads their keepalives    *)
  at,            (* where each goroutine is                                *)
  object,        (* the health each one stores                             *)
  lease,         (* the lease it asks for or uses                          *)
  nodeHealth,    (* the field of the manager, which points to an object    *)
  current,       (* who has that object and has not yet serialized it      *)
  changes,       (* changes of the state so far                            *)
  updated,       (* the last one of an operation of this node              *)
  started,       (* syncs that have begun                                  *)
  running,       (* a sync runs                                            *)
  healthCache, cacheOf, old, testing,   (* of the status check: the result *)
                 (* or None, the value of updated then, is it out of date, *)
                 (* who holds the semaphore                                *)
  limit,         (* how many leases or calls may be lost, and how many     *)
                 (* requests and syncs there are                           *)
  losses,        (* leases and calls of etcd that were lost so far         *)
  requests,      (* requests so far                                        *)
  up             (* the process runs                                       *)

putVars    == <<kv, revision, pc, value, seen, exposed, returned>>
leaseVars  == <<live, granted, keyLease, memberLease, kept>>
healthVars == <<at, object, lease, nodeHealth, current>>
syncVars   == <<changes, updated, started, running>>
checkVars  == <<healthCache, cacheOf, old, testing>>
outside    == <<limit, losses, requests>>
allVars == <<putVars, leaseVars, healthVars, syncVars, checkVars, outside, up>>

None == NoValue
Blank == [running |-> FALSE, sync |-> 0, apps |-> Untested]

NodeTypeOK ==
  /\ TypeOK
  /\ live \subseteq 1..granted /\ kept \subseteq 1..granted
  /\ memberLease \in 0..granted /\ keyLease \in 0..granted
  /\ kv = NoValue => keyLease = 0
  /\ keyLease # 0 => keyLease \in live
  /\ nodeHealth \in Health /\ object \in [Writers -> Health]
  /\ lease \in [Writers -> 0..granted]
  /\ current \subseteq Writers
  /\ healthCache \in {None, Untested} \cup 1..MaxSyncs
  /\ testing = None <=> \A c \in Writers : at[c] # "test"

NodeInit ==
  /\ Init
  /\ live = {} /\ granted = 0 /\ keyLease = 0 /\ memberLease = 0 /\ kept = {}
  /\ at = [c \in Writers |-> IF c = Runner THEN "set" ELSE "idle"]
  /\ nodeHealth = Blank /\ object = [c \in Writers |-> Blank]
  /\ lease = [c \in Writers |-> 0] /\ current = {}
  /\ changes = 1 /\ updated = 0 /\ started = 0 /\ running = FALSE
  /\ healthCache = None /\ cacheOf = 0 /\ old = TRUE /\ testing = None
  /\ limit \in Scenarios /\ losses = 0 /\ requests = 0
  /\ up = TRUE

Moves(c, from, to) == up /\ at[c] = from /\ at' = [at EXCEPT ![c] = to]

Lose(n) == losses < n /\ losses' = losses + 1 /\ UNCHANGED <<limit, requests>>

LoseLease == Lose(limit.leases)
LoseCall  == Lose(limit.calls)

-----------------------------------------------------------------------------
(* etcd and the keepalives *)

(* Leases that are about to be kept alive.                                 *)
Requested == {lease[c] : c \in {d \in Writers : at[d] = "keep"}}

(* A lease expires and takes the key that is attached to it along.  A      *)
(* lease with keepalives, or about to have them, only does when they do    *)
(* not arrive in time.                                                     *)
LeaseEnds(l) ==
  /\ l \in live
  /\ live' = live \ {l}
  /\ IF keyLease = l
     THEN Expire /\ keyLease' = 0
     ELSE UNCHANGED <<putVars, keyLease>>
  /\ UNCHANGED <<granted, memberLease, kept, healthVars, syncVars, checkVars, up>>

ExpireKept ==
  /\ up /\ LoseLease
  /\ \E l \in kept \cup Requested : LeaseEnds(l)

ExpireUnkept ==
  /\ \E l \in (IF up THEN live \ (kept \cup Requested) ELSE live) : LeaseEnds(l)
  /\ UNCHANGED outside

(* The keepalive channel of a lease is closed: the lease has expired, or   *)
(* the client has had no answer for so long that it assumes so.            *)
ChannelClosed ==
  /\ up
  /\ \E l \in kept :
       /\ kept' = kept \ {l}
       /\ \/ l \notin live /\ UNCHANGED outside
          \/ LoseLease
  /\ memberLease' = 0
  /\ UNCHANGED <<putVars, live, granted, keyLease, healthVars, syncVars,
                 checkVars, up>>

-----------------------------------------------------------------------------
(* SetNodeHealth and StoreNodeHealth *)

SetNodeHealth(c) ==
  /\ Moves(c, "set", IF memberLease = 0 THEN "grant" ELSE "encode")
  /\ nodeHealth' = object[c]
  /\ current' = IF c \in current THEN current ELSE {c}
  /\ UNCHANGED <<putVars, leaseVars, object, lease, syncVars, checkVars,
                 outside, up>>

(* Grant, KeepAlive and the assignment of the field.  The goroutine that   *)
(* resets the field is started before the field is set.                    *)
GrantLease(c) ==
  /\ Moves(c, "grant", "keep")
  /\ granted' = granted + 1
  /\ live' = live \cup {granted'}
  /\ lease' = [lease EXCEPT ![c] = granted']
  /\ UNCHANGED <<putVars, keyLease, memberLease, kept, object, nodeHealth,
                 current, syncVars, checkVars, outside, up>>

KeepAlive(c) ==
  /\ Moves(c, "keep", "assign")
  /\ kept' = kept \cup {lease[c]}
  /\ UNCHANGED <<putVars, live, granted, keyLease, memberLease, object, lease,
                 nodeHealth, current, syncVars, checkVars, outside, up>>

AssignLease(c) ==
  /\ Moves(c, "assign", "encode")
  /\ memberLease' = lease[c]
  /\ UNCHANGED <<putVars, live, granted, keyLease, kept, object, lease,
                 nodeHealth, current, syncVars, checkVars, outside, up>>

(* An error ends a sync.                                                   *)
Failed(c) == IF c = Runner THEN "failed" ELSE "idle"

(* When the answer to Grant is lost or KeepAlive fails, the new lease is   *)
(* left to expire.                                                         *)
GrantFails(c) ==
  /\ LoseCall
  /\ \/ Moves(c, "grant", Failed(c)) /\ UNCHANGED <<granted, live>>
     \/ /\ Moves(c, "grant", Failed(c))
        /\ granted' = granted + 1 /\ live' = live \cup {granted'}
     \/ Moves(c, "keep", Failed(c)) /\ UNCHANGED <<granted, live>>
  /\ lease' = [lease EXCEPT ![c] = 0]
  /\ object' = [object EXCEPT ![c] = Blank] /\ current' = current \ {c}
  /\ UNCHANGED <<putVars, keyLease, memberLease, kept, nodeHealth,
                 syncVars, checkVars, up>>

(* Mutant: the key is put without a lease.                                 *)
Encode_NoLease(c) ==
  /\ Moves(c, "encode", "put")
  /\ Call(c, object[c])
  /\ object' = [object EXCEPT ![c] = Blank] /\ current' = current \ {c}
  /\ UNCHANGED <<leaseVars, lease, nodeHealth, syncVars, checkVars, outside,
                 up>>

(* The health is serialized, and the option WithLease is built from the    *)
(* field, just before the put.                                             *)
Encode(c) ==
  /\ Moves(c, "encode", "put")
  /\ lease' = [lease EXCEPT ![c] = memberLease]
  /\ Call(c, object[c])
  /\ object' = [object EXCEPT ![c] = Blank] /\ current' = current \ {c}
  /\ UNCHANGED <<leaseVars, nodeHealth, syncVars, checkVars, outside, up>>

(* etcd refuses a put with a lease that has expired; lease 0 is no lease.  *)
Usable(c) == lease[c] \in {0} \cup live

Puts(c) == \/ pc[c] = "create" /\ kv = NoValue
           \/ pc[c] = "replace" /\ kv \notin {NoValue, value[c]}

(* setIfDifferent.                                                         *)
Put(c) ==
  /\ up /\ at[c] = "put"
  /\ \/ (Create(c) \/ Replace(c)) /\ Usable(c) /\ keyLease' = lease[c]
     \/ (Exists(c) \/ Keep(c)) /\ UNCHANGED keyLease
     \/ Puts(c) /\ ~Usable(c) /\ Fail(c) /\ KeyUnchanged /\ UNCHANGED keyLease
  /\ UNCHANGED <<live, granted, memberLease, kept, healthVars, syncVars,
                 checkVars, outside, up>>

PutFails(c) ==
  /\ up /\ at[c] = "put"
  /\ Fail(c) /\ LoseCall
  /\ IF kv' = kv THEN UNCHANGED keyLease
     ELSE Usable(c) /\ keyLease' = lease[c]
  /\ UNCHANGED <<live, granted, memberLease, kept, healthVars, syncVars,
                 checkVars, up>>

Returns(c) ==
  /\ \/ /\ pc[c] = "ok"
        /\ Moves(c, "put", IF c = Runner /\ running THEN "sync" ELSE "idle")
     \/ pc[c] = "error" /\ Moves(c, "put", Failed(c))
  /\ lease' = [lease EXCEPT ![c] = 0]
  /\ Return(c)
  /\ UNCHANGED <<leaseVars, object, nodeHealth, current, syncVars,
                 checkVars, outside, up>>

-----------------------------------------------------------------------------
(* Syncs *)

(* The worker and the API wait for the end of the first one.               *)
StartupComplete == started > 0 /\ (started = 1 => ~running)

(* A change of the state, which queues a sync.  An operation of this node  *)
(* calls setUpdated; the watchers, for one of another node, do not.        *)
StateChanges ==
  /\ up /\ StartupComplete /\ changes < limit.syncs
  /\ changes' = changes + 1 /\ updated' \in {updated, changes'}
  /\ UNCHANGED <<putVars, leaseVars, healthVars, started, running,
                 checkVars, outside, up>>

(* The object that the manager has is changed in place, also for another   *)
(* goroutine that has not serialized it yet.                               *)
SyncBegins ==
  /\ Moves(Runner, "idle", "set")
  /\ started < changes
  /\ started' = started + 1 /\ running' = TRUE
  /\ nodeHealth' = [nodeHealth EXCEPT !.running = TRUE, !.sync = started']
  /\ current' = current \cup {Runner}
  /\ object' = [c \in Writers |->
                  IF c \in current' THEN nodeHealth' ELSE object[c]]
  /\ UNCHANGED <<putVars, leaseVars, lease, changes, updated, checkVars,
                 outside, up>>

(* A sync also fails for reasons of its own; an error of the first one     *)
(* ends the process.                                                       *)
SyncEnds ==
  /\ \/ Moves(Runner, "sync", "idle")
     \/ started > 1 /\ Moves(Runner, "failed", "idle")
  /\ running' = FALSE
  /\ UNCHANGED <<putVars, leaseVars, object, lease, nodeHealth, current,
                 changes, updated, started, checkVars, outside, up>>

-----------------------------------------------------------------------------
(* The health worker, GET /status?force=1 and the status check *)

(* GetNodeHealth looks at the sync before the apps are tested.             *)
GetNodeHealth(c) ==
  /\ Moves(c, "idle", "cache")
  /\ object' = [object EXCEPT ![c].running = running, ![c].sync = started]
  /\ UNCHANGED <<putVars, leaseVars, lease, nodeHealth, current, syncVars,
                 cacheOf, old, testing, limit, losses, up>>

(* The worker wakes up every five minutes, and five seconds after a sync   *)
(* has succeeded: at any time.                                             *)
Wake ==
  /\ StartupComplete
  /\ GetNodeHealth(Worker)
  /\ UNCHANGED <<healthCache, requests>>

(* ResetHealthCache waits for a check that is under way.                   *)
StatusForced ==
  /\ StartupComplete
  /\ requests < limit.requests /\ requests' = requests + 1
  /\ testing = None /\ healthCache' = None
  /\ GetNodeHealth(Handler)

(* Mutant: the age of the cache does not matter.                           *)
Valid_AnyAge == healthCache # None /\ cacheOf = updated

(* The cache counts for five minutes and until an operation of this node   *)
(* changes the state.                                                      *)
Valid == healthCache # None /\ cacheOf = updated /\ ~old

GetHealthCache(c) ==
  /\ testing = None
  /\ cacheOf' = updated
  /\ IF Valid
     THEN /\ Moves(c, "cache", "set")
          /\ object' = [object EXCEPT ![c].apps = healthCache]
          /\ UNCHANGED <<testing, old>>
     ELSE /\ Moves(c, "cache", "test")
          /\ testing' = c
          /\ old' = running
          /\ UNCHANGED object
  /\ UNCHANGED <<putVars, leaseVars, lease, nodeHealth, current, syncVars,
                 healthCache, outside, up>>

(* The apps are not tested while a sync runs, which is looked at again.    *)
(* After an error the next check tests them again.                         *)
UpdateHealthCache(c) ==
  /\ Moves(c, "test", "set")
  /\ testing' = None
  /\ LET tested == IF running THEN Untested ELSE started
     IN  /\ object' = [object EXCEPT ![c].apps = tested]
         /\ healthCache' \in {tested} \cup (IF running THEN {} ELSE {None})
  /\ UNCHANGED <<putVars, leaseVars, lease, nodeHealth, current, syncVars,
                 cacheOf, old, outside, up>>

(* Five minutes pass.                                                      *)
CacheAges ==
  /\ up /\ ~old /\ old' = TRUE
  /\ UNCHANGED <<putVars, leaseVars, healthVars, syncVars, healthCache, cacheOf,
                 testing, outside, up>>

-----------------------------------------------------------------------------
(* The process ends, with everything in its memory.                        *)
Ends ==
  /\ up' = FALSE
  /\ memberLease' = 0 /\ kept' = {}
  /\ at' = [c \in Writers |-> "idle"]
  /\ object' = [c \in Writers |-> Blank] /\ nodeHealth' = Blank
  /\ lease' = [c \in Writers |-> 0] /\ current' = {}
  /\ changes' = 1 /\ updated' = 0 /\ started' = 0 /\ running' = FALSE
  /\ healthCache' = None /\ cacheOf' = 0 /\ old' = TRUE /\ testing' = None
  /\ UNCHANGED <<putVars, live, granted, keyLease, outside>>

Crash == up /\ Ends

(* An error at the start, of the registration or of the first sync.        *)
Exit == up /\ at[Runner] \in {"failed", "sync"} /\ started <= 1 /\ Ends

Check(c) == GetHealthCache(c) \/ UpdateHealthCache(c)

Store(c) ==
  \/ SetNodeHealth(c) \/ GrantLease(c) \/ KeepAlive(c) \/ AssignLease(c)
  \/ Encode(c) \/ Put(c) \/ Returns(c)

NodeNext ==
  \/ ExpireKept \/ ExpireUnkept \/ ChannelClosed
  \/ StateChanges \/ SyncBegins \/ SyncEnds
  \/ Wake \/ StatusForced \/ CacheAges
  \/ \E c \in {Worker, Handler} : Check(c)
  \/ \E c \in Writers : Store(c) \/ GrantFails(c) \/ PutFails(c)
  \/ Crash \/ Exit

(* The goroutines run, the ticker ticks and time passes; a lease without   *)
(* keepalives expires, and the client notices when one has.                *)
Fairness ==
  /\ WF_allVars(SyncBegins) /\ WF_allVars(SyncEnds \/ Exit) /\ WF_allVars(Wake)
  /\ SF_allVars(CacheAges)
  /\ \A c \in {Worker, Handler} : SF_allVars(GetHealthCache(c))
  /\ \A c \in {Worker, Handler} :
       WF_allVars(UpdateHealthCache(c))
  /\ \A c \in Writers : WF_allVars(Store(c))
  /\ WF_allVars(ExpireUnkept)
  /\ WF_allVars(up /\ (\E l \in kept : l \notin live) /\ ChannelClosed)

NodeSpec == NodeInit /\ [][NodeNext]_allVars
FairNodeSpec == NodeSpec /\ Fairness

-----------------------------------------------------------------------------
(* Properties *)

(* Whatever happens to its leases and its calls, with errors of syncs and  *)
(* with checks that overlap each other and a sync: the key of a node that  *)
(* stays up ends with its health, once there are no more changes and       *)
(* losses.  It does not say that a sync runs when none does, and its apps  *)
(* were tested after the last one.  The exception is a node whose lease    *)
(* ended between KeepAlive and the assignment: the goroutine that resets   *)
(* the field has gone when it is set, and every put is refused.            *)
Stuck == memberLease \notin {0} \cup live \cup kept

HealthIsReported ==
  <>[](\/ up => kv = [running |-> FALSE, sync |-> started, apps |-> started]
       \/ Stuck)

(* A lease is lost while its node runs.                                    *)
LeaseLost == losses > 0 /\ limit.leases > 0

(* The key is attached to a lease, "to maintain the key for as long as the *)
(* node is up", although the field with the lease is read twice and reset  *)
(* by another goroutine.  When a lease is lost between the two, the key is *)
(* put without one and stays for good.                                     *)
KeyIsLeased == kv # NoValue /\ keyLease = 0 => LeaseLost

(* So the key of a node that is gone goes, unless a lease was lost.        *)
NodeIsForgotten == ~up ~> (kv = NoValue \/ LeaseLost)
=============================================================================
