-------------------------- MODULE NodeHealthProofs --------------------------
(***************************************************************************)
(* Proofs about EtcdPut, for any writers and values, and about NodeHealth, *)
(* for any number of syncs, of lost leases and calls and of requests, with *)
(* the writers and values of a node (KeyOfNode).                           *)
(*                                                                         *)
(* Every step of the node is a step of the key's specification or leaves   *)
(* the key alone, so what is proved of the key holds of the node.  What    *)
(* must be shown for it is that the node only stores health, which needs   *)
(* the types of the objects and where each goroutine is in its call.       *)
(***************************************************************************)
EXTENDS NodeHealth, TLAPS

-----------------------------------------------------------------------------
(* The key and its writers, whoever they are *)

(* A call under way has seen its value when the key holds it now; at its   *)
(* second transaction the key exists, unless its lease has ended since.    *)
PutInv ==
  /\ TypeOK
  /\ \A w \in Writers :
       /\ pc[w] \in {"create", "replace"} =>
            value[w] \in Values /\ (kv = value[w] => w \in seen)
       /\ pc[w] = "replace" => kv # NoValue \/ w \in exposed
  /\ ~Leased => exposed = {}
  /\ OkMeansStored

LEMMA PutInit == Init => PutInv
BY ValuesAssumption DEF Init, PutInv, TypeOK, OkMeansStored, Contents

LEMMA PutNext == PutInv /\ [Next]_vars => PutInv'
<1> SUFFICES ASSUME PutInv, [Next]_vars PROVE PutInv'
  OBVIOUS
<1> USE ValuesAssumption, RevisionAssumption
    DEF PutInv, TypeOK, OkMeansStored, Contents, Goto, SetKey, UnderWay, KeyUnchanged
<1>1. ASSUME NEW w \in Writers, NEW v \in Values, Call(w, v) PROVE PutInv'
  BY <1>1 DEF Call
<1>2. ASSUME NEW w \in Writers, Create(w) PROVE PutInv'
  BY <1>2 DEF Create
<1>3. ASSUME NEW w \in Writers, Exists(w) PROVE PutInv'
  BY <1>3 DEF Exists
<1>4. ASSUME NEW w \in Writers, Replace(w) PROVE PutInv'
  BY <1>4 DEF Replace
<1>5. ASSUME NEW w \in Writers, Keep(w) PROVE PutInv'
  BY <1>5 DEF Keep
<1>6. ASSUME NEW w \in Writers, Fail(w) PROVE PutInv'
  BY <1>6 DEF Fail
<1>7. ASSUME NEW w \in Writers, Return(w) PROVE PutInv'
  BY <1>7 DEF Return
<1>8. CASE Expire
  BY <1>8 DEF Expire
<1>9. CASE UNCHANGED vars
  BY <1>9 DEF vars
<1> QED
  BY <1>1, <1>2, <1>3, <1>4, <1>5, <1>6, <1>7, <1>8, <1>9 DEF Next

(* A call that returns no error has made its write or found it made,       *)
(* unless the key's lease ended while it was under way.                    *)
THEOREM OkMeansStoredAlways == Spec => []OkMeansStored
<1>1. PutInv => OkMeansStored
  BY DEF PutInv
<1> QED
  BY <1>1, PutInit, PutNext, PTL DEF Spec

(* The state, the secrets and the DH parameters are keys without a lease:  *)
(* their writes have been made when no error is returned.                  *)
THEOREM DurableWriteIsMade ==
  ASSUME ~Leased
  PROVE  Spec => [](\A w \in Writers : pc[w] = "ok" => w \in seen)
<1>1. PutInv => \A w \in Writers : pc[w] = "ok" => w \in seen
  BY DEF PutInv, OkMeansStored
<1> QED
  BY <1>1, PutInit, PutNext, PTL DEF Spec

(* Revisions only grow, and each write is answered with the next one.      *)
RevisionInv ==
  /\ TypeOK
  /\ \A w \in Writers : returned[w] <= revision
  /\ RevisionIsOwn

LEMMA RevisionNext == RevisionInv /\ PutInv /\ [Next]_vars => RevisionInv'
<1> SUFFICES ASSUME RevisionInv, PutInv, PutInv', [Next]_vars PROVE RevisionInv'
  BY PutNext
<1> USE DEF RevisionInv, TypeOK, RevisionIsOwn, SetKey, KeyUnchanged
<1>1. TypeOK'
  BY DEF PutInv
<1>2. ASSUME NEW w \in Writers, NEW v \in Values, Call(w, v) PROVE RevisionInv'
  BY <1>1, <1>2 DEF Call
<1>3. ASSUME NEW w \in Writers, Create(w) \/ Replace(w) PROVE RevisionInv'
  BY <1>1, <1>3 DEF Create, Replace
<1>4. ASSUME NEW w \in Writers, Exists(w) \/ Keep(w) \/ Return(w)
      PROVE  RevisionInv'
  BY <1>1, <1>4 DEF Exists, Keep, Return
<1>5. ASSUME NEW w \in Writers, Fail(w) PROVE RevisionInv'
  BY <1>1, <1>5 DEF Fail
<1>6. CASE Expire
  BY <1>1, <1>6 DEF Expire
<1>7. CASE UNCHANGED vars
  BY <1>1, <1>7 DEF vars
<1> QED
  BY <1>2, <1>3, <1>4, <1>5, <1>6, <1>7 DEF Next

(* Two calls are never answered with the same revision, so the one that a  *)
(* node stores as lastRevisionPut is that of its own write.                *)
THEOREM RevisionIsOwnAlways == Spec => []RevisionIsOwn
<1>1. Init => RevisionInv
  BY PutInit DEF Init, PutInv, RevisionInv, RevisionIsOwn
<1>2. RevisionInv => RevisionIsOwn
  BY DEF RevisionInv
<1> QED
  BY <1>1, <1>2, PutInit, PutNext, RevisionNext, PTL DEF Spec

-----------------------------------------------------------------------------
(* The node *)

Places == {"idle", "cache", "test", "set", "grant", "keep", "assign", "encode",
           "put", "sync", "failed"}

(* The parts of the type invariant that the proofs need.                   *)
HealthTypes ==
  /\ at \in [Writers -> Places]
  /\ limit \in Scenarios
  /\ changes \in 1..MaxSyncs /\ started \in 0..changes
  /\ running \in BOOLEAN
  /\ nodeHealth \in Health /\ object \in [Writers -> Health]
  /\ healthCache \in {None, Untested} \cup 1..MaxSyncs

LEMMA BlankIsHealth == Blank \in Health
BY SyncsAssumption DEF Blank, Health, Untested

LEMMA TypesInit == NodeInit => HealthTypes
<1> SUFFICES ASSUME NodeInit PROVE HealthTypes
  OBVIOUS
<1>1. at \in [Writers -> Places] /\ limit \in Scenarios
  BY DEF NodeInit, Places
<1>2. changes = 1 /\ started = 0 /\ running = FALSE
  BY DEF NodeInit
<1>3. changes \in 1..MaxSyncs /\ started \in 0..changes
  BY <1>2, SyncsAssumption
<1>4. nodeHealth \in Health /\ object \in [Writers -> Health]
  BY BlankIsHealth DEF NodeInit
<1> QED
  BY <1>1, <1>2, <1>3, <1>4 DEF NodeInit, HealthTypes

LEMMA WakeOrForced ==
  ASSUME KeyOfNode, Wake \/ StatusForced
  PROVE  \E c \in Writers : GetNodeHealth(c) /\ healthCache' \in {None, healthCache}
<1>1. CASE Wake
  <2>1. Worker \in Writers /\ GetNodeHealth(Worker) /\ healthCache' = healthCache
    BY <1>1 DEF Wake, KeyOfNode
  <2> QED
    BY <2>1
<1>2. CASE StatusForced
  <2>1. Handler \in Writers
    BY DEF KeyOfNode
  <2>2. GetNodeHealth(Handler)
    BY <1>2 DEF StatusForced
  <2>3. healthCache' = None
    BY <1>2 DEF StatusForced
  <2> QED
    BY <2>1, <2>2, <2>3
<1> QED
  BY <1>1, <1>2

LEMMA TypesNext == KeyOfNode /\ HealthTypes /\ [NodeNext]_allVars => HealthTypes'
<1> SUFFICES ASSUME KeyOfNode, HealthTypes, [NodeNext]_allVars PROVE HealthTypes'
  OBVIOUS
<1> USE SyncsAssumption DEF HealthTypes, Places, Moves, Failed
<1>1. CASE ExpireKept \/ ExpireUnkept \/ ChannelClosed
  BY <1>1 DEF ExpireKept, ExpireUnkept, ChannelClosed, LeaseEnds, LoseLease, Lose,
     healthVars, syncVars, checkVars, outside
<1>2. CASE StateChanges
  <2>1. limit.syncs \in 1..MaxSyncs
    BY ScenariosAssumption
  <2> QED
    BY <1>2, <2>1 DEF StateChanges, healthVars, checkVars, outside
<1>3. CASE SyncBegins
  <2>1. started' \in 0..changes /\ started' \in 0..MaxSyncs
    BY <1>3 DEF SyncBegins
  <2>2. nodeHealth' \in Health
    BY <1>3, <2>1 DEF SyncBegins, Health
  <2>3. object' \in [Writers -> Health]
    BY <1>3, <2>2 DEF SyncBegins
  <2> QED
    BY <1>3, <2>1, <2>2, <2>3 DEF SyncBegins, checkVars, outside
<1>4. CASE SyncEnds
  BY <1>4 DEF SyncEnds, checkVars, outside
<1>5. ASSUME NEW c \in Writers, GetNodeHealth(c), healthCache' \in {None, healthCache}
      PROVE  HealthTypes'
  <2>1. object[c] \in Health /\ started \in 0..MaxSyncs
    OBVIOUS
  <2>2. [object[c] EXCEPT !.running = running, !.sync = started] \in Health
    BY <2>1 DEF Health
  <2>3. object' = [object EXCEPT ![c] =
                     [object[c] EXCEPT !.running = running, !.sync = started]]
    BY <1>5 DEF GetNodeHealth
  <2>4. object' \in [Writers -> Health]
    BY <2>2, <2>3
  <2> QED
    BY <1>5, <2>4 DEF GetNodeHealth, syncVars
<1>6. CASE CacheAges
  BY <1>6 DEF CacheAges, healthVars, syncVars, outside
<1>7. ASSUME NEW c \in Writers, GetHealthCache(c) PROVE HealthTypes'
  <2>1. object' \in [Writers -> Health]
    BY <1>7 DEF GetHealthCache, Valid, Health
  <2> QED
    BY <1>7, <2>1 DEF GetHealthCache, syncVars, outside
<1>8. ASSUME NEW c \in Writers, UpdateHealthCache(c) PROVE HealthTypes'
  <2>1. IF running THEN Untested \in {Untested} \cup 1..MaxSyncs
                   ELSE started \in {Untested} \cup 1..MaxSyncs
    BY DEF Untested
  <2>2. object' \in [Writers -> Health] /\ healthCache' \in {None, Untested} \cup 1..MaxSyncs
    BY <1>8, <2>1 DEF UpdateHealthCache, Health
  <2> QED
    BY <1>8, <2>2 DEF UpdateHealthCache, syncVars, outside
<1>9. CASE Crash \/ Exit
  <2>1. Ends
    BY <1>9 DEF Crash, Exit
  <2>2. changes' = 1 /\ started' = 0 /\ running' = FALSE
    BY <2>1 DEF Ends
  <2>3. changes' \in 1..MaxSyncs /\ started' \in 0..changes'
    BY <2>2
  <2>4. nodeHealth' \in Health /\ object' \in [Writers -> Health]
    BY <2>1, BlankIsHealth DEF Ends
  <2> QED
    BY <2>1, <2>2, <2>3, <2>4 DEF Ends, outside
<1>10. ASSUME NEW c \in Writers, Store(c) \/ GrantFails(c) \/ PutFails(c)
       PROVE  HealthTypes'
  BY <1>10, BlankIsHealth DEF Store, SetNodeHealth, GrantLease, KeepAlive,
     AssignLease, Encode, Put, Returns, GrantFails,
       PutFails, LoseCall, Lose, healthVars, syncVars, checkVars, outside
<1>11. CASE UNCHANGED allVars
  BY <1>11 DEF allVars, healthVars, syncVars, checkVars, outside
<1>12. CASE Wake \/ StatusForced
  BY <1>5, <1>12, WakeOrForced
<1>13. CASE \E c \in {Worker, Handler} : Check(c)
  BY <1>7, <1>8, <1>13 DEF Check, KeyOfNode
<1> QED
  BY <1>1, <1>2, <1>3, <1>4, <1>6, <1>9, <1>10, <1>11, <1>12, <1>13 DEF NodeNext

-----------------------------------------------------------------------------
(* The node and its key *)

(* Every step of the node is one of the key's writers, of its lease, or    *)
(* leaves the key alone.                                                   *)
LEMMA StepOfPut == KeyOfNode /\ HealthTypes /\ [NodeNext]_allVars => [Next]_vars
<1> SUFFICES ASSUME KeyOfNode, HealthTypes, [NodeNext]_allVars PROVE [Next]_vars
  OBVIOUS
<1> USE DEF vars, putVars
<1>1. CASE ExpireKept \/ ExpireUnkept
  BY <1>1 DEF ExpireKept, ExpireUnkept, LeaseEnds, Next
<1>2. ASSUME NEW c \in Writers, Encode(c) PROVE Next
  <2>1. object[c] \in Values
    BY DEF HealthTypes, KeyOfNode
  <2> QED
    BY <1>2, <2>1 DEF Encode, Next
<1>3. ASSUME NEW c \in Writers, Put(c) \/ PutFails(c) \/ Returns(c) PROVE Next
  BY <1>3 DEF Put, PutFails, Returns, Next
<1>4. ASSUME NEW c \in Writers,
             \/ SetNodeHealth(c) \/ GrantLease(c) \/ KeepAlive(c)
             \/ AssignLease(c) \/ GrantFails(c)
      PROVE  UNCHANGED vars
  BY <1>4 DEF SetNodeHealth, GrantLease, KeepAlive, AssignLease, GrantFails
<1>5. CASE StateChanges \/ SyncBegins \/ SyncEnds \/ CacheAges \/ ChannelClosed
  BY <1>5 DEF StateChanges, SyncBegins, SyncEnds, CacheAges, ChannelClosed
<1>6. ASSUME NEW c \in Writers,
             GetNodeHealth(c) \/ GetHealthCache(c) \/ UpdateHealthCache(c)
      PROVE  UNCHANGED vars
  BY <1>6 DEF GetNodeHealth, GetHealthCache, UpdateHealthCache
<1>7. CASE Crash \/ Exit
  BY <1>7 DEF Crash, Exit, Ends
<1>8. CASE UNCHANGED allVars
  BY <1>8 DEF allVars
<1>9. CASE Wake \/ StatusForced
  BY <1>6, <1>9, WakeOrForced
<1>10. CASE \E c \in {Worker, Handler} : Check(c)
  BY <1>6, <1>10 DEF Check, KeyOfNode
<1>11. ASSUME NEW c \in Writers, Store(c) \/ GrantFails(c) \/ PutFails(c)
       PROVE  [Next]_vars
  BY <1>2, <1>3, <1>4, <1>11 DEF Store
<1> QED
  BY <1>1, <1>5, <1>7, <1>8, <1>9, <1>10, <1>11 DEF NodeNext

(* The goroutines of a node, which grant leases and lose them, use the key *)
(* as EtcdPut says.                                                        *)
THEOREM NodeComposition ==
  ASSUME KeyOfNode
  PROVE  NodeSpec => Spec
<1>1. NodeInit => Init
  BY DEF NodeInit
<1> QED
  BY <1>1, TypesInit, TypesNext, StepOfPut, PTL DEF NodeSpec, Spec

(* So StoreNodeHealth returns nil only when the node's health was in the   *)
(* key or the key's lease has ended meanwhile.                             *)
THEOREM NodeIsStored ==
  ASSUME KeyOfNode
  PROVE  NodeSpec => []OkMeansStored
BY NodeComposition, OkMeansStoredAlways, PTL

(* No two of its goroutines are answered with one revision, also when the  *)
(* key was lost with its lease in between.                                 *)
THEOREM NodeRevisions ==
  ASSUME KeyOfNode
  PROVE  NodeSpec => []RevisionIsOwn
BY NodeComposition, RevisionIsOwnAlways, PTL

-----------------------------------------------------------------------------
(* The lease of the key *)

(* As long as no lease was lost: the leases that are kept alive live, and  *)
(* so do those that are about to be; the field holds one from the check of *)
(* SetNodeHealth on, and so does the call, and so the key.                 *)
LeaseInv ==
  /\ granted \in Nat /\ losses \in Nat
  /\ memberLease \in Nat /\ lease \in [Writers -> Nat]
  /\ ~up => kept = {}
  /\ ~LeaseLost =>
       /\ kept \subseteq live
       /\ \A c \in Writers : at[c] = "keep" => up /\ lease[c] \in live
       /\ \A c \in Writers : at[c] = "encode" => memberLease # 0
       /\ \A c \in Writers : at[c] \in {"keep", "assign", "put"} => lease[c] # 0
       /\ kv # NoValue => keyLease # 0

LEMMA LeaseInit == NodeInit => LeaseInv
BY DEF NodeInit, Init, LeaseInv

LEMMA LeaseNext == KeyOfNode /\ LeaseInv /\ HealthTypes /\ [NodeNext]_allVars => LeaseInv'
<1> SUFFICES ASSUME KeyOfNode, LeaseInv, HealthTypes, [NodeNext]_allVars PROVE LeaseInv'
  OBVIOUS
<1>0. limit.leases \in Nat /\ limit.calls \in Nat
  BY ScenariosAssumption DEF HealthTypes
<1> USE DEF LeaseInv, LeaseLost, Moves, Failed
<1>1. CASE ExpireKept
  <2>1. LeaseLost' /\ losses' \in Nat
    BY <1>0, <1>1 DEF ExpireKept, LoseLease, Lose
  <2>2. UNCHANGED <<granted, memberLease, kept, lease, up>>
    BY <1>1 DEF ExpireKept, LeaseEnds, healthVars
  <2> QED
    BY <2>1, <2>2
<1>2. CASE ExpireUnkept
  <2>1. PICK l \in live : /\ LeaseEnds(l) /\ UNCHANGED outside
                          /\ up => l \notin kept /\ l \notin Requested
    BY <1>2 DEF ExpireUnkept
  <2>2. UNCHANGED <<granted, memberLease, kept, at, lease, losses, limit, up>>
    BY <2>1 DEF LeaseEnds, healthVars, outside
  <2>3. kv' # NoValue /\ ~LeaseLost => keyLease' # 0
    BY <2>1 DEF LeaseEnds, Expire, SetKey, putVars
  <2>4. live' = live \ {l}
    BY <2>1 DEF LeaseEnds
  <2>5. \A c \in Writers : at[c] = "keep" /\ up => lease[c] # l
    BY <2>1 DEF Requested
  <2> QED
    BY <2>1, <2>2, <2>3, <2>4, <2>5
<1>3. CASE ChannelClosed
  <2>1. CASE LoseLease
    <3>1. LeaseLost' /\ losses' \in Nat
      BY <1>0, <2>1 DEF LoseLease, Lose
    <3>2. /\ memberLease' = 0 /\ granted' = granted /\ lease' = lease
          /\ up' = up /\ kept' \subseteq kept
      BY <1>3 DEF ChannelClosed, healthVars
    <3> QED
      BY <3>1, <3>2
  <2>2. CASE ~LoseLease
    <3>1. LeaseLost /\ LeaseLost' /\ losses' = losses
      BY <1>3, <2>2 DEF ChannelClosed, outside
    <3>2. /\ memberLease' = 0 /\ granted' = granted /\ lease' = lease
          /\ up' = up /\ kept' \subseteq kept
      BY <1>3 DEF ChannelClosed, healthVars
    <3> QED
      BY <3>1, <3>2
  <2> QED
    BY <2>1, <2>2
<1>4. ASSUME NEW c \in Writers, SetNodeHealth(c) PROVE LeaseInv'
  BY <1>4 DEF SetNodeHealth, HealthTypes, putVars, leaseVars, outside
<1>5. ASSUME NEW c \in Writers, GrantLease(c) PROVE LeaseInv'
  BY <1>5 DEF GrantLease, HealthTypes, putVars, outside
<1>18. ASSUME NEW c \in Writers, KeepAlive(c) PROVE LeaseInv'
  BY <1>18 DEF KeepAlive, HealthTypes, putVars, outside
<1>19. ASSUME NEW c \in Writers, AssignLease(c) PROVE LeaseInv'
  BY <1>19 DEF AssignLease, HealthTypes, putVars, outside
<1>6. ASSUME NEW c \in Writers, GrantFails(c) PROVE LeaseInv'
  <2>1. /\ ~LeaseLost' => ~LeaseLost
        /\ losses' \in Nat /\ granted' \in Nat
        /\ live \subseteq live'
    BY <1>0, <1>6 DEF GrantFails, LoseCall, Lose
  <2> QED
    BY <1>6, <2>1 DEF GrantFails, HealthTypes, putVars
<1>7. ASSUME NEW c \in Writers, Encode(c) PROVE LeaseInv'
  BY <1>7 DEF Encode, Call, HealthTypes, leaseVars, outside
<1>8. ASSUME NEW c \in Writers, Put(c) PROVE LeaseInv'
  BY <1>8 DEF Put, Exists, Keep, Fail, KeyUnchanged, healthVars, outside
<1>9. ASSUME NEW c \in Writers, PutFails(c) PROVE LeaseInv'
  BY <1>0, <1>9 DEF PutFails, LoseCall, Lose, healthVars
<1>10. ASSUME NEW c \in Writers, Returns(c) PROVE LeaseInv'
  BY <1>10 DEF Returns, Return, HealthTypes, leaseVars, outside
<1>11. CASE StateChanges \/ CacheAges
  BY <1>11 DEF StateChanges, CacheAges, putVars, leaseVars, healthVars, outside
<1>12. CASE SyncBegins \/ SyncEnds
  BY <1>12
  DEF KeyOfNode, SyncBegins, SyncEnds, HealthTypes, putVars, leaseVars, outside
<1>13. ASSUME NEW c \in Writers, GetNodeHealth(c) \/ GetHealthCache(c) \/ UpdateHealthCache(c),
              UNCHANGED <<losses, limit>>
       PROVE  LeaseInv'
  BY <1>13 DEF GetNodeHealth, GetHealthCache, UpdateHealthCache, HealthTypes, putVars, leaseVars
<1>14. CASE Crash \/ Exit
  BY <1>14 DEF Crash, Exit, Ends, putVars, outside
<1>15. CASE UNCHANGED allVars
  BY <1>15 DEF allVars, putVars, leaseVars, healthVars, outside
<1>16. CASE Wake \/ StatusForced
  <2>1. PICK c \in Writers : GetNodeHealth(c)
    BY <1>16, WakeOrForced
  <2>2. UNCHANGED <<losses, limit>>
    BY <2>1 DEF GetNodeHealth
  <2> QED
    BY <1>13, <2>1, <2>2
<1>17. CASE \E c \in {Worker, Handler} : Check(c)
  <2>1. PICK c \in {Worker, Handler} : GetHealthCache(c) \/ UpdateHealthCache(c)
    BY <1>17 DEF Check
  <2> QED
    BY <1>13, <2>1 DEF KeyOfNode, GetHealthCache, UpdateHealthCache, outside
<1> QED
  BY <1>1, <1>2, <1>3, <1>4, <1>5, <1>6, <1>7, <1>8, <1>9, <1>10, <1>11, <1>12, <1>14,
     <1>15, <1>16, <1>17, <1>18, <1>19
  DEF NodeNext, Store

(* A node whose lease was never lost has no key without a lease, however   *)
(* its goroutines interleave: etcd deletes its key when the node is gone.  *)
THEOREM KeyIsLeasedAlways ==
  ASSUME KeyOfNode
  PROVE  NodeSpec => []KeyIsLeased
<1>1. LeaseInv => KeyIsLeased
  BY DEF LeaseInv, KeyIsLeased
<1> QED
  BY <1>1, TypesInit, TypesNext, LeaseInit, LeaseNext, PTL DEF NodeSpec
=============================================================================
