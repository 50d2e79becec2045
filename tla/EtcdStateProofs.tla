-------------------------- MODULE EtcdStateProofs --------------------------
(***************************************************************************)
(* Proofs about EtcdState, for any nodes, operations, sites, secrets and   *)
(* environment.                                                            *)
(*                                                                         *)
(* CleanAckIsStored: as long as an operation is clean, it is alone: nobody *)
(* else gets past the lock, and no event can replace its node's memory     *)
(* between the change and its serialization.                               *)
(*                                                                         *)
(* Converged and NoLostUpdate: as long as the operations, one after the    *)
(* other, put sites or keys of secrets, never both, a watcher that reads   *)
(* the whole state for a key finds no other state on its way.  Every node  *)
(* whose memory differs from what etcd holds still has to install it.      *)
(***************************************************************************)
EXTENDS EtcdState, SequenceTheorems, TLAPS

Places == {"down", "read", "load", "idle", "lock", "modify", "serialize",
           "secrets", "params", "mark", "put", "record", "release"}

SiteKinds == {"add", "update", "delete", "replace"}
Adding == {"add", "update", "replace"}

Calls == [kind : Kinds \cup {"none"}, arg : Sites \cup {Nobody},
          secrets : SUBSET Secrets]

(* The parts of the type invariant that the proofs need.                   *)
EtcdTypes ==
  /\ rev \in Nat /\ auxRev \in [Watchers -> Nat]
  /\ hist \in Seq([rev : Nat, sites : SUBSET Sites])
  /\ secretKeys \subseteq Secrets
NodeTypes ==
  /\ mem \in [Nodes -> States]
  /\ lastRev \in [Nodes -> Nat]
  /\ seen \in [Nodes -> Nat] /\ auxSeen \in [Nodes -> [Watchers -> Nat]]
  /\ watching \in [Nodes -> BOOLEAN]
  /\ event \in [Nodes -> SUBSET SUBSET Sites]
  /\ reload \in [Nodes -> [Watchers -> SUBSET SUBSET Sites]]
  /\ old \in [Nodes -> SUBSET States]
ProcTypes ==
  /\ pc \in [Procs -> Places]
  /\ \A p \in Nodes : pc[p] \notin {"lock", "modify"}
  /\ \A p \in Ops : pc[p] \notin {"down", "read", "load"}
  /\ call \in [Procs -> Calls]
  /\ \A w \in Ops : call[w].kind \in SiteKinds => call[w].arg \in Sites
  /\ \A n \in Nodes : call[n].kind = "none"
  /\ data \in [Procs -> States]
  /\ ok \in [Procs -> BOOLEAN]
  /\ ret \in [Procs -> Nat]
Types == EtcdTypes /\ NodeTypes /\ ProcTypes /\ scenario \in Scenarios

(* A revision that a node keeps is not newer than the store's, and what    *)
(* the watchers have received has happened.                                *)
RevInv ==
  /\ \A x \in Watchers : auxRev[x] <= rev
  /\ \A n \in Nodes : /\ lastRev[n] <= rev + 1 /\ seen[n] <= Len(hist)
                      /\ \A x \in Watchers : auxSeen[n][x] <= auxRev[x]
  /\ \A p \in Procs : ret[p] <= rev

-----------------------------------------------------------------------------
(* A clean operation *)

(* A node whose start is over, or about to be, has found a state or has    *)
(* written one.                                                            *)
StartInv ==
  /\ \A n \in Nodes :
       \/ pc[n] \in {"load", "idle", "record"}
       \/ pc[n] = "release" /\ ok[n]
       => hist # <<>>
  /\ \A w \in Ops : pc[w] # "idle" => pc[NodeOf[w]] = "idle"

Holds(w) ==
  LET n == NodeOf[w]  a == call[w].arg IN
  CASE pc[w] = "modify"                     -> CaughtUp(n)
    [] pc[w] = "serialize"                  -> CaughtUp(n) /\ a \in mem[n].sites
    [] pc[w] \in {"secrets", "params", "mark", "put"} -> a \in data[w].sites
    [] pc[w] = "record"                     -> a \in EverStored
    [] pc[w] = "release"                    -> ok[w] => a \in EverStored
    [] OTHER                                -> FALSE

CleanOp(w) ==
  /\ lock = w /\ Alone(w)
  /\ pc[w] \notin {"idle", "lock"}
  /\ pc[w] \in {"modify", "serialize"} => CaughtUp(NodeOf[w])
  /\ call[w].kind \in Adding => Holds(w)

CleanInv ==
  /\ clean \subseteq Ops /\ \A w \in clean : CleanOp(w)
  /\ CleanAckIsStored

-----------------------------------------------------------------------------
(* Operations one after the other *)

(* Nothing was stored yet: nodes are starting, no operation was called.    *)
Fresh ==
  /\ \A w \in Ops : pc[w] = "idle"
  /\ \A i \in 1..Len(hist) : hist[i].sites = {}
  /\ secretKeys = {} /\ \A x \in Watchers : auxRev[x] = 0
  /\ acked = {}
  /\ \A n \in Nodes : /\ mem[n] = Empty /\ event[n] \subseteq {{}}
                      /\ \A x \in Watchers : reload[n][x] = {}
  /\ \A p \in Procs : data[p] = Empty

AllUp == \A n \in Nodes : pc[n] = "idle" /\ watching[n]

(* An operation has changed the memory of its node, and not yet written it *)
Changing(w) == pc[w] \in {"serialize", "secrets", "params", "mark", "put"}

(* A node has the sites that are stored, or will install them.             *)
Unseen(n) == seen[n] + 1 .. Len(hist)
Informed(n) ==
  \/ mem[n].sites = Stored
  \/ event[n] = {Stored}
  \/ /\ event[n] = {} /\ Unseen(n) # {}
     /\ \A i \in Unseen(n) : hist[i].rev + 1 > lastRev[n]

(* A node has the secrets that are stored, or will read them.              *)
Equipped(n) ==
  \/ secretKeys \ mem[n].secrets \subseteq dropped
  \/ \E x \in Watchers : reload[n][x] # {} \/ auxSeen[n][x] < auxRev[x]

(* An operation that brings secrets has not put all of them yet.           *)
Bringing(w) == /\ call[w].kind \in {"secret", "replace"}
               /\ pc[w] \in {"serialize", "secrets", "params"}

WatchInv(n) ==
  /\ event[n] \subseteq {Stored}
  /\ \A x \in Watchers : reload[n][x] \subseteq {Stored}
  /\ \A i \in Unseen(n) : hist[i].sites = Stored
  /\ Equipped(n)
  /\ Informed(n) \/ \E w \in Ops : NodeOf[w] = n /\ Changing(w)
  /\ \/ mem[n].secrets \subseteq secretKeys
     \/ \E w \in Ops : NodeOf[w] = n /\ Bringing(w)

(* What the operation under way has found and done.                        *)
OpInv(w) ==
  LET n == NodeOf[w]  k == call[w].kind  a == call[w].arg IN
  /\ pc[w] \in {"lock", "modify", "serialize", "secrets"}
       => \A m \in Nodes : CaughtUp(m)
  /\ pc[w] \in {"params", "mark", "put"}
       => \A m \in Nodes :
            /\ seen[m] = Len(hist) /\ event[m] = {}
            /\ data[w].sites = Stored \/ HasKeys(m)
  /\ pc[w] \in {"lock", "modify"}
       => /\ k \in {"update", "delete"} => acked \cap Versions(a) = {}
          /\ k = "replace" => acked = {}
  /\ Changing(w)
       => /\ acked \subseteq mem[n].sites
          /\ k \in Adding => a \in mem[n].sites
  /\ pc[w] = "secrets" => data[w] = mem[n]
  /\ pc[w] = "params" => mem[n].secrets \ {DHParams} \subseteq secretKeys
  /\ pc[w] \in {"params", "mark", "put"} => data[w].sites = mem[n].sites
  /\ pc[w] = "record" => mem[n].sites = Stored
  /\ pc[w] \in {"record", "release"} /\ ok[w] /\ k \in Adding => a \in Stored

Running ==
  /\ AllUp
  /\ \A v, w \in Ops : pc[v] # "idle" /\ pc[w] # "idle" => v = w
  /\ \A n \in Nodes : WatchInv(n)
  /\ \A w \in Ops : pc[w] # "idle" => OpInv(w)
  /\ acked \subseteq Stored

CalmInv == scenario.calm /\ mixed = {} => Fresh \/ Running

-----------------------------------------------------------------------------
(* Types *)

LEMMA HomeIsNode == \A p \in Procs : Home(p) \in Nodes
BY OpsAssumption DEF Procs, Home

LEMMA StoredIsSites == ASSUME EtcdTypes PROVE Stored \subseteq Sites
<1>1. hist \in Seq([rev : Nat, sites : SUBSET Sites])
  BY DEF EtcdTypes
<1>2. CASE hist # <<>>
  <2>1. Len(hist) \in 1..Len(hist)
    BY <1>1, <1>2, EmptySeq
  <2>2. hist[Len(hist)] \in [rev : Nat, sites : SUBSET Sites]
    BY <1>1, <2>1, ElementOfSeq
  <2> QED
    BY <1>2, <2>2 DEF Stored
<1> QED
  BY <1>2 DEF Stored

LEMMA TypesInit == Init => Types /\ RevInv
<1> SUFFICES ASSUME Init PROVE Types /\ RevInv
  OBVIOUS
<1>1. hist \in Seq([rev : Nat, sites : SUBSET Sites]) /\ Len(hist) = 0
  BY DEF Init
<1>2. Empty \in States /\ Ops \cap Nodes = {}
  BY OpsAssumption DEF Empty, States
<1>3. EtcdTypes /\ NodeTypes
  BY <1>1, <1>2 DEF Init, EtcdTypes, NodeTypes, Reset
<1>4. ProcTypes
  BY <1>2 DEF Init, ProcTypes, Calls, NoCall, Procs, Places, SiteKinds
<1>5. RevInv
  BY <1>1 DEF Init, RevInv, Reset, Procs
<1> QED
  BY <1>3, <1>4, <1>5 DEF Types, Init

(* Places that only nodes that start, or only operations, go to.           *)
LEMMA GotoTypes ==
  ASSUME Types, NEW p \in Procs, NEW from, NEW to \in Places, Goto(p, from, to),
         p \in Nodes => to \notin {"lock", "modify"},
         p \in Ops => to \notin {"down", "read", "load"}
  PROVE  /\ pc' \in [Procs -> Places]
         /\ \A q \in Nodes : pc'[q] \notin {"lock", "modify"}
         /\ \A q \in Ops : pc'[q] \notin {"down", "read", "load"}
BY OpsAssumption DEF Types, ProcTypes, Goto, Procs

LEMMA PutStateTypes ==
  ASSUME Types, RevInv, NEW p \in Procs, PutState(p)
  PROVE  /\ rev' = rev + 1 /\ rev' \in Nat
         /\ hist' = Append(hist, [rev |-> rev', sites |-> data[p].sites])
         /\ hist' \in Seq([rev : Nat, sites : SUBSET Sites])
         /\ Len(hist') = Len(hist) + 1
<1>1. data[p].sites \in SUBSET Sites
  BY DEF Types, ProcTypes, States
<1>2. hist \in Seq([rev : Nat, sites : SUBSET Sites]) /\ rev \in Nat
  BY DEF Types, EtcdTypes
<1>3. /\ rev' = rev + 1 /\ rev' \in Nat
      /\ hist' = Append(hist, [rev |-> rev', sites |-> data[p].sites])
  BY <1>2 DEF PutState
<1>4. [rev |-> rev', sites |-> data[p].sites] \in [rev : Nat, sites : SUBSET Sites]
  BY <1>1, <1>3
<1> QED
  BY <1>2, <1>3, <1>4

LEMMA WatchedKeys ==
  /\ Watchers = {"secrets", "dhparams"}
  /\ Watched("secrets") = Secrets \ {DHParams}
  /\ Watched("dhparams") = Secrets \cap {DHParams}
BY DEF Watchers, Watched

(* A write that puts keys puts nothing else.                               *)
LEMMA WritePuts ==
  ASSUME Types, NEW p \in Procs, Write(p)
  PROVE  \/ UNCHANGED <<secretKeys, auxRev, mixed>>
         \/ \E x \in Watchers, new \in SUBSET Secrets :
              PutKeys(p, x, new) /\ hist' = hist
<1>1. Home(p) \in Nodes /\ data[p] \in States /\ mem[Home(p)] \in States
  BY HomeIsNode DEF Types, NodeTypes, ProcTypes
<1>2. /\ Puttable(p, SecretsOf(p)) \subseteq Secrets
      /\ Puttable(p, ParamsOf(p)) \subseteq Secrets
  BY <1>1 DEF Puttable, SecretsOf, ParamsOf, States
<1>3. "secrets" \in Watchers /\ "dhparams" \in Watchers
  BY DEF Watchers
<1>4. CASE PutSecrets(p)
  BY <1>2, <1>3, <1>4 DEF PutSecrets
<1>5. CASE PutParams(p)
  BY <1>2, <1>3, <1>5 DEF PutParams
<1>6. CASE WriteFails(p)
  BY <1>2, <1>3, <1>6 DEF WriteFails
<1> QED
  BY <1>4, <1>5, <1>6
  DEF Write, Serialize, Mark, PutDifferent, PutSame, Record, PutState,
      etcdVars, ghostVars

LEMMA PutKeysTypes ==
  ASSUME Types, RevInv, NEW p \in Procs, NEW x \in Watchers,
         NEW new \in SUBSET Secrets, PutKeys(p, x, new)
  PROVE  /\ rev' \in {rev, rev + 1} /\ secretKeys' \subseteq Secrets
         /\ auxRev' \in [Watchers -> Nat] /\ mixed \subseteq mixed'
         /\ \A y \in Watchers : auxRev[y] <= auxRev'[y] /\ auxRev'[y] <= rev'
BY DEF PutKeys, Types, EtcdTypes, RevInv

LEMMA WriteTypes ==
  ASSUME Types, RevInv, NEW p \in Procs, Write(p)
  PROVE  Types' /\ RevInv'
<1> USE DEF etcdVars, watchVars, procVars, ghostVars, Fault, FaultCounted
<1>1. Home(p) \in Nodes /\ mem[Home(p)] \in States
  BY HomeIsNode DEF Types, NodeTypes
<1>2. /\ hist \in Seq([rev : Nat, sites : SUBSET Sites]) /\ Len(hist) \in Nat
      /\ rev \in Nat /\ auxRev \in [Watchers -> Nat]
      /\ secretKeys \subseteq Secrets
  BY DEF Types, EtcdTypes
<1>3. /\ pc' \in [Procs -> Places]
      /\ \A q \in Nodes : pc'[q] \notin {"lock", "modify"}
      /\ \A q \in Ops : pc'[q] \notin {"down", "read", "load"}
  BY GotoTypes
  DEF Write, Serialize, PutSecrets, PutParams, PutKeys, Mark,
      PutDifferent, PutSame, Record,
      WriteFails, Places
<1>4. UNCHANGED <<mem, watchVars, call, scenario>>
  BY DEF Write, Serialize, PutSecrets, PutParams, PutKeys, Mark,
         PutDifferent, PutSame, Record,
         WriteFails
<1>5. data' \in [Procs -> States]
  BY <1>1 DEF Write, Serialize, PutSecrets, PutParams, PutKeys, Mark,
              PutDifferent, PutSame, Record,
              WriteFails, Types, ProcTypes
<1>6. ok' \in [Procs -> BOOLEAN]
  BY DEF Write, Serialize, PutSecrets, PutParams, PutKeys, Mark,
         PutDifferent, PutSame, Record,
         WriteFails, Types, ProcTypes
<1>7. \/ UNCHANGED <<hist, rev>> \/ PutState(p)
      \/ hist' = hist /\ rev' = rev + 1
  BY DEF Write, Serialize, PutSecrets, PutParams, PutKeys, Mark,
         PutDifferent, PutSame, Record,
         WriteFails
<1>8. /\ hist' \in Seq([rev : Nat, sites : SUBSET Sites])
      /\ rev' \in Nat /\ rev' >= rev /\ Len(hist') >= Len(hist)
  <2>1. CASE PutState(p)
    <3>1. /\ rev' = rev + 1 /\ Len(hist') = Len(hist) + 1
          /\ hist' \in Seq([rev : Nat, sites : SUBSET Sites])
      BY <2>1, PutStateTypes
    <3> QED
      BY <1>2, <3>1
  <2>2. CASE hist' = hist /\ rev' \in {rev, rev + 1}
    BY <1>2, <2>2
  <2> QED
    BY <1>7, <2>1, <2>2
<1>9. /\ auxRev' \in [Watchers -> Nat] /\ secretKeys' \subseteq Secrets
      /\ \A y \in Watchers : auxRev[y] <= auxRev'[y] /\ auxRev'[y] <= rev'
  <2>1. CASE UNCHANGED <<secretKeys, auxRev, mixed>>
    BY <1>2, <1>8, <2>1 DEF RevInv
  <2> QED
    BY <2>1, WritePuts, PutKeysTypes
<1>10. ret' \in [Procs -> Nat] /\ \A q \in Procs : ret'[q] <= rev'
  <2>1. ret' = ret \/ ret' = [ret EXCEPT ![p] = rev']
    BY DEF Write, Serialize, PutSecrets, PutParams, PutKeys, Mark,
           PutDifferent, PutSame, Record,
           WriteFails
  <2>2. ret \in [Procs -> Nat] /\ \A q \in Procs : ret[q] <= rev
    BY DEF Types, ProcTypes, RevInv
  <2>3. rev' \in Nat /\ \A q \in Procs : ret[q] <= rev'
    BY <1>2, <1>8, <2>2
  <2> QED
    BY <2>1, <2>2, <2>3
<1>11. /\ lastRev' \in [Nodes -> Nat]
       /\ \A n \in Nodes : lastRev'[n] <= rev' + 1
  <2>1. ret[p] \in Nat /\ ret[p] <= rev
    BY DEF Types, ProcTypes, RevInv
  <2>2. \/ lastRev' = lastRev
        \/ \E r \in {Semaphore, Reset, ret[p] + 1} :
             lastRev' = [lastRev EXCEPT ![Home(p)] = r]
    BY DEF Write, Serialize, PutSecrets, PutParams, PutKeys, Mark,
           PutDifferent, PutSame, Record,
           WriteFails
  <2>3. lastRev \in [Nodes -> Nat] /\ \A n \in Nodes : lastRev[n] <= rev + 1
    BY DEF Types, NodeTypes, RevInv
  <2>4. ASSUME NEW r \in Nat, r <= rev + 1,
               lastRev' = [lastRev EXCEPT ![Home(p)] = r]
        PROVE  /\ lastRev' \in [Nodes -> Nat]
               /\ \A n \in Nodes : lastRev'[n] <= rev' + 1
    BY <1>1, <1>2, <1>8, <2>3, <2>4
  <2>5. \A r \in {Semaphore, Reset, ret[p] + 1} : r \in Nat /\ r <= rev + 1
    BY <1>2, <2>1 DEF Semaphore, Reset
  <2> QED
    BY <1>2, <1>8, <2>2, <2>3, <2>4, <2>5
<1>12. Types'
  BY <1>3, <1>4, <1>5, <1>6, <1>8, <1>9, <1>10, <1>11
  DEF Types, EtcdTypes, NodeTypes, ProcTypes
<1>13. RevInv'
  BY <1>2, <1>4, <1>8, <1>9, <1>10, <1>11 DEF RevInv, Types, EtcdTypes, NodeTypes
<1> QED
  BY <1>12, <1>13

LEMMA OperationTypes ==
  ASSUME Types, RevInv, NEW w \in Ops, Operation(w)
  PROVE  Types' /\ RevInv'
<1> USE DEF etcdVars, watchVars, procVars, ghostVars
<1>1. w \in Procs /\ NodeOf[w] \in Nodes
  BY OpsAssumption DEF Procs
<1>2. UNCHANGED <<hist, rev, secretKeys, auxRev, watchVars, ret, scenario>>
  BY DEF Operation, Call, Unhealthy, AcquireLock, AcquireFails, Modify, Return,
         Fault, FaultCounted
<1>3. /\ pc' \in [Procs -> Places]
      /\ \A q \in Nodes : pc'[q] \notin {"lock", "modify"}
      /\ \A q \in Ops : pc'[q] \notin {"down", "read", "load"}
  <2>1. pc' = pc \/ \E from, to \in {"idle", "lock", "modify", "serialize", "release"} :
                      Goto(w, from, to)
    BY DEF Operation, Call, Unhealthy, AcquireLock, AcquireFails, Modify, Return
  <2>2. w \notin Nodes
    BY OpsAssumption
  <2> QED
    BY <1>1, <2>1, <2>2, GotoTypes DEF Places, Types, ProcTypes
<1>4. mem' \in [Nodes -> States]
  <2>1. CASE mem' = mem
    BY <2>1 DEF Types, NodeTypes
  <2>2. CASE Modify(w)
    <3> DEFINE n == NodeOf[w]  k == call[w].kind  a == call[w].arg
    <3>1. mem[n] \in States /\ mem \in [Nodes -> States]
      BY <1>1 DEF Types, NodeTypes
    <3> DEFINE found == k \in {"update", "delete"} => Versions(a) \cap mem[n].sites # {}
               ss == CASE k = "add"             -> mem[n].sites \cup {a}
                       [] k = "update" /\ found -> (mem[n].sites \ Versions(a)) \cup {a}
                       [] k = "delete"          -> mem[n].sites \ Versions(a)
                       [] k = "replace"         -> {a}
                       [] OTHER                 -> mem[n].sites
               sc == CASE k = "secret"  -> mem[n].secrets \cup call[w].secrets
                       [] k = "forget"  -> mem[n].secrets \ call[w].secrets
                       [] k = "replace" -> call[w].secrets
                       [] OTHER         -> mem[n].secrets
    <3>2. mem' = [mem EXCEPT ![n].sites = ss, ![n].secrets = sc]
      BY <2>2 DEF Modify
    <3>3. k \in SiteKinds => a \in Sites
      BY DEF Types, ProcTypes
    <3>4. call[w].secrets \subseteq Secrets
      BY <1>1 DEF Types, ProcTypes, Calls
    <3>5. ss \in SUBSET Sites
      BY <3>1, <3>3 DEF States, SiteKinds
    <3>6. sc \in SUBSET Secrets
      BY <3>1, <3>4 DEF States
    <3> HIDE DEF ss, sc
    <3> QED
      BY <1>1, <3>1, <3>2, <3>5, <3>6 DEF States
  <2> QED
    BY <2>1, <2>2
    DEF Operation, Call, Unhealthy, AcquireLock, AcquireFails, Return
<1>5. lastRev' = lastRev \/ lastRev' = [lastRev EXCEPT ![NodeOf[w]] = Reset]
  BY DEF Operation, Call, Unhealthy, AcquireLock, AcquireFails, Modify, Return
<1>6. lastRev' \in [Nodes -> Nat] /\ \A n \in Nodes : lastRev'[n] <= rev + 1
  <2>1. /\ lastRev \in [Nodes -> Nat] /\ rev \in Nat
        /\ \A n \in Nodes : lastRev[n] <= rev + 1
    BY DEF Types, NodeTypes, EtcdTypes, RevInv
  <2>2. Reset \in Nat /\ Reset <= rev + 1
    BY <2>1 DEF Reset
  <2> QED
    BY <1>1, <1>5, <2>1, <2>2
<1>7. ok' \in [Procs -> BOOLEAN]
  <2>1. ok' = ok \/ \E b \in BOOLEAN : ok' = [ok EXCEPT ![w] = b]
    BY DEF Operation, Call, Unhealthy, AcquireLock, AcquireFails, Modify, Return
  <2> QED
    BY <2>1 DEF Types, ProcTypes
<1>8. data' \in [Procs -> States]
  <2>1. data' = data \/ data' = [data EXCEPT ![w] = Empty]
    BY DEF Operation, Call, Unhealthy, AcquireLock, AcquireFails, Modify, Return
  <2> QED
    BY <2>1 DEF Types, ProcTypes, Empty, States
<1>9. \/ call' = call
      \/ \E c \in Calls : /\ call' = [call EXCEPT ![w] = c]
                          /\ c.kind \in SiteKinds => c.arg \in Sites
  <2>1. CASE Call(w)
    <3>1. PICK k \in Kinds, a \in Sites \cup {Nobody}, keys \in SUBSET Secrets :
            /\ call' = [call EXCEPT ![w] =
                          [kind |-> k, arg |-> a, secrets |-> keys]]
            /\ k \in SiteKinds => a \in Sites
      <4>1. /\ scenario.kinds \subseteq Kinds /\ scenario.sites \subseteq Sites
            /\ scenario.secrets \subseteq Secrets
        BY ScenariosAssumption DEF Types, Scenario
      <4>2. PICK k \in scenario.kinds, a \in scenario.sites \cup {Nobody},
                 keys \in SUBSET scenario.secrets :
              /\ call' = [call EXCEPT ![w] =
                            [kind |-> k, arg |-> a, secrets |-> keys]]
              /\ k \notin {"secret", "forget"} => a \in Sites
        BY <2>1 DEF Call
      <4>3. k \in Kinds /\ a \in Sites \cup {Nobody} /\ keys \in SUBSET Secrets
        BY <4>1, <4>2
      <4> QED
        BY <4>2, <4>3 DEF SiteKinds
    <3>2. [kind |-> k, arg |-> a, secrets |-> keys] \in Calls
      BY DEF Calls
    <3> QED
      BY <3>1, <3>2
  <2>2. CASE Return(w)
    <3>1. NoCall \in Calls /\ NoCall.kind \notin SiteKinds
      BY DEF Calls, SiteKinds, NoCall
    <3> QED
      BY <2>2, <3>1 DEF Return
  <2> QED
    BY <2>1, <2>2
    DEF Operation, Unhealthy, AcquireLock, AcquireFails, Modify
<1>10. /\ call' \in [Procs -> Calls]
       /\ \A v \in Ops : call'[v].kind \in SiteKinds => call'[v].arg \in Sites
       /\ \A n \in Nodes : call'[n].kind = "none"
  BY <1>1, <1>9, OpsAssumption DEF Types, ProcTypes, Procs
<1>11. ProcTypes'
  BY <1>2, <1>3, <1>7, <1>8, <1>10 DEF Types, ProcTypes
<1> QED
  BY <1>2, <1>4, <1>6, <1>11 DEF Types, EtcdTypes, NodeTypes, RevInv, Types, ProcTypes

LEMMA InstallTypes ==
  ASSUME Types, NEW n \in Nodes, NEW s \in SUBSET Sites, InstallState(n, s)
  PROVE  mem' \in [Nodes -> States]
BY DEF Types, NodeTypes, EtcdTypes, InstallState, States

LEMMA ReplacedTypes ==
  ASSUME Types, NEW n \in Nodes, Replaced(n)
  PROVE  old' \in [Nodes -> SUBSET States]
BY DEF Types, NodeTypes, Replaced

LEMMA StartTypes ==
  ASSUME Types, RevInv, NEW n \in Nodes, Start(n)
  PROVE  Types' /\ RevInv'
<1> USE DEF etcdVars, watchVars, procVars, ghostVars
<1>1. n \in Procs /\ n \notin Ops
  BY OpsAssumption DEF Procs
<1>2. UNCHANGED <<hist, rev, secretKeys, auxRev, lastRev, event, reload, call,
                  ret, scenario>>
  BY DEF Start, Boot, WatchStarts, ReadExisting, LoadState, CreateState, Booted
<1>3. /\ pc' \in [Procs -> Places]
      /\ \A q \in Nodes : pc'[q] \notin {"lock", "modify"}
      /\ \A q \in Ops : pc'[q] \notin {"down", "read", "load"}
  <2>1. pc' = pc \/ \E from, to \in {"down", "read", "load", "idle", "serialize",
                                     "release"} : Goto(n, from, to)
    BY DEF Start, Boot, WatchStarts, ReadExisting, LoadState, CreateState, Booted
  <2> QED
    BY <1>1, <2>1, GotoTypes DEF Places, Types, ProcTypes
<1>4. Empty \in States /\ Len(hist) \in Nat /\ Stored \subseteq Sites
  BY StoredIsSites DEF Empty, States, Types, EtcdTypes
<1>5. data' \in [Procs -> States]
  <2>1. \/ data' = data \/ data' = [data EXCEPT ![n].sites = Stored]
        \/ data' = [data EXCEPT ![n] = Empty]
    BY DEF Start, Boot, WatchStarts, ReadExisting, LoadState, CreateState, Booted
  <2>2. data \in [Procs -> [sites : SUBSET Sites, secrets : SUBSET Secrets]]
    BY DEF Types, ProcTypes, States
  <2> QED
    BY <1>1, <1>4, <2>1, <2>2 DEF States
<1>6. mem' \in [Nodes -> States]
  <2>1. CASE LoadState(n)
    <3>1. data[n].sites \in SUBSET Sites
      BY <1>1 DEF Types, ProcTypes, States
    <3> QED
      BY <2>1, <3>1, InstallTypes DEF LoadState
  <2>2. CASE mem' = mem \/ mem' = [mem EXCEPT ![n] = Empty]
    BY <1>4, <2>2 DEF Types, NodeTypes
  <2> QED
    BY <2>1, <2>2 DEF Start, Boot, WatchStarts, ReadExisting, CreateState, Booted
<1>7. old' \in [Nodes -> SUBSET States]
  BY ReplacedTypes
  DEF Start, Boot, WatchStarts, ReadExisting, LoadState, CreateState, Booted,
      Types, NodeTypes
<1>8. ok' \in [Procs -> BOOLEAN]
  BY DEF Start, Boot, WatchStarts, ReadExisting, LoadState, CreateState, Booted,
         Types, ProcTypes
<1>9. /\ seen' \in [Nodes -> Nat] /\ auxSeen' \in [Nodes -> [Watchers -> Nat]]
      /\ watching' \in [Nodes -> BOOLEAN]
      /\ \A m \in Nodes : /\ seen'[m] <= Len(hist)
                          /\ \A x \in Watchers : auxSeen'[m][x] <= auxRev[x]
  <2>1. /\ auxRev \in [Watchers -> Nat]
        /\ seen \in [Nodes -> Nat] /\ auxSeen \in [Nodes -> [Watchers -> Nat]]
        /\ watching \in [Nodes -> BOOLEAN]
        /\ \A m \in Nodes : /\ seen[m] <= Len(hist)
                            /\ \A x \in Watchers : auxSeen[m][x] <= auxRev[x]
    BY DEF Types, EtcdTypes, NodeTypes, RevInv
  <2>2. Len(hist) <= Len(hist) /\ \A x \in Watchers : auxRev[x] <= auxRev[x]
    BY <1>4, <2>1
  <2>3. CASE UNCHANGED <<seen, auxSeen, watching>>
    BY <2>1, <2>3
  <2>4. CASE WatchStarts(n)
    BY <1>4, <2>1, <2>2, <2>4 DEF WatchStarts
  <2> QED
    BY <2>3, <2>4 DEF Start, Boot, ReadExisting, LoadState, CreateState, Booted
<1>10. ProcTypes'
  BY <1>2, <1>3, <1>5, <1>8 DEF Types, ProcTypes
<1>11. EtcdTypes' /\ NodeTypes'
  BY <1>2, <1>6, <1>7, <1>9 DEF Types, EtcdTypes, NodeTypes
<1> QED
  BY <1>2, <1>9, <1>10, <1>11 DEF Types, RevInv

LEMMA TakeTypes ==
  ASSUME Types, RevInv, NEW n \in Nodes, Take(n)
  PROVE  /\ event' \in [Nodes -> SUBSET SUBSET Sites]
         /\ old' \in [Nodes -> SUBSET States]
         /\ seen' \in [Nodes -> Nat] /\ \A m \in Nodes : seen'[m] <= Len(hist)
<1>1. PICK i \in seen[n] + 1 .. Len(hist) :
        /\ seen' = [seen EXCEPT ![n] = i]
        /\ event' = [event EXCEPT ![n] =
             IF hist[i].rev + 1 > lastRev[n] THEN {hist[i].sites} ELSE {}]
  BY DEF Take
<1>2. /\ hist \in Seq([rev : Nat, sites : SUBSET Sites]) /\ Len(hist) \in Nat
      /\ seen \in [Nodes -> Nat] /\ \A m \in Nodes : seen[m] <= Len(hist)
  BY DEF Types, EtcdTypes, NodeTypes, RevInv
<1>3. i \in 1..Len(hist) /\ i \in Nat
  BY <1>1, <1>2
<1>4. hist[i].sites \in SUBSET Sites
  <2>1. hist[i] \in [rev : Nat, sites : SUBSET Sites]
    BY <1>2, <1>3, ElementOfSeq
  <2> QED
    BY <2>1
<1> QED
  BY <1>1, <1>2, <1>3, <1>4 DEF Take, Types, NodeTypes

LEMMA WatchTypes ==
  ASSUME Types, RevInv, NEW n \in Nodes, Watch(n)
  PROVE  Types' /\ RevInv'
<1> USE DEF etcdVars, watchVars, procVars, ghostVars
<1>1. UNCHANGED <<hist, rev, secretKeys, auxRev, lastRev, watching, procVars,
                  scenario>>
  BY DEF Watch, Receive, ReceiveEarly, Take, Install, InstallFails, Reload, ReloadGet,
         ReloadInstall, ReloadFails, Fault, FaultCounted
<1>2. Stored \in SUBSET Sites
  BY StoredIsSites DEF Types
<1>3. EtcdTypes' /\ ProcTypes' /\ scenario' \in Scenarios
  BY <1>1 DEF Types, EtcdTypes, ProcTypes
<1>4. CASE Receive(n) \/ ReceiveEarly(n)
  <2>1. Take(n) /\ UNCHANGED <<mem, auxSeen, reload>>
    BY <1>4 DEF Receive, ReceiveEarly, Take
  <2> QED
    BY <1>1, <1>3, <2>1, TakeTypes DEF Types, NodeTypes, RevInv
<1>5. CASE Install(n)
  <2>1. mem' \in [Nodes -> States]
    BY <1>5, InstallTypes DEF Install, Types, NodeTypes
  <2> QED
    BY <1>1, <1>3, <1>5, <2>1 DEF Install, Types, NodeTypes, RevInv
<1>6. CASE InstallFails(n)
  BY <1>1, <1>3, <1>6 DEF InstallFails, Types, NodeTypes, RevInv
<1>7. ASSUME NEW x \in Watchers, ReloadGet(n, x) PROVE Types' /\ RevInv'
  <2>1. /\ auxSeen \in [Nodes -> [Watchers -> Nat]] /\ auxRev \in [Watchers -> Nat]
        /\ reload \in [Nodes -> [Watchers -> SUBSET SUBSET Sites]]
        /\ \A m \in Nodes, y \in Watchers : auxSeen[m][y] <= auxRev[y]
        /\ auxRev[x] <= auxRev[x]
    BY DEF Types, EtcdTypes, NodeTypes, RevInv
  <2>2. /\ auxSeen' = [auxSeen EXCEPT ![n][x] = auxRev[x]]
        /\ reload' = [reload EXCEPT ![n][x] = {Stored}]
        /\ UNCHANGED <<mem, seen, event, old>>
    BY <1>7 DEF ReloadGet
  <2>3. /\ auxSeen' \in [Nodes -> [Watchers -> Nat]]
        /\ \A m \in Nodes, y \in Watchers : auxSeen'[m][y] <= auxRev[y]
    BY <2>1, <2>2
  <2>4. reload' \in [Nodes -> [Watchers -> SUBSET SUBSET Sites]]
    BY <1>2, <2>1, <2>2
  <2> QED
    BY <1>1, <1>3, <2>2, <2>3, <2>4 DEF Types, NodeTypes, RevInv
<1>8. ASSUME NEW x \in Watchers, ReloadInstall(n, x) PROVE Types' /\ RevInv'
  <2>1. mem' \in [Nodes -> States]
    BY <1>8, InstallTypes DEF ReloadInstall, Types, NodeTypes
  <2>2. old' \in [Nodes -> SUBSET States]
    BY <1>8, ReplacedTypes DEF ReloadInstall
  <2>3. reload' \in [Nodes -> [Watchers -> SUBSET SUBSET Sites]]
    BY <1>8 DEF ReloadInstall, Types, NodeTypes
  <2> QED
    BY <1>1, <1>3, <1>8, <2>1, <2>2, <2>3
    DEF ReloadInstall, Types, NodeTypes, RevInv
<1>9. ASSUME NEW x \in Watchers, ReloadFails(n, x) PROVE Types' /\ RevInv'
  <2>1. reload' \in [Nodes -> [Watchers -> SUBSET SUBSET Sites]]
    BY <1>9 DEF ReloadFails, Types, NodeTypes
  <2> QED
    BY <1>1, <1>3, <1>9, <2>1 DEF ReloadFails, Types, NodeTypes, RevInv
<1> QED
  BY <1>4, <1>5, <1>6, <1>7, <1>8, <1>9 DEF Watch, Reload

LEMMA CrashTypes ==
  ASSUME Types, RevInv, NEW n \in Nodes, Crash(n)
  PROVE  Types' /\ RevInv'
<1>1. /\ pc' \in [Procs -> Places]
      /\ \A q \in Nodes : pc'[q] \notin {"lock", "modify"}
      /\ \A q \in Ops : pc'[q] \notin {"down", "read", "load"}
  BY OpsAssumption DEF Crash, Types, ProcTypes, Places, Procs
<1>2. Empty \in States
  BY DEF Empty, States
<1>3. ProcTypes'
  BY <1>1 DEF Crash, Types, ProcTypes
<1>4. EtcdTypes' /\ NodeTypes'
  BY <1>2 DEF Crash, etcdVars, Types, EtcdTypes, NodeTypes, Reset
<1>5. RevInv'
  BY DEF Crash, etcdVars, Types, EtcdTypes, NodeTypes, ProcTypes, RevInv, Reset
<1> QED
  BY <1>3, <1>4, <1>5 DEF Crash, Types

LEMMA TypesFrame ==
  ASSUME Types, RevInv,
         UNCHANGED <<hist, rev, secretKeys, auxRev, mem, lastRev, watchVars,
                     procVars, scenario>>
  PROVE  Types' /\ RevInv'
BY DEF Types, EtcdTypes, NodeTypes, ProcTypes, RevInv, watchVars, procVars

LEMMA TypesNext == Types /\ RevInv /\ [Next]_vars => Types' /\ RevInv'
<1> SUFFICES ASSUME Types, RevInv, [Next]_vars PROVE Types' /\ RevInv'
  OBVIOUS
<1>1. CASE ExpireLock \/ UNCHANGED vars
  BY <1>1, TypesFrame DEF ExpireLock, vars, etcdVars, ghostVars
<1> QED
  BY <1>1, WriteTypes, OperationTypes, StartTypes, WatchTypes, CrashTypes
  DEF Next

-----------------------------------------------------------------------------
(* The start of a node *)

(* The puts of the state's key are never undone.                           *)
LEMMA PutStores ==
  ASSUME Types, RevInv, NEW p \in Procs, PutState(p)
  PROVE  /\ hist' # <<>> /\ EverStored \subseteq EverStored'
         /\ Stored' = data[p].sites /\ data[p].sites \subseteq EverStored'
<1>1. /\ hist \in Seq([rev : Nat, sites : SUBSET Sites]) /\ Len(hist) \in Nat
      /\ hist' = Append(hist, [rev |-> rev', sites |-> data[p].sites])
      /\ hist' \in Seq([rev : Nat, sites : SUBSET Sites])
      /\ Len(hist') = Len(hist) + 1
  <2>1. hist \in Seq([rev : Nat, sites : SUBSET Sites])
    BY DEF Types, EtcdTypes
  <2>2. Len(hist) \in Nat
    BY <2>1
  <2> QED
    BY ONLY <2>1, <2>2, PutStateTypes, Types, RevInv, p \in Procs, PutState(p)
<1>2. hist'[Len(hist')].sites = data[p].sites
  BY <1>1
<1>3. \A i \in DOMAIN hist : i \in DOMAIN hist' /\ hist'[i] = hist[i]
  BY <1>1
<1>4. hist' # <<>> /\ Len(hist') \in DOMAIN hist'
  BY <1>1
<1>5. data[p].sites \subseteq EverStored'
  BY <1>2, <1>4 DEF EverStored
<1>6. EverStored \subseteq EverStored'
  BY <1>3 DEF EverStored
<1> QED
  BY <1>2, <1>4, <1>5, <1>6 DEF Stored

LEMMA StoredEver == ASSUME Types, hist # <<>> PROVE Stored \subseteq EverStored
<1>1. hist \in Seq([rev : Nat, sites : SUBSET Sites])
  BY DEF Types, EtcdTypes
<1>2. Len(hist) \in DOMAIN hist
  BY <1>1, EmptySeq
<1> QED
  BY <1>2 DEF Stored, EverStored

LEMMA HistGrows ==
  ASSUME Types, RevInv, [Next]_vars
  PROVE  /\ EverStored \subseteq EverStored'
         /\ hist # <<>> => hist' # <<>>
<1> USE DEF etcdVars, ghostVars, Fault, FaultCounted
<1>1. CASE hist' = hist
  BY <1>1 DEF EverStored
<1>2. ASSUME NEW p \in Procs, PutState(p)
      PROVE  EverStored \subseteq EverStored' /\ hist' # <<>>
  BY <1>2, PutStores
<1>3. ASSUME NEW p \in Procs, Write(p) PROVE hist' = hist \/ PutState(p)
  BY <1>3
  DEF Write, Serialize, PutSecrets, PutParams, PutKeys, Mark,
      PutDifferent, PutSame, Record,
      WriteFails
<1>4. ASSUME NEW w \in Ops, Operation(w) PROVE hist' = hist
  BY <1>4
  DEF Operation, Call, Unhealthy, AcquireLock, AcquireFails, Modify, Return
<1>5. ASSUME NEW n \in Nodes, Start(n) \/ Watch(n) \/ Crash(n) PROVE hist' = hist
  BY <1>5
  DEF Start, Boot, WatchStarts, ReadExisting, LoadState, CreateState, Booted,
      Watch, Receive, ReceiveEarly, Take, Install, InstallFails, Reload, ReloadGet,
      ReloadInstall, ReloadFails, Crash
<1>6. CASE ExpireLock \/ UNCHANGED vars
  BY <1>1, <1>6 DEF ExpireLock, vars
<1> QED
  BY <1>1, <1>2, <1>3, <1>4, <1>5, <1>6 DEF Next

LEMMA StartNext ==
  ASSUME Types, RevInv, StartInv, [Next]_vars
  PROVE  StartInv'
<1> USE DEF etcdVars, watchVars, procVars, ghostVars, Fault, FaultCounted
<1>1. /\ Ops \cap Nodes = {} /\ \A w \in Ops : NodeOf[w] \in Nodes
      /\ Ops \subseteq Procs /\ Nodes \subseteq Procs
      /\ pc \in [Procs -> Places] /\ ok \in [Procs -> BOOLEAN]
  BY OpsAssumption DEF Procs, Types, ProcTypes
<1>2. hist # <<>> => hist' # <<>>
  BY HistGrows
<1>3. CASE UNCHANGED <<pc, ok>>
  BY <1>2, <1>3 DEF StartInv
<1>4. ASSUME NEW p \in Procs, Write(p) PROVE StartInv'
  <2>1. PICK from \in {"serialize", "secrets", "params", "mark", "put", "record"},
             to \in {"secrets", "params", "mark", "put", "record", "release"} :
          /\ Goto(p, from, to)
          /\ to = "record" => hist' # <<>>
          /\ to = "release" /\ ok'[p] => hist' # <<>> \/ from = "record"
    <3>1. ASSUME PutDifferent(p) PROVE hist' # <<>>
      BY <3>1, PutStores DEF PutDifferent
    <3>2. ASSUME PutSame(p) PROVE hist' # <<>>
      BY <3>2 DEF PutSame, Differs
    <3>3. ASSUME WriteFails(p) PROVE ~ok'[p]
      BY <1>1, <3>3 DEF WriteFails
    <3> QED
      BY <1>1, <1>4, <3>1, <3>2, <3>3
      DEF Write, Serialize, PutSecrets, PutParams, PutKeys, Mark,
          PutDifferent, PutSame, Record,
          WriteFails, Goto
  <2>2. \A q \in Procs : q # p => pc'[q] = pc[q] /\ ok'[q] = ok[q]
    <3>1. ok' = ok \/ ok' = [ok EXCEPT ![p] = FALSE]
      BY <1>4
      DEF Write, Serialize, PutSecrets, PutParams, PutKeys, Mark,
          PutDifferent, PutSame, Record,
          WriteFails
    <3> QED
      BY <1>1, <2>1, <3>1 DEF Goto
  <2>3. /\ pc[p] = from /\ pc'[p] = to
        /\ from = "record" /\ p \in Nodes => hist # <<>>
    BY <1>1, <2>1 DEF Goto, StartInv
  <2> QED
    BY <1>1, <1>2, <2>1, <2>2, <2>3 DEF StartInv
<1>5. ASSUME NEW w \in Ops, Operation(w) PROVE StartInv'
  <2>1. /\ \A q \in Procs : q # w => pc'[q] = pc[q] /\ ok'[q] = ok[q]
        /\ pc[w] = "idle" /\ pc'[w] # "idle" => pc[NodeOf[w]] = "idle"
    BY <1>1, <1>5
    DEF Operation, Call, Unhealthy, AcquireLock, AcquireFails, Modify, Return,
        Goto
  <2> QED
    BY <1>1, <1>2, <2>1 DEF StartInv
<1>6. ASSUME NEW n \in Nodes, Start(n) PROVE StartInv'
  <2>1. CASE WatchStarts(n)
    BY <1>3, <2>1 DEF WatchStarts
  <2>2. CASE Boot(n) \/ ReadExisting(n) \/ LoadState(n) \/ CreateState(n) \/ Booted(n)
    <3>1. /\ \A q \in Procs : q # n => pc'[q] = pc[q] /\ ok'[q] = ok[q]
          /\ pc[n] # "idle"
          /\ pc'[n] \in {"load", "idle", "record"} \/ pc'[n] = "release"
               => hist' # <<>>
      BY <1>1, <1>2, <2>2
      DEF Boot, ReadExisting, LoadState, CreateState, Booted, Goto, StartInv
    <3> QED
      BY <1>1, <1>2, <3>1 DEF StartInv
  <2> QED
    BY <1>6, <2>1, <2>2 DEF Start
<1>7. ASSUME NEW n \in Nodes, Watch(n) PROVE StartInv'
  BY <1>3, <1>7
  DEF Watch, Receive, ReceiveEarly, Take, Install, InstallFails, Reload, ReloadGet,
      ReloadInstall, ReloadFails
<1>8. ASSUME NEW n \in Nodes, Crash(n) PROVE StartInv'
  <2>1. /\ pc' = [p \in Procs |-> IF p = n THEN "down"
                                 ELSE IF Home(p) = n THEN "idle" ELSE pc[p]]
        /\ UNCHANGED ok
    BY <1>8 DEF Crash
  <2> QED
    BY <1>1, <1>2, <2>1 DEF StartInv, Home
<1>9. CASE ExpireLock \/ UNCHANGED vars
  BY <1>3, <1>9 DEF ExpireLock, vars
<1> QED
  BY <1>4, <1>5, <1>6, <1>7, <1>8, <1>9 DEF Next

-----------------------------------------------------------------------------
(* Clean operations *)

(* A step of another process that keeps what a clean operation relies on.  *)
LEMMA CleanFrame ==
  ASSUME CleanInv, NEW w \in clean, lock' = w, Alone(w)',
         pc'[w] = pc[w], call'[w] = call[w], data'[w] = data[w],
         ok'[w] = ok[w], EverStored \subseteq EverStored',
         CaughtUp(NodeOf[w]) => /\ CaughtUp(NodeOf[w])'
                                /\ mem'[NodeOf[w]] = mem[NodeOf[w]]
  PROVE  CleanOp(w)'
<1>1. CleanOp(w)
  BY DEF CleanInv
<1>2. pc'[w] \in {"modify", "serialize"} => CaughtUp(NodeOf[w])'
  BY <1>1 DEF CleanOp
<1>3. call'[w].kind \in Adding => Holds(w)'
  BY <1>1, <1>2 DEF CleanOp, Holds
<1> QED
  BY <1>1, <1>2, <1>3 DEF CleanOp

(* A clean operation is the only one that gets past the lock.              *)
LEMMA OthersWait ==
  ASSUME CleanInv, NEW w \in clean, NEW p \in Procs, p # w
  PROVE  pc[p] \in {"down", "read", "load", "idle", "lock"}
BY DEF CleanInv, CleanOp, Alone

LEMMA WriteKeepsClean ==
  ASSUME Types, RevInv, CleanInv, NEW p \in Procs, Write(p),
         EverStored \subseteq EverStored'
  PROVE  CleanInv'
<1> USE DEF etcdVars, watchVars, procVars, ghostVars, Fault, FaultCounted
<1>1. /\ pc \in [Procs -> Places] /\ ok \in [Procs -> BOOLEAN]
      /\ data \in [Procs -> States]
  BY DEF Types, ProcTypes
<1>2. UNCHANGED <<lock, mem, call, clean, vouched, watching>>
  BY DEF Write, Serialize, PutSecrets, PutParams, PutKeys, Mark,
         PutDifferent, PutSame, Record,
         WriteFails
<1>3. PICK from \in {"serialize", "secrets", "params", "mark", "put", "record"},
           to \in {"secrets", "params", "mark", "put", "record", "release"} :
        Goto(p, from, to)
  BY DEF Write, Serialize, PutSecrets, PutParams, PutKeys, Mark,
         PutDifferent, PutSame, Record,
         WriteFails
<1>4. ASSUME NEW w \in clean PROVE CleanOp(w)'
  <2>1. w = p /\ CleanOp(w) /\ w \in Ops
    BY <1>3, OthersWait DEF CleanInv, Goto
  <2>2. pc[w] = from /\ pc'[w] = to /\ \A q \in Procs \ {w} : pc'[q] = pc[q]
    BY <1>1, <1>3, <2>1 DEF Goto
  <2>3. lock' = w /\ Alone(w)'
    BY <1>2, <2>1, <2>2 DEF CleanOp, Alone
  <2>4. pc'[w] \notin {"idle", "lock", "modify", "serialize"}
    BY <2>2
  <2>5. ASSUME call'[w].kind \in Adding PROVE Holds(w)'
    <3> DEFINE a == call[w].arg
    <3>1. Holds(w) /\ call'[w].arg = a
      BY <1>2, <2>1, <2>5 DEF CleanOp
    <3>2. CASE Serialize(w)
      <4>1. a \in mem[NodeOf[w]].sites /\ data'[w] = mem[NodeOf[w]]
        BY <1>1, <2>1, <3>1, <3>2, OpsAssumption
        DEF Holds, Serialize, Goto, Home
      <4> QED
        BY <1>1, <2>2, <3>1, <3>2, <4>1 DEF Holds, Serialize, Goto
    <3>3. CASE PutSecrets(w) \/ PutParams(w) \/ Mark(w)
      BY <1>1, <2>2, <3>1, <3>3 DEF Holds, PutSecrets, PutParams, Mark, Goto
    <3>4. CASE PutDifferent(w)
      <4>1. a \in data[w].sites /\ to = "record"
        BY <1>1, <2>1, <2>2, <3>1, <3>4 DEF Holds, PutDifferent, Goto
      <4>2. a \in EverStored'
        BY <2>1, <3>4, <4>1, PutStores DEF PutDifferent
      <4> QED
        BY <2>2, <3>1, <4>1, <4>2 DEF Holds
    <3>5. CASE PutSame(w)
      <4>1. a \in data[w].sites /\ to = "release"
        BY <1>1, <2>1, <2>2, <3>1, <3>5 DEF Holds, PutSame, Goto
      <4>2. hist # <<>> /\ Stored = data[w].sites
        BY <3>5 DEF PutSame, Differs
      <4>3. a \in EverStored'
        BY <4>1, <4>2, StoredEver
      <4> QED
        BY <2>2, <3>1, <4>1, <4>3 DEF Holds
    <3>6. CASE Record(w)
      <4>1. a \in EverStored /\ to = "release"
        BY <1>1, <2>1, <2>2, <3>1, <3>6 DEF Holds, Record, Goto
      <4> QED
        BY <2>2, <3>1, <4>1 DEF Holds
    <3>7. CASE WriteFails(w)
      <4>1. ok'[w] = FALSE /\ to = "release"
        BY <1>1, <2>1, <2>2, <3>7 DEF WriteFails, Goto
      <4> QED
        BY <2>2, <4>1 DEF Holds
    <3> QED
      BY <2>1, <3>2, <3>3, <3>4, <3>5, <3>6, <3>7 DEF Write
  <2> QED
    BY <2>3, <2>4, <2>5 DEF CleanOp
<1> QED
  BY <1>2, <1>4 DEF CleanInv, CleanAckIsStored

LEMMA OperationKeepsClean ==
  ASSUME Types, CleanInv, StartInv, NEW v \in Ops, Operation(v),
         EverStored \subseteq EverStored'
  PROVE  CleanInv'
<1> USE DEF etcdVars, watchVars, procVars, ghostVars, Fault, FaultCounted
<1>1. /\ pc \in [Procs -> Places] /\ ok \in [Procs -> BOOLEAN]
      /\ v \in Procs /\ v \notin Nodes /\ NodeOf[v] \in Nodes /\ v # Nobody
      /\ call \in [Procs -> Calls] /\ data \in [Procs -> States]
  BY OpsAssumption DEF Types, ProcTypes, Procs
<1>2. ASSUME UNCHANGED <<lock, mem, clean, vouched, watchVars, hist, auxRev>>,
             pc[v] \in {"idle", "lock"}, pc' = pc \/ pc'[v] \in {"idle", "lock"},
             \A p \in Procs \ {v} : /\ pc'[p] = pc[p] /\ call'[p] = call[p]
                                    /\ data'[p] = data[p] /\ ok'[p] = ok[p]
      PROVE  CleanInv'
  <2>1. ASSUME NEW w \in clean PROVE CleanOp(w)'
    <3>1. w \in Procs \ {v} /\ CleanOp(w) /\ NodeOf[w] \in Procs \ {v}
      BY <1>1, <1>2, OpsAssumption DEF CleanInv, CleanOp, Procs
    <3>2. Alone(w)' /\ lock' = w
      BY <1>2, <3>1 DEF CleanOp, Alone
    <3>3. CaughtUp(NodeOf[w]) => CaughtUp(NodeOf[w])' /\ mem' = mem
      BY <1>2, <3>1 DEF CaughtUp, HasKeys
    <3> QED
      BY <1>2, <3>1, <3>2, <3>3, CleanFrame
  <2> QED
    BY <1>2, <2>1 DEF CleanInv, CleanAckIsStored
<1>3. CASE Call(v)
  BY <1>1, <1>2, <1>3 DEF Call, Goto
<1>4. CASE Unhealthy(v)
  BY <1>1, <1>2, <1>4 DEF Unhealthy
<1>5. CASE AcquireFails(v)
  BY <1>1, <1>2, <1>5 DEF AcquireFails, Goto
<1>6. CASE AcquireLock(v)
  <2>1. clean = {}
    BY <1>6, OpsAssumption DEF AcquireLock, CleanInv, CleanOp
  <2>2. /\ lock' = v /\ pc'[v] = "modify" /\ \A p \in Procs \ {v} : pc'[p] = pc[p]
        /\ UNCHANGED <<vouched, hist, auxRev, watchVars>>
    BY <1>1, <1>6 DEF AcquireLock, Goto
  <2>3. clean' \subseteq {v} /\ (v \in clean' => CaughtUp(NodeOf[v]) /\ Alone(v))
    BY <1>6, <2>1 DEF AcquireLock
  <2>4. ASSUME v \in clean' PROVE CleanOp(v)'
    <3>1. Alone(v)'
      BY <2>2, <2>3, <2>4 DEF Alone
    <3>2. CaughtUp(NodeOf[v])'
      BY <1>1, <2>2, <2>3, <2>4 DEF CaughtUp, HasKeys, Procs
    <3> QED
      BY <2>2, <3>1, <3>2 DEF CleanOp, Holds
  <2> QED
    BY <2>2, <2>3, <2>4 DEF CleanInv, CleanAckIsStored
<1>7. CASE Modify(v)
  <2>1. /\ pc[v] = "modify" /\ pc'[v] \in {"serialize", "release"}
        /\ \A p \in Procs \ {v} : pc'[p] = pc[p]
        /\ UNCHANGED <<clean, lock, vouched, call, watchVars, hist, auxRev>>
    BY <1>1, <1>7 DEF Modify, Goto
  <2>2. ASSUME NEW w \in clean PROVE CleanOp(w)'
    <3>1. w = v /\ CleanOp(w)
      BY <1>1, <2>1, OthersWait DEF CleanInv
    <3>2. Alone(v)' /\ lock' = v
      BY <2>1, <3>1 DEF CleanOp, Alone
    <3>3. CaughtUp(NodeOf[v])'
      BY <1>1, <2>1, <3>1 DEF CleanOp, CaughtUp, HasKeys, Procs
    <3>4. ASSUME call[v].kind \in Adding
          PROVE  \/ pc'[v] = "release" /\ ~ok'[v]
                 \/ /\ pc'[v] = "serialize"
                    /\ call[v].arg \in mem'[NodeOf[v]].sites
      <4>1. mem[NodeOf[v]] \in [sites : SUBSET Sites, secrets : SUBSET Secrets]
        BY <1>1 DEF Types, NodeTypes, States
      <4>2. mem \in [Nodes -> [sites : SUBSET Sites, secrets : SUBSET Secrets]]
        BY DEF Types, NodeTypes, States
      <4> QED
        BY <1>1, <1>7, <3>4, <4>1, <4>2 DEF Modify, Goto, Adding
    <3> QED
      BY <2>1, <3>1, <3>2, <3>3, <3>4 DEF CleanOp, Holds
  <2> QED
    BY <2>1, <2>2 DEF CleanInv, CleanAckIsStored
<1>8. CASE Return(v)
  <2>1. /\ pc[v] = "release" /\ clean' = clean \ {v}
        /\ vouched' = vouched \/ /\ v \in clean /\ ok[v]
                                 /\ call[v].kind \in Adding
                                 /\ vouched' = vouched \cup {call[v].arg}
    BY <1>8 DEF Return, Goto, Adding
  <2>2. clean' = {}
    BY <1>1, <2>1, OthersWait
  <2>3. vouched' \subseteq EverStored
    BY <2>1 DEF CleanInv, CleanOp, Holds, CleanAckIsStored
  <2> QED
    BY <2>2, <2>3 DEF CleanInv, CleanAckIsStored
<1> QED
  BY <1>3, <1>4, <1>5, <1>6, <1>7, <1>8 DEF Operation

LEMMA StartKeepsClean ==
  ASSUME Types, CleanInv, StartInv, NEW n \in Nodes, Start(n),
         EverStored \subseteq EverStored'
  PROVE  CleanInv'
<1> USE DEF etcdVars, watchVars, procVars, ghostVars
<1>1. /\ n \in Procs /\ n \notin Ops /\ Ops \subseteq Procs /\ Nodes \subseteq Procs
      /\ pc \in [Procs -> Places] /\ ok \in [Procs -> BOOLEAN]
      /\ data \in [Procs -> States] /\ mem \in [Nodes -> States]
  BY OpsAssumption DEF Procs, Types, ProcTypes, NodeTypes
<1>2. /\ UNCHANGED <<lock, call, clean, vouched, hist, auxRev, event, reload>>
      /\ \A p \in Procs \ {n} : /\ pc'[p] = pc[p] /\ data'[p] = data[p]
                                /\ ok'[p] = ok[p]
  BY <1>1
  DEF Start, Boot, WatchStarts, ReadExisting, LoadState, CreateState, Booted, Goto
<1>3. ASSUME NEW w \in clean PROVE CleanOp(w)'
  <2> DEFINE m == NodeOf[w]
  <2>1. w \in Ops /\ w # n /\ CleanOp(w) /\ m \in Nodes
    BY <1>1, OpsAssumption DEF CleanInv
  <2>2. pc[m] = "idle" /\ hist # <<>>
    BY <2>1 DEF CleanOp, StartInv
  <2>3. pc[n] \in {"down", "read", "load", "idle"}
    BY <1>1, <2>1, OthersWait DEF Types, ProcTypes
  <2>4. pc'[n] \in {"down", "read", "load", "idle"}
    BY <1>1, <2>2, <2>3
    DEF Start, Boot, WatchStarts, ReadExisting, LoadState, CreateState, Booted,
        Goto
  <2>5. Alone(w)' /\ lock' = w
    BY <1>1, <1>2, <2>1, <2>4 DEF CleanOp, Alone
  <2>6. CaughtUp(m) => CaughtUp(m)' /\ mem'[m] = mem[m]
    <3>1. CASE WatchStarts(n)
      BY <1>1, <1>2, <2>1, <3>1
      DEF WatchStarts, CaughtUp, HasKeys, Types, NodeTypes
    <3>2. CASE Boot(n) \/ ReadExisting(n) \/ LoadState(n) \/ CreateState(n)
               \/ Booted(n)
      <4>1. n # m /\ UNCHANGED <<watching, seen, auxSeen>>
        BY <2>2, <3>2
        DEF Boot, ReadExisting, LoadState, CreateState, Booted, Goto
      <4>2. mem'[m] = mem[m]
        BY <1>1, <2>1, <3>2, <4>1
        DEF Boot, ReadExisting, LoadState, CreateState, Booted, InstallState
      <4> QED
        BY <1>1, <1>2, <2>1, <4>1, <4>2 DEF CaughtUp, HasKeys
    <3> QED
      BY <3>1, <3>2 DEF Start
  <2> QED
    BY <1>1, <1>2, <2>1, <2>5, <2>6, CleanFrame
<1> QED
  BY <1>2, <1>3 DEF CleanInv, CleanAckIsStored

(* A watcher that has caught up has nothing to do.                         *)
LEMMA CaughtUpWatch ==
  ASSUME Types, RevInv, NEW n \in Nodes, NEW m \in Nodes, Watch(n), CaughtUp(m)
  PROVE  CaughtUp(m)' /\ mem'[m] = mem[m]
<1> USE DEF etcdVars, watchVars, procVars, ghostVars, Fault, FaultCounted
<1>1. /\ UNCHANGED <<hist, auxRev, pc, watching>>
      /\ mem \in [Nodes -> States] /\ event \in [Nodes -> SUBSET SUBSET Sites]
      /\ reload \in [Nodes -> [Watchers -> SUBSET SUBSET Sites]]
      /\ seen \in [Nodes -> Nat] /\ auxSeen \in [Nodes -> [Watchers -> Nat]]
      /\ auxRev \in [Watchers -> Nat] /\ Len(hist) \in Nat
  <2>1. UNCHANGED <<hist, auxRev, pc, watching>>
    BY DEF Watch, Receive, ReceiveEarly, Take, Install, InstallFails, Reload,
           ReloadGet, ReloadInstall, ReloadFails
  <2> QED
    BY <2>1 DEF Types, NodeTypes, EtcdTypes
<1>2. CASE n = m
  <2>1. seen[n] + 1 .. Len(hist) = {}
    BY <1>1, <1>2 DEF CaughtUp, HasKeys
  <2>2. event[n] = {}
    BY <1>1, <1>2 DEF CaughtUp, HasKeys
  <2>3. \A x \in Watchers : reload[n][x] = {} /\ ~(auxSeen[n][x] < auxRev[x])
    BY <1>1, <1>2 DEF CaughtUp, HasKeys
  <2>4. \A x \in Watchers : ~Reload(n, x)
    BY <2>3 DEF Reload, ReloadGet, ReloadInstall, ReloadFails
  <2> QED
    BY <2>1, <2>2, <2>4
    DEF Watch, Receive, ReceiveEarly, Take, Install, InstallFails
<1>3. CASE n # m
  <2>1. /\ seen'[m] = seen[m] /\ auxSeen'[m] = auxSeen[m] /\ event'[m] = event[m]
        /\ reload'[m] = reload[m] /\ mem'[m] = mem[m]
    BY <1>1, <1>3
    DEF Watch, Receive, ReceiveEarly, Take, Install, InstallFails, Reload,
        ReloadGet, ReloadInstall, ReloadFails, InstallState
  <2> QED
    BY <1>1, <2>1 DEF CaughtUp, HasKeys
<1> QED
  BY <1>2, <1>3

LEMMA CleanNext ==
  ASSUME Types, RevInv, StartInv, CleanInv, [Next]_vars
  PROVE  CleanInv'
<1> USE DEF etcdVars, watchVars, procVars, ghostVars
<1>1. EverStored \subseteq EverStored'
  BY HistGrows
<1>2. ASSUME NEW p \in Procs, Write(p) PROVE CleanInv'
  BY <1>1, <1>2, WriteKeepsClean
<1>3. ASSUME NEW w \in Ops, Operation(w) PROVE CleanInv'
  BY <1>1, <1>3, OperationKeepsClean
<1>4. ASSUME NEW n \in Nodes, Start(n) PROVE CleanInv'
  BY <1>1, <1>4, StartKeepsClean
<1>5. ASSUME NEW n \in Nodes, Watch(n) PROVE CleanInv'
  <2>1. UNCHANGED <<lock, procVars, clean, vouched>>
    BY <1>5
    DEF Watch, Receive, ReceiveEarly, Take, Install, InstallFails, Reload, ReloadGet,
        ReloadInstall, ReloadFails, Fault, FaultCounted
  <2>2. ASSUME NEW w \in clean PROVE CleanOp(w)'
    <3>1. CleanOp(w) /\ NodeOf[w] \in Nodes
      BY OpsAssumption DEF CleanInv
    <3>2. Alone(w)' /\ lock' = w
      BY <2>1, <3>1 DEF CleanOp, Alone
    <3> QED
      BY <1>1, <1>5, <2>1, <3>1, <3>2, CaughtUpWatch, CleanFrame
  <2> QED
    BY <1>1, <2>1, <2>2 DEF CleanInv, CleanAckIsStored
<1>6. ASSUME NEW n \in Nodes, Crash(n) PROVE CleanInv'
  <2>1. /\ pc' = [p \in Procs |-> IF p = n THEN "down"
                                 ELSE IF Home(p) = n THEN "idle" ELSE pc[p]]
        /\ clean' = clean \ {p \in Procs : Home(p) = n}
        /\ mem' = [mem EXCEPT ![n] = Empty]
        /\ watching' = [watching EXCEPT ![n] = FALSE]
        /\ event' = [event EXCEPT ![n] = {}]
        /\ reload' = [reload EXCEPT ![n] = [x \in Watchers |-> {}]]
        /\ UNCHANGED <<hist, auxRev, lock, seen, auxSeen, call, data, ok, vouched>>
    BY <1>6 DEF Crash
  <2>2. ASSUME NEW w \in clean' PROVE CleanOp(w)'
    <3> DEFINE m == NodeOf[w]
    <3>1. w \in clean /\ CleanOp(w) /\ w \in Ops /\ m \in Nodes /\ m # n /\ w # n
      BY <2>1, OpsAssumption DEF CleanInv, Home, Procs
    <3>2. w \in Procs /\ m \in Procs /\ Home(w) = m /\ Home(m) = m
      BY <3>1, OpsAssumption DEF Home, Procs
    <3>3. Alone(w)' /\ lock' = w /\ pc'[w] = pc[w] /\ pc'[m] = pc[m]
      BY <2>1, <3>1, <3>2 DEF CleanOp, Alone
    <3>4. CaughtUp(m) => CaughtUp(m)' /\ mem'[m] = mem[m]
      BY <2>1, <3>1, <3>3 DEF CaughtUp, HasKeys, Types, NodeTypes
    <3> QED
      BY <1>1, <2>1, <3>1, <3>3, <3>4, CleanFrame
  <2> QED
    BY <1>1, <2>1, <2>2 DEF CleanInv, CleanAckIsStored
<1>7. CASE ExpireLock
  <2>1. clean' = {} /\ vouched' = vouched
    BY <1>7 DEF ExpireLock, CleanInv, CleanOp
  <2> QED
    BY <1>1, <2>1 DEF CleanInv, CleanAckIsStored
<1>8. CASE UNCHANGED vars
  <2>1. UNCHANGED <<clean, vouched>>
    BY <1>8 DEF vars
  <2>2. ASSUME NEW w \in clean PROVE CleanOp(w)'
    <3>1. CleanOp(w)
      BY DEF CleanInv
    <3>2. Alone(w)' /\ lock' = w
      BY <1>8, <3>1 DEF vars, CleanOp, Alone
    <3>3. CaughtUp(NodeOf[w]) => CaughtUp(NodeOf[w])' /\ mem' = mem
      BY <1>8 DEF vars, CaughtUp, HasKeys
    <3> QED
      BY <1>1, <1>8, <3>2, <3>3, CleanFrame DEF vars
  <2> QED
    BY <1>1, <2>1, <2>2 DEF CleanInv, CleanAckIsStored
<1> QED
  BY <1>2, <1>3, <1>4, <1>5, <1>6, <1>7, <1>8 DEF Next

(* AddSite, UpdateSite and ReplaceState, when they took the lock at a node *)
(* that had caught up, alone, and kept it, have stored their site when     *)
(* they return without an error: with any fault and any overlap.           *)
THEOREM CleanAckIsStoredAlways == Spec => []CleanAckIsStored
<1> DEFINE Inv == Types /\ RevInv /\ StartInv /\ CleanInv
<1>1. Init => Inv
  <2> SUFFICES ASSUME Init PROVE Inv
    OBVIOUS
  <2>1. StartInv /\ CleanInv
    BY OpsAssumption
    DEF Init, StartInv, CleanInv, CleanAckIsStored, Procs
  <2> QED
    BY <2>1, TypesInit
<1>2. Inv /\ [Next]_vars => Inv'
  BY TypesNext, StartNext, CleanNext
<1>3. Inv => CleanAckIsStored
  BY DEF CleanInv
<1> QED
  BY <1>1, <1>2, <1>3, PTL DEF Spec

-----------------------------------------------------------------------------
(* Operations one after the other *)

(* What a calm environment cannot do.                                      *)
LEMMA NoError ==
  ASSUME Types, scenario.calm
  PROVE  ~FaultCounted("error") /\ ~FaultCounted("crash") /\ ~Fault("error")
BY CalmAssumption DEF Types, Fault, FaultCounted

(* The parts of Running, when no other operation than w is under way.      *)
LEMMA RunningIntro ==
  ASSUME AllUp', NEW w \in Ops, \A v \in Ops \ {w} : pc'[v] = "idle",
         \A n \in Nodes : WatchInv(n)', pc'[w] # "idle" => OpInv(w)',
         acked' \subseteq Stored'
  PROVE  Running'
BY DEF Running

(* A node that has caught up has what is stored, unless an operation has   *)
(* changed it.                                                             *)
LEMMA CaughtUpHas ==
  ASSUME Types, NEW n \in Nodes, WatchInv(n), CaughtUp(n),
         \A w \in Ops : NodeOf[w] = n => ~Changing(w)
  PROVE  /\ mem[n].sites = Stored /\ mem[n].secrets \subseteq secretKeys
         /\ secretKeys \ mem[n].secrets \subseteq dropped
<1>1. /\ Len(hist) \in Nat /\ auxRev \in [Watchers -> Nat]
      /\ seen[n] = Len(hist)
      /\ \A x \in Watchers : auxSeen[n][x] = auxRev[x]
  BY DEF Types, EtcdTypes, CaughtUp, HasKeys
<1>2. Unseen(n) = {} /\ \A x \in Watchers : ~(auxSeen[n][x] < auxRev[x])
  BY <1>1 DEF Unseen
<1>3. mem[n].sites = Stored
  BY <1>2 DEF WatchInv, Informed, CaughtUp, HasKeys
<1>4. secretKeys \ mem[n].secrets \subseteq dropped
  BY <1>2 DEF WatchInv, Equipped, CaughtUp, HasKeys
<1> QED
  BY <1>3, <1>4 DEF WatchInv, Changing, Bringing

(* An operation is called when the cluster is at rest.                     *)
LEMMA CallRuns ==
  ASSUME Types, RevInv, NEW w \in Ops, Call(w), scenario.calm,
         acked \subseteq Stored,
         \A n \in Nodes : /\ mem[n].sites = Stored
                          /\ mem[n].secrets \subseteq secretKeys
                          /\ secretKeys \ mem[n].secrets \subseteq dropped
  PROVE  Running'
<1> USE DEF etcdVars, watchVars
<1>1. Settled
  BY DEF Call
<1>2. /\ UNCHANGED <<etcdVars, mem, watchVars, dropped, lastRev>>
      /\ pc[w] = "idle" /\ pc' = [pc EXCEPT ![w] = "lock"] /\ acked' \subseteq acked
      /\ w \in Procs /\ w \notin Nodes /\ pc \in [Procs -> Places]
      /\ call \in [Procs -> Calls] /\ Ops \subseteq Procs /\ Nodes \subseteq Procs
  BY OpsAssumption DEF Call, Goto, Procs, Types, ProcTypes
<1>3. pc'[w] = "lock" /\ \A p \in Procs \ {w} : pc'[p] = pc[p]
  BY <1>2
<1>4. AllUp' /\ \A n \in Nodes : CaughtUp(n)'
  BY <1>1, <1>2, <1>3 DEF AllUp, Settled, CaughtUp, HasKeys
<1>5. ASSUME NEW n \in Nodes PROVE WatchInv(n)'
  <2>1. Len(hist) \in Nat /\ seen[n] = Len(hist)
    BY <1>1 DEF Types, EtcdTypes, Settled, CaughtUp, HasKeys
  <2>2. Unseen(n)' = {}
    BY <1>2, <2>1 DEF Unseen
  <2>3. event'[n] = {} /\ \A x \in Watchers : reload'[n][x] = {}
    BY <1>1, <1>2 DEF Settled, CaughtUp, HasKeys
  <2> QED
    BY <1>2, <2>2, <2>3 DEF WatchInv, Informed, Equipped, Stored
<1>6. OpInv(w)'
  <2>1. /\ call'[w].kind \in {"update", "delete"}
             => acked' \cap Versions(call'[w].arg) = {}
        /\ call'[w].kind = "replace" => acked' = {}
    <3>1. PICK k, a, keys :
                      /\ call' = [call EXCEPT ![w] =
                                    [kind |-> k, arg |-> a, secrets |-> keys]]
                      /\ acked' = CASE k \in {"update", "delete"} -> acked \ Versions(a)
                                    [] k = "replace"              -> {}
                                    [] OTHER                      -> acked
      BY DEF Call
    <3>2. call'[w] = [kind |-> k, arg |-> a, secrets |-> keys]
      BY <1>2, <3>1
    <3> QED
      BY <3>1, <3>2
  <2> QED
    BY <1>3, <1>4, <2>1 DEF OpInv, Changing, Versions
<1>7. \A v \in Ops \ {w} : pc'[v] = "idle"
  BY <1>1, <1>2, <1>3 DEF Settled
<1>8. acked' \subseteq Stored'
  BY <1>2 DEF Stored
<1> QED
  BY <1>4, <1>5, <1>6, <1>7, <1>8, RunningIntro

LEMMA FreshNext ==
  ASSUME Types, RevInv, scenario.calm, Fresh, Next
  PROVE  Fresh' \/ Running'
<1> USE DEF etcdVars, watchVars, procVars, ghostVars
<1>1. /\ pc \in [Procs -> Places] /\ data \in [Procs -> States]
      /\ mem \in [Nodes -> States] /\ event \in [Nodes -> SUBSET SUBSET Sites]
      /\ call \in [Procs -> Calls] /\ \A n \in Nodes : call[n].kind = "none"
      /\ Ops \cap Nodes = {} /\ Ops \subseteq Procs /\ Nodes \subseteq Procs
      /\ \A p \in Procs : p \in Ops \/ p \in Nodes
      /\ Len(hist) \in Nat
  BY OpsAssumption DEF Types, ProcTypes, NodeTypes, EtcdTypes, Procs
<1>2. Stored = {}
  <2>1. hist # <<>> => Len(hist) \in 1..Len(hist)
    BY EmptySeq DEF Types, EtcdTypes
  <2> QED
    BY <2>1 DEF Fresh, Stored
<1>3. ASSUME NEW p \in Procs, Write(p) PROVE Fresh'
  <2>1. p \in Nodes /\ p \notin Ops /\ Home(p) = p
    BY <1>1, <1>3
    DEF Fresh, Write, Serialize, PutSecrets, PutParams, PutKeys, Mark,
        PutDifferent, PutSame, Record,
        WriteFails, Goto, Home
  <2>2. ~WriteFails(p)
    BY NoError DEF WriteFails
  <2>3. UNCHANGED <<mem, event, reload, acked>> /\ \A w \in Ops : pc'[w] = pc[w]
    BY <1>1, <1>3, <2>1, <2>2
    DEF Write, Serialize, PutSecrets, PutParams, PutKeys, Mark, PutDifferent, PutSame, Record, Goto
  <2>4. secretKeys' = {} /\ \A x \in Watchers : auxRev'[x] = 0
    <3>1. SecretsOf(p) = {} /\ ParamsOf(p) = {}
      BY <2>1 DEF Fresh, Empty, SecretsOf, ParamsOf
    <3>2. Puttable(p, {}) = {}
      BY DEF Puttable
    <3>3. UNCHANGED <<secretKeys, auxRev>>
      BY <1>3, <2>2, <3>1, <3>2
      DEF Write, Serialize, PutSecrets, PutParams, PutKeys, Mark, PutDifferent,
          PutSame, Record, PutState
    <3> QED
      BY <3>3 DEF Fresh
  <2>5. \A q \in Procs : data'[q] = Empty
    BY <1>1, <1>3, <2>1, <2>2
    DEF Fresh, Write, Serialize, PutSecrets, PutParams, PutKeys, Mark, PutDifferent, PutSame, Record
  <2>6. \A i \in 1..Len(hist') : hist'[i].sites = {}
    <3>1. CASE hist' = hist
      BY <3>1 DEF Fresh
    <3>2. CASE PutState(p)
      <4>1. /\ hist' = Append(hist, [rev |-> rev', sites |-> data[p].sites])
            /\ Len(hist') = Len(hist) + 1
        BY <3>2, PutStateTypes
      <4>2. data[p].sites = {}
        BY DEF Fresh, Empty
      <4>3. hist \in Seq([rev : Nat, sites : SUBSET Sites])
        BY DEF Types, EtcdTypes
      <4> QED
        BY <4>1, <4>2, <4>3 DEF Fresh
    <3> QED
      BY <1>3, <2>2, <3>1, <3>2
      DEF Write, Serialize, PutSecrets, PutParams, PutKeys, Mark, PutDifferent, PutSame, Record
  <2> QED
    BY <2>3, <2>4, <2>5, <2>6 DEF Fresh
<1>4. ASSUME NEW w \in Ops, Operation(w) PROVE Running'
  <2>1. Call(w)
    BY <1>4, NoError
    DEF Operation, Unhealthy, AcquireLock, AcquireFails, Modify, Return, Goto,
        Fresh
  <2> QED
    BY <1>2, <2>1, CallRuns DEF Fresh, Empty
<1>5. ASSUME NEW n \in Nodes, Start(n) PROVE Fresh'
  <2>1. UNCHANGED <<hist, secretKeys, auxRev, event, reload, acked>>
    BY <1>5
    DEF Start, Boot, WatchStarts, ReadExisting, LoadState, CreateState, Booted
  <2>2. \A w \in Ops : pc'[w] = pc[w]
    BY <1>1, <1>5
    DEF Start, Boot, WatchStarts, ReadExisting, LoadState, CreateState, Booted,
        Goto
  <2>3. \A q \in Procs : data'[q] = Empty
    <3>1. \A q \in Procs : data[q] = [sites |-> {}, secrets |-> {}]
      BY DEF Fresh, Empty
    <3>2. \/ data' = data \/ data' = [data EXCEPT ![n].sites = {}]
          \/ data' = [data EXCEPT ![n] = Empty]
      BY <1>2, <1>5
      DEF Start, Boot, WatchStarts, ReadExisting, LoadState, CreateState, Booted
    <3> QED
      <4>1. CASE data' = [data EXCEPT ![n].sites = {}]
        <5>1. data'[n] = [data[n] EXCEPT !.sites = {}]
          BY <1>1, <4>1
        <5>2. [data[n] EXCEPT !.sites = {}] = [sites |-> {}, secrets |-> {}]
          <6>1. [[sites |-> {}, secrets |-> {}] EXCEPT !.sites = {}]
                  = [sites |-> {}, secrets |-> {}]
            OBVIOUS
          <6> QED
            BY <1>1, <3>1, <6>1
        <5>3. \A q \in Procs : q # n => data'[q] = data[q]
          BY <1>1, <4>1
        <5> QED
          BY <3>1, <5>1, <5>2, <5>3 DEF Empty
      <4>2. CASE data' = data \/ data' = [data EXCEPT ![n] = Empty]
        BY <1>1, <3>1, <4>2 DEF Empty
      <4> QED
        BY <3>2, <4>1, <4>2
  <2>4. \A m \in Nodes : mem'[m] = Empty
    <3>1. data[n].sites = {} /\ secretKeys = {}
      BY <1>1 DEF Fresh, Empty
    <3>2. mem' = mem \/ mem' = [mem EXCEPT ![n] = Empty]
      BY <1>5, <3>1
      DEF Start, Boot, WatchStarts, ReadExisting, LoadState, CreateState, Booted,
          InstallState, Empty
    <3> QED
      BY <1>1, <3>2 DEF Fresh
  <2> QED
    BY <2>1, <2>2, <2>3, <2>4 DEF Fresh
<1>6. ASSUME NEW n \in Nodes, Watch(n) PROVE Fresh'
  <2>1. ~InstallFails(n)
    BY NoError DEF InstallFails
  <2>2. ASSUME NEW x \in Watchers PROVE ~Reload(n, x)
    <3>1. reload[n][x] = {} /\ ~(auxSeen[n][x] < auxRev[x])
      <4>1. auxRev[x] = 0 /\ auxSeen[n][x] \in Nat
        BY DEF Fresh, Types, NodeTypes
      <4> QED
        BY <4>1 DEF Fresh
    <3> QED
      BY <3>1 DEF Reload, ReloadGet, ReloadInstall, ReloadFails
  <2>3. CASE Receive(n) \/ ReceiveEarly(n)
    <3>1. Take(n) /\ UNCHANGED acked
      BY <2>3 DEF Receive, ReceiveEarly, Fault
    <3>2. PICK i \in seen[n] + 1 .. Len(hist) :
            event' = [event EXCEPT ![n] =
              IF hist[i].rev + 1 > lastRev[n] THEN {hist[i].sites} ELSE {}]
      BY <3>1 DEF Take
    <3>3. hist[i].sites = {}
      BY <1>1, <3>2 DEF Fresh, Types, NodeTypes
    <3> QED
      BY <1>1, <3>1, <3>2, <3>3 DEF Fresh, Take
  <2>4. CASE Install(n)
    <3>1. mem' = [mem EXCEPT ![n] = Empty]
      BY <2>4 DEF Install, InstallState, Fresh, Empty
    <3>2. /\ event' = [event EXCEPT ![n] = {}]
          /\ UNCHANGED <<pc, hist, secretKeys, auxRev, acked, reload, data>>
      BY <2>4 DEF Install
    <3> QED
      BY <1>1, <3>1, <3>2 DEF Fresh
  <2> QED
    BY <1>6, <2>1, <2>2, <2>3, <2>4 DEF Watch
<1>7. CASE ExpireLock
  BY <1>7 DEF ExpireLock, Fresh
<1>8. ASSUME NEW n \in Nodes PROVE ~Crash(n)
  BY NoError DEF Crash
<1> QED
  BY <1>3, <1>4, <1>5, <1>6, <1>7, <1>8 DEF Next

(* The steps of the operation that is under way, up to the put.            *)
LEMMA ModifyRuns ==
  ASSUME Types, Running, NEW w \in Ops, Modify(w)
  PROVE  Running'
<1> DEFINE n == NodeOf[w]  k == call[w].kind  a == call[w].arg
<1> USE DEF etcdVars, watchVars
<1>1. /\ pc \in [Procs -> Places] /\ ok \in [Procs -> BOOLEAN]
      /\ mem \in [Nodes -> [sites : SUBSET Sites, secrets : SUBSET Secrets]]
      /\ w \in Procs /\ w \notin Nodes /\ n \in Nodes
      /\ Ops \subseteq Procs /\ Nodes \subseteq Procs
  BY OpsAssumption DEF Procs, Types, ProcTypes, NodeTypes, States
<1>2. /\ pc[w] = "modify" /\ pc'[w] \in {"serialize", "release"}
      /\ \A p \in Procs \ {w} : pc'[p] = pc[p]
      /\ UNCHANGED <<etcdVars, watchVars, lastRev, call, acked>>
      /\ dropped' = dropped \cup (mem[n].secrets \ mem'[n].secrets)
  BY <1>1 DEF Modify, Goto
<1>3. /\ OpInv(w) /\ \A v \in Ops \ {w} : pc[v] = "idle"
      /\ \A m \in Nodes : CaughtUp(m) /\ WatchInv(m)
  BY <1>2 DEF Running, OpInv
<1>4. AllUp' /\ \A m \in Nodes : CaughtUp(m)'
  BY <1>1, <1>2, <1>3 DEF Running, AllUp, CaughtUp, HasKeys
<1>5. \A v \in Ops : ~Changing(v)
  BY <1>2, <1>3 DEF Changing
<1>6. \A m \in Nodes : /\ mem[m].sites = Stored
                       /\ mem[m].secrets \subseteq secretKeys
                       /\ secretKeys \ mem[m].secrets \subseteq dropped
  BY <1>3, <1>5, CaughtUpHas
<1>7. \A m \in Nodes : m # n => mem'[m] = mem[m]
  BY <1>1 DEF Modify
<1>8. Stored' = Stored
  BY <1>2 DEF Stored
<1>9. \A m \in Nodes : /\ event'[m] = {} /\ Unseen(m)' = {}
                       /\ \A x \in Watchers : reload'[m][x] = {}
  <2>1. Len(hist) \in Nat
    BY DEF Types, EtcdTypes
  <2> QED
    BY <1>2, <1>3, <2>1 DEF CaughtUp, HasKeys, Unseen
<1>10. CASE pc'[w] = "release"
  <2>1. /\ \A m \in Nodes : /\ mem'[m].sites = mem[m].sites
                           /\ mem'[m].secrets = mem[m].secrets
        /\ k \in {"update", "delete"} /\ mem'[n].secrets = mem[n].secrets
        /\ ~ok'[w]
    <3>1. k \in {"update", "delete"} /\ Versions(a) \cap mem[n].sites = {} /\ ~ok'[w]
      BY <1>1, <1>10 DEF Modify, Goto
    <3> DEFINE found == k \in {"update", "delete"} => Versions(a) \cap mem[n].sites # {}
               ss == CASE k = "add"             -> mem[n].sites \cup {a}
                       [] k = "update" /\ found -> (mem[n].sites \ Versions(a)) \cup {a}
                       [] k = "delete"          -> mem[n].sites \ Versions(a)
                       [] k = "replace"         -> {a}
                       [] OTHER                 -> mem[n].sites
               sc == CASE k = "secret"  -> mem[n].secrets \cup call[w].secrets
                       [] k = "forget"  -> mem[n].secrets \ call[w].secrets
                       [] k = "replace" -> call[w].secrets
                       [] OTHER         -> mem[n].secrets
    <3>2. mem' = [mem EXCEPT ![n].sites = ss, ![n].secrets = sc]
      BY DEF Modify
    <3>3. ss = mem[n].sites
      BY <3>1
    <3>4. sc = mem[n].secrets
      BY <3>1
    <3> HIDE DEF ss, sc
    <3>5. mem'[n].sites = mem[n].sites /\ mem'[n].secrets = mem[n].secrets
      BY <1>1, <3>2, <3>3, <3>4
    <3> QED
      BY <1>7, <3>1, <3>5
  <2>2. ASSUME NEW m \in Nodes PROVE WatchInv(m)'
    BY <1>2, <1>6, <1>8, <1>9, <2>1 DEF WatchInv, Informed, Equipped
  <2>3. OpInv(w)'
    BY <1>10, <2>1 DEF OpInv, Changing
  <2> QED
    BY <1>1, <1>2, <1>3, <1>4, <1>8, <2>2, <2>3, RunningIntro DEF Running
<1>11. CASE pc'[w] = "serialize"
  <2>1. /\ k \in Adding => a \in mem'[n].sites
        /\ k \notin SiteKinds => mem'[n].sites = mem[n].sites
        /\ mem'[n].sites \in {mem[n].sites, mem[n].sites \cup {a},
                              mem[n].sites \ Versions(a),
                              (mem[n].sites \ Versions(a)) \cup {a}, {a}}
        /\ k \notin {"update", "delete", "replace"}
             => mem[n].sites \subseteq mem'[n].sites
        /\ k \in {"update", "delete"}
             => mem[n].sites \ Versions(a) \subseteq mem'[n].sites
    <3> DEFINE found == k \in {"update", "delete"} => Versions(a) \cap mem[n].sites # {}
               ss == CASE k = "add"             -> mem[n].sites \cup {a}
                       [] k = "update" /\ found -> (mem[n].sites \ Versions(a)) \cup {a}
                       [] k = "delete"          -> mem[n].sites \ Versions(a)
                       [] k = "replace"         -> {a}
                       [] OTHER                 -> mem[n].sites
               sc == CASE k = "secret"  -> mem[n].secrets \cup call[w].secrets
                       [] k = "forget"  -> mem[n].secrets \ call[w].secrets
                       [] k = "replace" -> call[w].secrets
                       [] OTHER         -> mem[n].secrets
    <3>1. found
      BY <1>1, <1>11 DEF Modify, Goto
    <3>2. mem' = [mem EXCEPT ![n].sites = ss, ![n].secrets = sc]
      BY DEF Modify
    <3>3. /\ k = "add" => ss = mem[n].sites \cup {a}
          /\ k = "update" => ss = (mem[n].sites \ Versions(a)) \cup {a}
          /\ k = "delete" => ss = mem[n].sites \ Versions(a)
          /\ k = "replace" => ss = {a}
          /\ k \notin SiteKinds => ss = mem[n].sites
      BY <3>1 DEF SiteKinds
    <3> HIDE DEF ss, sc, found
    <3>4. mem'[n].sites = ss
      BY <1>1, <3>2
    <3> QED
      BY <3>3, <3>4 DEF Adding, SiteKinds
  <2>2. k \notin {"secret", "replace"} => mem'[n].secrets \subseteq mem[n].secrets
    BY <1>1, <1>11 DEF Modify, Goto
  <2>3. Changing(w)' /\ call'[w].kind = k /\ call'[w].arg = a
    BY <1>2, <1>11 DEF Changing
  <2>4. ASSUME NEW m \in Nodes PROVE WatchInv(m)'
    <3>1. Equipped(m)'
      BY <1>2, <1>6, <1>7 DEF Equipped
    <3>2. Informed(m)' \/ \E v \in Ops : NodeOf[v] = m /\ Changing(v)'
      BY <1>6, <1>7, <1>8, <2>3 DEF Informed
    <3>3. \/ mem'[m].secrets \subseteq secretKeys'
          \/ \E v \in Ops : NodeOf[v] = m /\ Bringing(v)'
      BY <1>2, <1>6, <1>7, <1>11, <2>2, <2>3 DEF Bringing
    <3> QED
      BY <1>9, <3>1, <3>2, <3>3 DEF WatchInv
  <2>5. acked' \subseteq mem'[n].sites
    <3>1. acked \subseteq mem[n].sites
      BY <1>1, <1>6 DEF Running
    <3>2. /\ k \in {"update", "delete"} => acked \cap Versions(a) = {}
          /\ k = "replace" => acked = {}
      BY <1>2, <1>3 DEF OpInv
    <3> QED
      BY <1>2, <2>1, <3>1, <3>2
  <2>6. OpInv(w)'
    BY <1>1, <1>4, <1>6, <1>8, <1>11, <2>1, <2>3, <2>5
    DEF OpInv, SiteKinds
  <2> QED
    BY <1>1, <1>2, <1>3, <1>4, <1>8, <2>4, <2>6, RunningIntro DEF Running
<1> QED
  BY <1>2, <1>10, <1>11

(* What the next lemmas use of the operation under way.                    *)
LEMMA UnderWay ==
  ASSUME Types, Running, NEW w \in Ops, pc[w] # "idle"
  PROVE  /\ OpInv(w) /\ \A v \in Ops \ {w} : pc[v] = "idle"
         /\ \A m \in Nodes : WatchInv(m)
         /\ \A m \in Nodes : \A v \in Ops : ~(v # w /\ Changing(v))
         /\ Home(w) = NodeOf[w] /\ NodeOf[w] \in Nodes /\ w \in Procs
         /\ w \notin Nodes /\ AllUp /\ acked \subseteq Stored
BY OpsAssumption DEF Running, Changing, Home, Procs

LEMMA SerializeRuns ==
  ASSUME Types, Running, NEW w \in Ops, Serialize(w) \/ Mark(w)
  PROVE  Running'
<1> DEFINE n == NodeOf[w]
<1> USE DEF etcdVars, watchVars, procVars, ghostVars
<1>1. /\ pc \in [Procs -> Places] /\ data \in [Procs -> States]
      /\ lastRev \in [Nodes -> Nat] /\ Nodes \subseteq Procs /\ Ops \subseteq Procs
  BY DEF Types, ProcTypes, NodeTypes, Procs
<1>2. pc[w] \in {"serialize", "mark"}
  BY DEF Serialize, Mark, Goto
<1>3. /\ OpInv(w) /\ \A v \in Ops \ {w} : pc[v] = "idle"
      /\ \A m \in Nodes : WatchInv(m)
      /\ Home(w) = n /\ n \in Nodes /\ w \in Procs /\ w \notin Nodes /\ AllUp
      /\ acked \subseteq Stored
  BY <1>2, UnderWay
<1>4. /\ \A p \in Procs \ {w} : pc'[p] = pc[p]
      /\ UNCHANGED <<etcdVars, mem, watchVars, call, ok, acked, dropped>>
      /\ \A m \in Nodes : m # n => lastRev'[m] = lastRev[m]
  BY <1>1, <1>3 DEF Serialize, Mark, Goto
<1>5. AllUp' /\ \A m \in Nodes : CaughtUp(m) => CaughtUp(m)'
  BY <1>1, <1>3, <1>4 DEF AllUp, CaughtUp, HasKeys
<1>6. \/ /\ Serialize(w) /\ pc[w] = "serialize" /\ pc'[w] = "secrets"
         /\ data'[w] = mem[n]
      \/ Mark(w) /\ pc[w] = "mark" /\ pc'[w] = "put" /\ data'[w] = data[w]
  <2>1. CASE Serialize(w)
    <3>1. pc[w] = "serialize" /\ pc'[w] = "secrets"
      BY <1>1, <1>3, <2>1 DEF Serialize, Goto
    <3>2. data' = [data EXCEPT ![w] = mem[n]]
      BY <1>3, <2>1 DEF Serialize
    <3>3. data'[w] = mem[n]
      BY <1>1, <1>3, <3>2
    <3> QED
      BY <2>1, <3>1, <3>3
  <2>2. CASE Mark(w)
    BY <1>1, <1>3, <2>2 DEF Mark, Goto
  <2> QED
    BY <2>1, <2>2
<1>7. Changing(w) /\ Changing(w)'
  BY <1>6 DEF Changing
<1>8. Stored' = Stored /\ \A m \in Nodes : Unseen(m)' = Unseen(m)
  BY <1>4 DEF Stored, Unseen
<1>9. ASSUME NEW m \in Nodes PROVE WatchInv(m)'
  <2>1. Informed(m)' \/ \E v \in Ops : NodeOf[v] = m /\ Changing(v)'
    <3>1. CASE m = n
      BY <1>7, <3>1
    <3>2. CASE m # n
      <4>1. Informed(m)
        BY <1>3, <3>2 DEF WatchInv, Changing
      <4> QED
        BY <1>4, <1>8, <3>2, <4>1 DEF Informed
    <3> QED
      BY <3>1, <3>2
  <2>2. \/ mem'[m].secrets \subseteq secretKeys'
        \/ \E v \in Ops : NodeOf[v] = m /\ Bringing(v)'
    BY <1>3, <1>4, <1>6 DEF WatchInv, Bringing
  <2>3. Equipped(m)'
    BY <1>3, <1>4 DEF WatchInv, Equipped
  <2> QED
    BY <1>3, <1>4, <1>8, <2>1, <2>2, <2>3 DEF WatchInv
<1>10. OpInv(w)'
  <2>1. ASSUME Serialize(w), pc[w] = "serialize", pc'[w] = "secrets",
               data'[w] = mem[n]
        PROVE  OpInv(w)'
    <3>1. \A m \in Nodes : CaughtUp(m)'
      BY <1>3, <1>5, <2>1 DEF OpInv
    <3>2. /\ acked \subseteq mem[n].sites
          /\ call[w].kind \in Adding => call[w].arg \in mem[n].sites
      BY <1>3, <2>1 DEF OpInv, Changing
    <3> QED
      BY <1>4, <2>1, <3>1, <3>2 DEF OpInv
  <2>2. ASSUME Mark(w), pc[w] = "mark", pc'[w] = "put", data'[w] = data[w]
        PROVE  OpInv(w)'
    <3>1. /\ acked \subseteq mem[n].sites
          /\ call[w].kind \in Adding => call[w].arg \in mem[n].sites
          /\ data[w].sites = mem[n].sites
      BY <1>3, <2>2 DEF OpInv, Changing
    <3>2. ASSUME NEW m \in Nodes
          PROVE  /\ seen'[m] = Len(hist') /\ event'[m] = {}
                 /\ data'[w].sites = Stored' \/ HasKeys(m)'
      <4>1. /\ seen[m] = Len(hist) /\ event[m] = {}
            /\ data[w].sites = Stored \/ HasKeys(m)
        BY <1>3, <2>2 DEF OpInv
      <4>2. HasKeys(m)' <=> HasKeys(m)
        BY <1>4 DEF HasKeys
      <4> QED
        BY <1>4, <1>8, <2>2, <4>1, <4>2
    <3> QED
      BY <1>4, <2>2, <3>1, <3>2 DEF OpInv
  <2> QED
    BY <1>6, <2>1, <2>2
<1> QED
  BY <1>1, <1>3, <1>4, <1>5, <1>8, <1>9, <1>10, RunningIntro

(* The put of keys by an operation, when no other site comes with them.    *)
LEMMA KeysRun ==
  ASSUME Types, RevInv, Running, NEW w \in Ops,
         NEW x \in Watchers, NEW new \in SUBSET Secrets, PutKeys(w, x, new),
         mixed' = {}, pc[w] \in {"secrets", "params"},
         pc'[w] \in {"params", "mark"}, \A p \in Procs \ {w} : pc'[p] = pc[p],
         UNCHANGED <<hist, mem, lastRev, watchVars, call, data, ok, acked, dropped>>,
         \A m \in Nodes : \/ mem[m].secrets \subseteq secretKeys'
                        \/ (m = NodeOf[w] /\ Bringing(w)'),
         pc'[w] = "params" =>
           mem[NodeOf[w]].secrets \ {DHParams} \subseteq secretKeys'
  PROVE  Running'
<1> DEFINE n == NodeOf[w]
<1> USE DEF watchVars
<1>1. /\ rev \in Nat /\ auxRev \in [Watchers -> Nat]
      /\ auxSeen \in [Nodes -> [Watchers -> Nat]] /\ auxRev[x] <= rev
      /\ \A m \in Nodes : auxSeen[m][x] <= auxRev[x]
  BY DEF Types, NodeTypes, EtcdTypes, RevInv
<1>2. /\ OpInv(w) /\ \A v \in Ops \ {w} : pc[v] = "idle"
      /\ \A m \in Nodes : WatchInv(m)
      /\ n \in Nodes /\ w \in Procs /\ w \notin Nodes /\ AllUp
      /\ acked \subseteq Stored /\ Nodes \subseteq Procs /\ Ops \subseteq Procs
  BY UnderWay DEF Procs
<1>3. AllUp'
  BY <1>2 DEF AllUp
<1>4. Stored' = Stored /\ \A m \in Nodes : Unseen(m)' = Unseen(m)
  BY DEF Stored, Unseen
<1>5. Changing(w) /\ Changing(w)' /\ data[w].sites = mem[n].sites
  BY <1>2 DEF Changing, OpInv
<1>6. secretKeys' = secretKeys \cup new
  BY DEF PutKeys
<1>7. \/ secretKeys' = secretKeys /\ auxRev' = auxRev
      \/ data[w].sites = Stored /\ \A m \in Nodes : auxSeen[m][x] < auxRev'[x]
  <2>1. CASE new = {}
    BY <1>6, <2>1 DEF PutKeys
  <2>2. CASE new # {}
    <3>1. auxRev'[x] = rev + 1 /\ data[w].sites = Stored
      BY <1>1, <2>2 DEF PutKeys
    <3>2. \A m \in Nodes : auxSeen[m][x] \in Nat /\ auxRev[x] \in Nat
      BY <1>1
    <3> QED
      BY <1>1, <3>1, <3>2
  <2> QED
    BY <2>1, <2>2
<1>8. ASSUME NEW m \in Nodes PROVE WatchInv(m)'
  <2>1. Equipped(m)'
    BY <1>2, <1>7 DEF WatchInv, Equipped
  <2>2. Informed(m)' \/ \E v \in Ops : NodeOf[v] = m /\ Changing(v)'
    <3>1. CASE m = n
      BY <1>5, <3>1
    <3>2. CASE m # n
      <4>1. Informed(m)
        BY <1>2, <3>2 DEF WatchInv, Changing
      <4> QED
        BY <1>4, <4>1 DEF Informed
    <3> QED
      BY <3>1, <3>2
  <2>3. \/ mem'[m].secrets \subseteq secretKeys'
        \/ \E v \in Ops : NodeOf[v] = m /\ Bringing(v)'
    OBVIOUS
  <2> QED
    BY <1>2, <1>4, <2>1, <2>2, <2>3 DEF WatchInv
<1>9. OpInv(w)'
  <2>1. ASSUME NEW m \in Nodes
        PROVE  /\ seen'[m] = Len(hist') /\ event'[m] = {}
               /\ data'[w].sites = Stored' \/ HasKeys(m)'
    <3>1. /\ seen[m] = Len(hist) /\ event[m] = {}
          /\ data[w].sites = Stored \/ HasKeys(m)
      BY <1>2 DEF OpInv, CaughtUp
    <3>2. auxRev' = auxRev => (HasKeys(m)' <=> HasKeys(m))
      BY DEF HasKeys
    <3> QED
      BY <1>4, <1>7, <3>1, <3>2
  <2>2. /\ acked \subseteq mem[n].sites
        /\ call[w].kind \in Adding => call[w].arg \in mem[n].sites
    BY <1>2, <1>5 DEF OpInv
  <2> QED
    BY <1>5, <2>1, <2>2 DEF OpInv
<1> QED
  BY <1>2, <1>3, <1>4, <1>8, <1>9, RunningIntro

LEMMA SecretsRun ==
  ASSUME Types, RevInv, Running, NEW w \in Ops, PutSecrets(w), mixed' = {}
  PROVE  Running'
<1> DEFINE n == NodeOf[w]
<1>1. /\ pc \in [Procs -> Places] /\ data[w] \in States
      /\ pc[w] = "secrets" /\ w \in Procs
  BY DEF Types, ProcTypes, PutSecrets, Goto, Procs
<1>2. /\ OpInv(w) /\ \A m \in Nodes : WatchInv(m)
      /\ \A v \in Ops \ {w} : pc[v] = "idle"
  BY <1>1, UnderWay
<1>3. /\ pc'[w] = "params" /\ \A p \in Procs \ {w} : pc'[p] = pc[p]
      /\ UNCHANGED <<hist, mem, lastRev, watchVars, call, data, ok, acked, dropped>>
  BY <1>1 DEF PutSecrets, Goto
<1>4. PICK new \in SUBSET Puttable(w, SecretsOf(w)) :
        /\ SecretsOf(w) \subseteq secretKeys \cup new
        /\ PutKeys(w, "secrets", new)
  BY DEF PutSecrets
<1>5. SecretsOf(w) = mem[n].secrets \ {DHParams}
  BY <1>1, <1>2, WatchedKeys DEF OpInv, SecretsOf, States
<1>6. secretKeys' = secretKeys \cup new /\ new \in SUBSET Secrets
  BY <1>1, <1>4 DEF PutKeys, Puttable, SecretsOf, States
<1>7. mem[n].secrets \ {DHParams} \subseteq secretKeys'
  BY <1>4, <1>5, <1>6
<1>8. ASSUME NEW m \in Nodes, ~(mem[m].secrets \subseteq secretKeys')
      PROVE  m = n /\ Bringing(w)'
  <2>1. PICK v \in Ops : NodeOf[v] = m /\ Bringing(v)
    BY <1>2, <1>6, <1>8 DEF WatchInv
  <2>2. v = w
    BY <1>2, <2>1 DEF Bringing
  <2> QED
    BY <1>3, <2>1, <2>2 DEF Bringing
<1>9. "secrets" \in Watchers
  BY WatchedKeys
<1> QED
  BY <1>1, <1>3, <1>4, <1>6, <1>7, <1>8, <1>9, KeysRun

LEMMA ParamsRun ==
  ASSUME Types, RevInv, Running, NEW w \in Ops, PutParams(w), mixed' = {}
  PROVE  Running'
<1> DEFINE n == NodeOf[w]
<1>1. /\ pc \in [Procs -> Places] /\ pc[w] = "params" /\ w \in Procs
  BY DEF Types, ProcTypes, PutParams, Goto, Procs
<1>2. /\ OpInv(w) /\ \A m \in Nodes : WatchInv(m)
      /\ \A v \in Ops \ {w} : pc[v] = "idle"
      /\ Home(w) = n /\ n \in Nodes /\ mem[n] \in States
  BY <1>1, UnderWay DEF Types, NodeTypes
<1>3. /\ pc'[w] = "mark" /\ \A p \in Procs \ {w} : pc'[p] = pc[p]
      /\ UNCHANGED <<hist, mem, lastRev, watchVars, call, data, ok, acked, dropped>>
  BY <1>1 DEF PutParams, Goto
<1>4. PICK new \in SUBSET Puttable(w, ParamsOf(w)) :
        /\ ParamsOf(w) \subseteq secretKeys \cup new
        /\ PutKeys(w, "dhparams", new)
  BY DEF PutParams
<1>5. ParamsOf(w) = mem[n].secrets \cap {DHParams}
  BY <1>2, WatchedKeys DEF ParamsOf, States
<1>6. secretKeys' = secretKeys \cup new /\ new \in SUBSET Secrets
  BY <1>2, <1>4, <1>5 DEF PutKeys, Puttable, States
<1>7. mem[n].secrets \subseteq secretKeys'
  <2>1. mem[n].secrets \ {DHParams} \subseteq secretKeys
    BY <1>1, <1>2 DEF OpInv
  <2> QED
    BY <1>4, <1>5, <1>6, <2>1
<1>8. ASSUME NEW m \in Nodes PROVE mem[m].secrets \subseteq secretKeys'
  <2>1. CASE m = n
    BY <1>7, <2>1
  <2>2. CASE m # n
    BY <1>2, <1>6, <2>2 DEF WatchInv, Bringing
  <2> QED
    BY <2>1, <2>2
<1>9. "dhparams" \in Watchers
  BY WatchedKeys
<1> QED
  BY <1>1, <1>3, <1>4, <1>6, <1>8, <1>9, KeysRun

LEMMA PutRuns ==
  ASSUME Types, RevInv, StartInv, Running, NEW w \in Ops, PutDifferent(w)
  PROVE  Running'
<1> DEFINE n == NodeOf[w]
<1> USE DEF watchVars, ghostVars
<1>1. /\ pc \in [Procs -> Places] /\ Nodes \subseteq Procs /\ Ops \subseteq Procs
      /\ rev \in Nat /\ Len(hist) \in Nat
      /\ lastRev \in [Nodes -> Nat] /\ \A m \in Nodes : lastRev[m] <= rev + 1
  BY DEF Types, ProcTypes, NodeTypes, EtcdTypes, Procs, RevInv
<1>2. pc[w] = "put"
  BY DEF PutDifferent, Goto
<1>3. /\ OpInv(w) /\ \A v \in Ops \ {w} : pc[v] = "idle"
      /\ \A m \in Nodes : WatchInv(m)
      /\ n \in Nodes /\ w \in Procs /\ w \notin Nodes /\ AllUp
  BY <1>2, UnderWay
<1>4. /\ pc'[w] = "record" /\ \A p \in Procs \ {w} : pc'[p] = pc[p]
      /\ UNCHANGED <<secretKeys, auxRev, mem, lastRev, watchVars, call, data, ok,
                     acked, dropped>>
  BY <1>1, <1>3 DEF PutDifferent, Goto
<1>5. AllUp'
  BY <1>1, <1>3, <1>4 DEF AllUp
<1>6. /\ hist' = Append(hist, [rev |-> rev', sites |-> data[w].sites])
      /\ Len(hist') = Len(hist) + 1 /\ rev' = rev + 1 /\ Stored' = data[w].sites
  BY <1>3, PutStateTypes, PutStores DEF PutDifferent
<1>7. /\ hist'[Len(hist')] = [rev |-> rev + 1, sites |-> data[w].sites]
  <2>1. hist \in Seq([rev : Nat, sites : SUBSET Sites])
    BY DEF Types, EtcdTypes
  <2> QED
    BY <1>6, <2>1
<1>8. Stored # data[w].sites
  <2>1. hist # <<>>
    BY <1>3 DEF AllUp, StartInv
  <2> QED
    BY <2>1 DEF PutDifferent, Differs
<1>9. \A m \in Nodes : seen[m] = Len(hist) /\ event[m] = {} /\ HasKeys(m)
  BY <1>2, <1>3, <1>8 DEF OpInv
<1>10. /\ data[w].sites = mem[n].sites /\ acked \subseteq mem[n].sites
       /\ call[w].kind \in Adding => call[w].arg \in mem[n].sites
  BY <1>2, <1>3 DEF OpInv, Changing
<1>11. ASSUME NEW m \in Nodes PROVE WatchInv(m)'
  <2>1. Unseen(m)' = {Len(hist')}
    BY <1>1, <1>4, <1>6, <1>9 DEF Unseen
  <2>2. \A i \in Unseen(m)' : hist'[i].sites = Stored' /\ hist'[i].rev + 1 > lastRev'[m]
    BY <1>1, <1>4, <1>6, <1>7, <2>1
  <2>3. Informed(m)'
    BY <1>4, <1>9, <2>1, <2>2 DEF Informed
  <2>4. Equipped(m)' /\ mem'[m].secrets \subseteq secretKeys'
    BY <1>2, <1>3, <1>4 DEF WatchInv, Equipped, Bringing
  <2> QED
    BY <1>4, <1>9, <2>2, <2>3, <2>4 DEF WatchInv, HasKeys
<1>12. OpInv(w)'
  BY <1>4, <1>6, <1>10 DEF OpInv, Changing
<1> QED
  BY <1>1, <1>3, <1>4, <1>5, <1>6, <1>10, <1>11, <1>12, RunningIntro

(* The steps that leave the state where it is.                             *)
LEMMA EndFrame ==
  ASSUME Types, Running, NEW w \in Ops,
         pc[w] \in {"lock", "put", "record", "release"}, ~Changing(w)',
         \A p \in Procs \ {w} : pc'[p] = pc[p],
         UNCHANGED <<hist, secretKeys, auxRev, mem, watchVars, dropped>>,
         \A m \in Nodes : lastRev'[m] = lastRev[m] \/ mem[m].sites = Stored,
         pc[w] = "put" => mem[NodeOf[w]].sites = Stored,
         pc'[w] # "idle" => OpInv(w)', acked' \subseteq Stored
  PROVE  Running'
<1> DEFINE n == NodeOf[w]
<1> USE DEF watchVars
<1>1. /\ \A v \in Ops \ {w} : pc[v] = "idle" /\ pc'[v] = "idle"
      /\ \A m \in Nodes : WatchInv(m)
      /\ n \in Nodes /\ w \in Procs /\ w \notin Nodes /\ AllUp
      /\ Nodes \subseteq Procs
  BY UnderWay DEF Procs
<1>2. AllUp'
  BY <1>1 DEF AllUp
<1>3. Stored' = Stored /\ \A m \in Nodes : Unseen(m)' = Unseen(m)
  BY DEF Stored, Unseen
<1>4. ASSUME NEW m \in Nodes PROVE WatchInv(m)'
  <2>1. Informed(m)
    <3>1. CASE m = n /\ pc[w] = "put"
      BY <3>1 DEF Informed
    <3>2. CASE ~(m = n /\ pc[w] = "put")
      BY <1>1, <3>2 DEF WatchInv, Changing
    <3> QED
      BY <3>1, <3>2
  <2>2. Informed(m)'
    BY <1>3, <2>1 DEF Informed
  <2>3. mem'[m].secrets \subseteq secretKeys' /\ Equipped(m)'
    BY <1>1 DEF WatchInv, Equipped, Bringing
  <2> QED
    BY <1>1, <1>3, <2>2, <2>3 DEF WatchInv
<1> QED
  BY <1>1, <1>2, <1>3, <1>4, RunningIntro

LEMMA EndRuns ==
  ASSUME Types, RevInv, Running, NEW w \in Ops,
         AcquireLock(w) \/ PutSame(w) \/ Record(w) \/ Return(w)
  PROVE  Running'
<1> DEFINE n == NodeOf[w]
<1> USE DEF etcdVars, watchVars, procVars, ghostVars
<1>1. /\ pc \in [Procs -> Places] /\ lastRev \in [Nodes -> Nat]
      /\ Nodes \subseteq Procs
  BY DEF Types, ProcTypes, NodeTypes, Procs
<1>2. pc[w] \in {"lock", "put", "record", "release"}
  BY DEF AcquireLock, PutSame, Record, Return, Goto
<1>3. /\ OpInv(w) /\ Home(w) = n /\ n \in Nodes /\ w \in Procs /\ w \notin Nodes
      /\ acked \subseteq Stored
  BY <1>2, UnderWay
<1>4. /\ \A p \in Procs \ {w} : pc'[p] = pc[p]
      /\ UNCHANGED <<hist, secretKeys, auxRev, mem, watchVars, dropped>>
  BY <1>1, <1>3 DEF AcquireLock, PutSame, Record, Return, Goto
<1>5. Stored' = Stored
  BY <1>4 DEF Stored
<1>6. CASE AcquireLock(w)
  <2>1. /\ pc[w] = "lock" /\ pc'[w] = "modify"
        /\ UNCHANGED <<lastRev, call, data, ok, acked>>
    BY <1>1, <1>3, <1>6 DEF AcquireLock, Goto
  <2>2. \A m \in Nodes : CaughtUp(m)'
    BY <1>1, <1>3, <1>4, <2>1 DEF OpInv, CaughtUp, HasKeys
  <2>3. OpInv(w)'
    BY <1>3, <2>1, <2>2 DEF OpInv, Changing, Versions
  <2> QED
    BY <1>2, <1>3, <1>4, <2>1, <2>3, EndFrame DEF Changing
<1>7. CASE PutSame(w)
  <2>1. /\ pc[w] = "put" /\ pc'[w] = "release" /\ Stored = data[w].sites
        /\ UNCHANGED <<lastRev, call, data, ok, acked>>
    BY <1>1, <1>3, <1>7 DEF PutSame, Differs, Goto
  <2>2. mem[n].sites = Stored /\ (call[w].kind \in Adding => call[w].arg \in Stored)
    BY <1>3, <2>1 DEF OpInv, Changing
  <2>3. OpInv(w)'
    BY <1>5, <2>1, <2>2 DEF OpInv, Changing
  <2> QED
    BY <1>2, <1>3, <1>4, <2>1, <2>2, <2>3, EndFrame DEF Changing
<1>8. CASE Record(w)
  <2>1. /\ pc[w] = "record" /\ pc'[w] = "release"
        /\ UNCHANGED <<call, data, ok, acked>>
        /\ \A m \in Nodes : m # n => lastRev'[m] = lastRev[m]
    BY <1>1, <1>3, <1>8 DEF Record, Goto
  <2>2. /\ mem[n].sites = Stored
        /\ ok[w] /\ call[w].kind \in Adding => call[w].arg \in Stored
    BY <1>3, <2>1 DEF OpInv
  <2>3. OpInv(w)'
    BY <1>5, <2>1, <2>2 DEF OpInv, Changing
  <2> QED
    BY <1>2, <1>3, <1>4, <2>1, <2>2, <2>3, EndFrame DEF Changing
<1>9. CASE Return(w)
  <2>1. /\ pc[w] = "release" /\ pc'[w] = "idle" /\ lastRev' = lastRev
        /\ \/ acked' = acked
           \/ /\ ok[w] /\ call[w].kind \in Adding
              /\ acked' = acked \cup {call[w].arg}
    BY <1>1, <1>3, <1>9 DEF Return, Goto, Adding
  <2>2. acked' \subseteq Stored
    BY <1>3, <2>1 DEF OpInv
  <2> QED
    BY <1>2, <1>4, <2>1, <2>2, EndFrame DEF Changing
<1> QED
  BY <1>6, <1>7, <1>8, <1>9

(* The watchers.  Until the operation puts the state, the watcher of the   *)
(* state has nothing to do; that of the secrets reads what is stored.      *)
LEMMA WatchRuns ==
  ASSUME Types, RevInv, Running, scenario.calm, NEW n \in Nodes, Watch(n)
  PROVE  Running'
<1> USE DEF etcdVars, watchVars, procVars, ghostVars, Fault, FaultCounted
<1>1. /\ UNCHANGED <<hist, rev, secretKeys, auxRev, pc, call, data, ok, lastRev,
                     acked, dropped, watching>>
      /\ ~InstallFails(n) /\ \A x \in Watchers : ~ReloadFails(n, x)
  <2>1. ~InstallFails(n) /\ \A x \in Watchers : ~ReloadFails(n, x)
    BY NoError DEF InstallFails, ReloadFails
  <2> QED
    BY <2>1
    DEF Watch, Receive, ReceiveEarly, Take, Install, Reload, ReloadGet, ReloadInstall
<1>2. /\ mem \in [Nodes -> States] /\ seen \in [Nodes -> Nat]
      /\ event \in [Nodes -> SUBSET SUBSET Sites]
      /\ auxSeen \in [Nodes -> [Watchers -> Nat]]
      /\ reload \in [Nodes -> [Watchers -> SUBSET SUBSET Sites]]
      /\ lastRev \in [Nodes -> Nat] /\ auxRev \in [Watchers -> Nat]
      /\ Len(hist) \in Nat
      /\ hist \in Seq([rev : Nat, sites : SUBSET Sites])
  BY DEF Types, NodeTypes, EtcdTypes
<1>3. /\ AllUp' /\ Stored' = Stored /\ WatchInv(n)
      /\ \A w \in Ops : Changing(w)' = Changing(w)
  BY <1>1 DEF AllUp, Stored, Changing, Running
<1>4. /\ \A m \in Nodes : m # n => /\ mem'[m] = mem[m] /\ event'[m] = event[m]
                                   /\ reload'[m] = reload[m] /\ seen'[m] = seen[m]
                                   /\ auxSeen'[m] = auxSeen[m]
  BY <1>1, <1>2
  DEF Watch, Receive, ReceiveEarly, Take, Install, Reload, ReloadGet, ReloadInstall,
      InstallState
<1>5. ASSUME NEW m \in Nodes, m # n PROVE WatchInv(m)'
  BY <1>1, <1>3, <1>4, <1>5
  DEF Running, WatchInv, Unseen, Informed, Equipped, Changing, Bringing
<1>6. ASSUME NEW w \in Ops, pc[w] \in {"lock", "modify", "serialize", "secrets"}
      PROVE  FALSE
  <2>1. CaughtUp(n)
    BY <1>6 DEF Running, OpInv
  <2>2. seen[n] + 1 .. Len(hist) = {} /\ event[n] = {}
    BY <1>2, <2>1 DEF CaughtUp
  <2>3. ASSUME NEW x \in Watchers PROVE ~Reload(n, x)
    <3>1. reload[n][x] = {} /\ ~(auxSeen[n][x] < auxRev[x])
      BY <1>2, <2>1 DEF CaughtUp, HasKeys
    <3> QED
      BY <3>1 DEF Reload, ReloadGet, ReloadInstall, ReloadFails
  <2> QED
    BY <1>1, <2>2, <2>3
    DEF Watch, Receive, ReceiveEarly, Take, Install
(* What remains to be shown of n and of the operation under way.           *)
<1>7. ASSUME WatchInv(n)',
             \A w \in Ops : pc[w] \in {"params", "mark", "put"} =>
               /\ seen'[n] = seen[n] /\ event'[n] = event[n]
               /\ data[w].sites = Stored
             ,
             mem'[n].sites = mem[n].sites \/ mem'[n].sites = Stored,
             mem'[n].secrets \in {mem[n].secrets, secretKeys}
      PROVE  Running'
  <2>1. ASSUME NEW w \in Ops, pc[w] # "idle" PROVE OpInv(w)'
    <3>1. OpInv(w) /\ pc[w] \notin {"lock", "modify", "serialize", "secrets"}
      BY <1>6, <2>1 DEF Running
    <3>2. NodeOf[w] \in Nodes /\ acked \subseteq Stored
      BY OpsAssumption DEF Running
    <3>3. CASE pc[w] \in {"params", "mark", "put"}
      <4>1. data[w].sites = Stored /\ mem[NodeOf[w]].sites = Stored
        BY <1>7, <3>1, <3>3 DEF OpInv
      <4>2. mem'[NodeOf[w]].sites = Stored
        BY <1>4, <1>7, <3>2, <4>1
      <4>3. \A m \in Nodes : seen'[m] = Len(hist') /\ event'[m] = {}
        BY <1>1, <1>4, <1>7, <3>1, <3>3 DEF OpInv
      <4>4. call[w].kind \in Adding => call[w].arg \in Stored
        BY <3>1, <3>3, <4>1 DEF OpInv, Changing
      <4>5. pc[w] = "params" =>
              mem'[NodeOf[w]].secrets \ {DHParams} \subseteq secretKeys
        BY <1>4, <1>7, <3>1, <3>2 DEF OpInv
      <4> QED
        BY <1>1, <1>3, <3>2, <3>3, <4>1, <4>2, <4>3, <4>4, <4>5
        DEF OpInv, Changing
    <3>4. CASE pc[w] \notin {"params", "mark", "put"}
      <4>1. pc[w] = "record" => mem'[NodeOf[w]].sites = Stored
        BY <1>4, <1>7, <3>1, <3>2 DEF OpInv
      <4> QED
        BY <1>1, <1>3, <3>1, <3>4, <4>1 DEF OpInv, Changing
    <3> QED
      BY <3>3, <3>4
  <2> QED
    BY <1>1, <1>3, <1>5, <1>7, <2>1 DEF Running
<1>8. CASE Receive(n) \/ ReceiveEarly(n)
  <2>1. Take(n) /\ UNCHANGED <<mem, auxSeen, reload>>
    BY <1>8 DEF Receive, ReceiveEarly, Take
  <2>2. PICK i \in Unseen(n) :
          /\ seen' = [seen EXCEPT ![n] = i]
          /\ event' = [event EXCEPT ![n] =
               IF hist[i].rev + 1 > lastRev[n] THEN {hist[i].sites} ELSE {}]
    BY <2>1 DEF Take, Unseen
  <2>3. event[n] = {} /\ hist[i].sites = Stored
    BY <1>3, <2>1, <2>2 DEF Take, WatchInv
  <2>4. ASSUME NEW w \in Ops, pc[w] \in {"params", "mark", "put"} PROVE FALSE
    <3>1. seen[n] = Len(hist)
      BY <2>4 DEF Running, OpInv
    <3> QED
      BY <1>2, <2>2, <3>1 DEF Unseen
  <2>5. Informed(n)
    BY <1>3, <1>6, <2>4 DEF WatchInv, Changing
  <2>6. Informed(n)'
    <3>1. CASE hist[i].rev + 1 > lastRev[n]
      BY <1>2, <1>3, <2>2, <2>3, <3>1 DEF Informed
    <3>2. CASE ~(hist[i].rev + 1 > lastRev[n])
      <4>1. mem[n].sites = Stored
        BY <2>2, <2>3, <2>5, <3>2 DEF Informed
      <4> QED
        BY <1>3, <2>1, <4>1 DEF Informed
    <3> QED
      BY <3>1, <3>2
  <2>7. \A k \in Unseen(n)' : k \in Unseen(n)
    BY <1>1, <1>2, <2>2 DEF Unseen
  <2>8. WatchInv(n)'
    BY <1>1, <1>2, <1>3, <2>1, <2>2, <2>3, <2>6, <2>7
    DEF WatchInv, Equipped, Changing, Bringing
  <2> QED
    BY <1>7, <2>1, <2>4, <2>8
<1>9. CASE Install(n)
  <2>1. /\ mem' = [mem EXCEPT ![n] = [sites |-> Stored, secrets |-> secretKeys]]
        /\ event' = [event EXCEPT ![n] = {}] /\ event[n] # {}
        /\ UNCHANGED <<seen, auxSeen, reload>>
    BY <1>3, <1>9 DEF Install, InstallState, WatchInv
  <2>2. mem'[n].sites = Stored /\ mem'[n].secrets = secretKeys /\ event'[n] = {}
    BY <1>2, <2>1
  <2>3. WatchInv(n)'
    BY <1>1, <1>3, <2>1, <2>2 DEF WatchInv, Informed, Equipped, Unseen
  <2>4. \A w \in Ops : pc[w] \notin {"params", "mark", "put"}
    BY <2>1 DEF Running, OpInv
  <2> QED
    BY <1>7, <2>2, <2>3, <2>4
<1>10. ASSUME NEW x \in Watchers, ReloadGet(n, x) PROVE Running'
  <2>1. /\ auxSeen[n][x] < auxRev[x] /\ UNCHANGED <<mem, seen, event>>
        /\ reload'[n][x] = {Stored}
        /\ \A y \in Watchers : y # x => /\ reload'[n][y] = reload[n][y]
                                        /\ auxSeen'[n][y] = auxSeen[n][y]
    BY <1>2, <1>10 DEF ReloadGet
  <2>2. \A y \in Watchers : reload'[n][y] \subseteq {Stored}
    BY <1>3, <2>1 DEF WatchInv
  <2>3. Equipped(n)'
    BY <2>1 DEF Equipped
  <2>4. WatchInv(n)'
    BY <1>1, <1>3, <2>1, <2>2, <2>3
    DEF WatchInv, Informed, Unseen, Changing, Bringing
  <2>5. \A w \in Ops : pc[w] \in {"params", "mark", "put"} => data[w].sites = Stored
    <3> SUFFICES ASSUME NEW w \in Ops, pc[w] \in {"params", "mark", "put"}
                 PROVE  data[w].sites = Stored
      OBVIOUS
    <3>1. OpInv(w)
      BY DEF Running
    <3>2. ~HasKeys(n)
      <4>1. auxSeen[n][x] # auxRev[x]
        BY <1>2, <2>1
      <4> QED
        BY <4>1 DEF HasKeys
    <3> QED
      BY <3>1, <3>2 DEF OpInv
  <2> QED
    BY <1>7, <2>1, <2>4, <2>5
<1>11. ASSUME NEW x \in Watchers, ReloadInstall(n, x) PROVE Running'
  <2>1. /\ mem' = [mem EXCEPT ![n] = [sites |-> Stored, secrets |-> secretKeys]]
        /\ reload' = [reload EXCEPT ![n][x] = {}] /\ reload[n][x] # {}
        /\ UNCHANGED <<seen, auxSeen, event>>
    BY <1>3, <1>11 DEF ReloadInstall, InstallState, WatchInv
  <2>2. /\ mem'[n].sites = Stored /\ mem'[n].secrets = secretKeys
        /\ \A y \in Watchers : reload'[n][y] \subseteq reload[n][y]
    BY <1>2, <2>1
  <2>3. WatchInv(n)'
    BY <1>1, <1>3, <2>1, <2>2 DEF WatchInv, Informed, Equipped, Unseen
  <2>4. \A w \in Ops : pc[w] \in {"params", "mark", "put"} => data[w].sites = Stored
    <3>1. ~HasKeys(n)
      BY <2>1 DEF HasKeys
    <3> QED
      BY <3>1 DEF Running, OpInv
  <2> QED
    BY <1>7, <2>1, <2>2, <2>3, <2>4
<1> QED
  BY <1>1, <1>8, <1>9, <1>10, <1>11 DEF Watch, Reload

LEMMA RunningNext ==
  ASSUME Types, RevInv, StartInv, scenario.calm, Running, mixed' = {}, Next
  PROVE  Running'
<1> USE DEF etcdVars, watchVars, procVars
<1>1. ASSUME NEW p \in Procs, Write(p) PROVE Running'
  <2>1. p \in Ops
    BY <1>1
    DEF Running, AllUp, Procs, Write, Serialize, PutSecrets, PutParams, PutKeys, Mark,
        PutDifferent,
        PutSame, Record, WriteFails, Goto
  <2> QED
    BY <1>1, <2>1, NoError, SerializeRuns, SecretsRun, ParamsRun, PutRuns,
       EndRuns
    DEF Write, WriteFails
<1>2. ASSUME NEW w \in Ops, Operation(w) PROVE Running'
  <2>1. CASE Call(w)
    <3>1. /\ Settled /\ acked \subseteq Stored
          /\ \A v \in Ops : ~Changing(v)
      BY <2>1 DEF Call, Settled, Changing, Running
    <3> QED
      BY <2>1, <3>1, CaughtUpHas, CallRuns DEF Running, Settled
  <2>2. CASE Modify(w) \/ AcquireLock(w) \/ Return(w)
    BY <2>2, ModifyRuns, EndRuns
  <2> QED
    BY <1>2, <2>1, <2>2, NoError DEF Operation, Unhealthy, AcquireFails
<1>3. ASSUME NEW n \in Nodes PROVE ~Start(n) /\ ~Crash(n)
  <2>1. pc[n] = "idle" /\ watching[n]
    BY DEF Running, AllUp
  <2> QED
    BY <2>1, NoError
    DEF Start, Boot, WatchStarts, ReadExisting, LoadState, CreateState, Booted,
        Goto, Crash
<1>4. ASSUME NEW n \in Nodes, Watch(n) PROVE Running'
  BY <1>4, WatchRuns
<1>5. CASE ExpireLock
  <2>1. UNCHANGED <<hist, secretKeys, auxRev, mem, lastRev, watchVars, pc, call,
                    data, ok, acked, dropped>>
    BY <1>5 DEF ExpireLock
  <2>2. Stored' = Stored /\ \A n \in Nodes : Unseen(n)' = Unseen(n)
    BY <2>1 DEF Stored, Unseen
  <2>3. ASSUME NEW n \in Nodes, WatchInv(n) PROVE WatchInv(n)'
    BY <2>1, <2>2, <2>3 DEF WatchInv, Informed, Equipped, Changing, Bringing
  <2>4. ASSUME NEW w \in Ops, OpInv(w) PROVE OpInv(w)'
    BY <2>1, <2>2, <2>4 DEF OpInv, CaughtUp, HasKeys, Changing, Versions
  <2> QED
    BY <2>1, <2>2, <2>3, <2>4 DEF Running, AllUp
<1> QED
  BY <1>1, <1>2, <1>3, <1>4, <1>5 DEF Next

LEMMA MixedGrows == ASSUME Types, RevInv, [Next]_vars PROVE mixed \subseteq mixed'
<1> USE DEF etcdVars, ghostVars, Fault, FaultCounted
<1>1. ASSUME NEW p \in Procs, Write(p) PROVE mixed \subseteq mixed'
  BY <1>1, WritePuts, PutKeysTypes
<1>2. ASSUME NEW w \in Ops, Operation(w) PROVE mixed' = mixed
  BY <1>2
  DEF Operation, Call, Unhealthy, AcquireLock, AcquireFails, Modify, Return
<1>3. ASSUME NEW n \in Nodes, Start(n) \/ Watch(n) \/ Crash(n)
      PROVE  mixed' = mixed
  BY <1>3
  DEF Start, Boot, WatchStarts, ReadExisting, LoadState, CreateState, Booted,
      Watch, Receive, ReceiveEarly, Take, Install, InstallFails, Reload,
      ReloadGet, ReloadInstall, ReloadFails, Crash
<1>4. CASE ExpireLock \/ UNCHANGED vars
  BY <1>4 DEF ExpireLock, vars
<1> QED
  BY <1>1, <1>2, <1>3, <1>4 DEF Next

LEMMA CalmNext ==
  ASSUME Types, RevInv, StartInv, CalmInv, [Next]_vars
  PROVE  CalmInv'
<1> USE DEF etcdVars, watchVars, procVars, ghostVars, Fault, FaultCounted
<1>1. scenario' = scenario
  <2>1. ASSUME NEW p \in Procs, Write(p) PROVE scenario' = scenario
    BY <2>1
    DEF Write, Serialize, PutSecrets, PutParams, PutKeys, Mark,
        PutDifferent, PutSame, Record,
        WriteFails
  <2>2. ASSUME NEW w \in Ops, Operation(w) PROVE scenario' = scenario
    BY <2>2
    DEF Operation, Call, Unhealthy, AcquireLock, AcquireFails, Modify, Return
  <2>3. ASSUME NEW n \in Nodes, Start(n) \/ Watch(n) \/ Crash(n)
        PROVE  scenario' = scenario
    BY <2>3
    DEF Start, Boot, WatchStarts, ReadExisting, LoadState, CreateState, Booted,
        Watch, Receive, ReceiveEarly, Take, Install, InstallFails, Reload, ReloadGet,
        ReloadInstall, ReloadFails, Crash
  <2>4. CASE ExpireLock \/ UNCHANGED vars
    BY <2>4 DEF ExpireLock, vars
  <2> QED
    BY <2>1, <2>2, <2>3, <2>4 DEF Next
<1>2. CASE ~(scenario.calm /\ mixed' = {})
  BY <1>1, <1>2 DEF CalmInv
<1>3. CASE scenario.calm /\ mixed' = {} /\ Next
  BY <1>3, MixedGrows, FreshNext, RunningNext DEF CalmInv
<1>4. CASE UNCHANGED vars
  <2>1. Stored' = Stored /\ \A n \in Nodes : Unseen(n)' = Unseen(n)
    BY <1>4 DEF vars, Stored, Unseen
  <2>2. ASSUME NEW n \in Nodes, WatchInv(n) PROVE WatchInv(n)'
    BY <1>4, <2>1, <2>2
    DEF vars, WatchInv, Informed, Equipped, Changing, Bringing
  <2>3. ASSUME NEW w \in Ops, OpInv(w) PROVE OpInv(w)'
    BY <1>4, <2>1, <2>3 DEF vars, OpInv, CaughtUp, HasKeys, Changing, Versions
  <2>4. Running => Running'
    BY <1>4, <2>1, <2>2, <2>3 DEF vars, Running, AllUp
  <2>5. Fresh => Fresh'
    BY <1>4 DEF vars, Fresh
  <2>6. mixed' = mixed
    BY <1>4 DEF vars
  <2> QED
    BY <1>1, <2>4, <2>5, <2>6 DEF CalmInv
<1> QED
  BY <1>2, <1>3, <1>4

(* What holds in every state of the cluster.                               *)
ClusterInv == Types /\ RevInv /\ StartInv /\ CalmInv

LEMMA ClusterInit == Init => ClusterInv
<1> SUFFICES ASSUME Init PROVE ClusterInv
  OBVIOUS
<1>1. StartInv
  BY OpsAssumption DEF Init, StartInv, Procs
<1>2. Len(hist) = 0 /\ \A n \in Nodes : n \in Procs
  BY DEF Init, Procs
<1>3. Fresh
  BY <1>2, OpsAssumption DEF Init, Fresh, Procs
<1> QED
  BY <1>1, <1>3, TypesInit DEF ClusterInv, CalmInv

LEMMA ClusterNext == ClusterInv /\ [Next]_vars => ClusterInv'
BY TypesNext, StartNext, CalmNext DEF ClusterInv

(* A cluster at rest, whose operations came one after the other, has one   *)
(* state in memory on all nodes, the one that etcd holds: whatever the     *)
(* order of the watchers' steps, with leases lost and slow writes.         *)
THEOREM ConvergedAlways == Spec => []Converged
<1>1. ClusterInv => Converged
  <2> SUFFICES ASSUME ClusterInv, scenario.calm, mixed = {}, Settled,
                      NEW n \in Nodes
               PROVE  /\ mem[n].sites = Stored
                      /\ mem[n].secrets \subseteq secretKeys
                      /\ secretKeys \ mem[n].secrets \subseteq dropped
    BY DEF Converged
  <2>1. CASE Fresh
    <3>1. hist # <<>> => Len(hist) \in 1..Len(hist)
      BY EmptySeq DEF ClusterInv, Types, EtcdTypes
    <3>2. Stored = {}
      BY <2>1, <3>1 DEF Fresh, Stored
    <3> QED
      BY <2>1, <3>2 DEF Fresh, Empty
  <2>2. CASE Running
    BY <2>2, CaughtUpHas DEF ClusterInv, Running, Settled, Changing
  <2> QED
    BY <2>1, <2>2 DEF ClusterInv, CalmInv
<1> QED
  BY <1>1, ClusterInit, ClusterNext, PTL DEF Spec

(* Then no site whose operation was acknowledged is lost by a later one.   *)
THEOREM NoLostUpdateAlways == Spec => []NoLostUpdate
<1>1. ClusterInv => NoLostUpdate
  BY DEF ClusterInv, CalmInv, Fresh, Running, NoLostUpdate
<1> QED
  BY <1>1, ClusterInit, ClusterNext, PTL DEF Spec

-----------------------------------------------------------------------------
(* The lock *)

Owners == {w \in Inside : lock = w}

(* All but these steps leave the lock, and who is past it, as they are.    *)
LEMMA OtherStepsKeepLock ==
  ASSUME Types, [Next]_vars,
         \A w \in Ops : ~AcquireLock(w) /\ ~Return(w),
         \A n \in Nodes : ~Crash(n), ~ExpireLock
  PROVE  UNCHANGED <<lock, Inside>>
<1> USE DEF etcdVars
<1>1. pc \in [Procs -> Places] /\ Ops \subseteq Procs /\ Ops \cap Nodes = {}
  BY OpsAssumption DEF Types, ProcTypes, Procs
<1>2. ASSUME NEW p \in Procs, NEW from, NEW to, Goto(p, from, to),
             p \in Nodes \/ (from \in {"idle", "lock"} <=> to \in {"idle", "lock"})
      PROVE  UNCHANGED Inside
  BY <1>1, <1>2 DEF Goto, Inside
<1>3. ASSUME NEW p \in Procs, Write(p) PROVE UNCHANGED <<lock, Inside>>
  <2>1. lock' = lock
    BY <1>3 DEF Write, Serialize, PutSecrets, PutParams, PutKeys, Mark,
                PutDifferent, PutSame, Record,
                WriteFails
  <2>2. \E from, to \in Places \ {"idle", "lock"} : Goto(p, from, to)
    BY <1>3 DEF Write, Serialize, PutSecrets, PutParams, PutKeys, Mark,
                PutDifferent, PutSame, Record,
                WriteFails, Places
  <2> QED
    BY <1>2, <2>1, <2>2
<1>4. ASSUME NEW w \in Ops, Operation(w) PROVE UNCHANGED <<lock, Inside>>
  <2>1. w \in Procs /\ ~AcquireLock(w) /\ ~Return(w)
    BY <1>1
  <2>2. CASE Call(w) \/ AcquireFails(w)
    BY <1>2, <2>1, <2>2 DEF Call, AcquireFails
  <2>3. CASE Unhealthy(w)
    BY <2>3 DEF Unhealthy, procVars, Inside
  <2>4. CASE Modify(w)
    BY <1>2, <2>1, <2>4 DEF Modify
  <2> QED
    BY <1>4, <2>1, <2>2, <2>3, <2>4 DEF Operation
<1>5. ASSUME NEW n \in Nodes, Start(n) \/ Watch(n)
      PROVE  UNCHANGED <<lock, Inside>>
  <2>1. lock' = lock
    BY <1>5
    DEF Start, Boot, WatchStarts, ReadExisting, LoadState, CreateState, Booted,
        Watch, Receive, ReceiveEarly, Take, Install, InstallFails, Reload, ReloadGet,
        ReloadInstall, ReloadFails
  <2>2. pc' = pc \/ \E from, to \in Places : Goto(n, from, to)
    BY <1>5
    DEF Start, Boot, WatchStarts, ReadExisting, LoadState, CreateState, Booted,
        Watch, Receive, ReceiveEarly, Take, Install, InstallFails, Reload, ReloadGet,
        ReloadInstall, ReloadFails, procVars, Places
  <2>3. n \in Procs
    BY DEF Procs
  <2> QED
    BY <1>2, <2>1, <2>2, <2>3 DEF Inside
<1>6. UNCHANGED vars => UNCHANGED <<lock, Inside>>
  BY DEF vars, procVars, Inside
<1> QED
  BY <1>3, <1>4, <1>5, <1>6 DEF Next

LEMMA LockStepsImplement ==
  ASSUME Types, [Next]_vars
  PROVE  [Lock!Next]_(Lock!vars)
<1> USE DEF Owners
<1>1. /\ pc \in [Procs -> Places] /\ Ops \subseteq Procs /\ Ops \cap Nodes = {}
      /\ Nobody \notin Ops
  BY OpsAssumption DEF Types, ProcTypes, Procs
<1>2. UNCHANGED <<lock, Inside>> => UNCHANGED Lock!vars
  BY DEF Lock!vars
<1>3. ASSUME NEW w \in Ops, AcquireLock(w) PROVE Lock!Next
  <2>1. Inside' = Inside \cup {w} /\ w \notin Inside
    BY <1>1, <1>3 DEF AcquireLock, Goto, Inside
  <2>2. lock = Nobody /\ lock' = w
    BY <1>3 DEF AcquireLock
  <2>3. Owners' = {w}
    BY <2>1, <2>2
  <2>4. Lock!Enter(w)
    BY <1>1, <2>1, <2>2, <2>3 DEF Lock!Enter
  <2> QED
    BY <2>4 DEF Lock!Next
<1>4. ASSUME NEW S, S # {}, S \subseteq Inside, Inside' = Inside \ S,
             lock' = lock \/ (lock \in S /\ lock' = Nobody)
      PROVE  Lock!Next
  <2>1. S \in SUBSET Ops /\ Inside \subseteq Ops
    BY <1>4 DEF Inside
  <2>2. Owners' = Owners \ S
    BY <1>1, <1>4, <2>1
  <2>3. Lock!Leave(S)
    BY <1>1, <1>4, <2>1, <2>2 DEF Lock!Leave
  <2> QED
    BY <2>1, <2>3 DEF Lock!Next
<1>5. ASSUME NEW w \in Ops, Return(w) PROVE Lock!Next
  <2>1. w \in Inside /\ Inside' = Inside \ {w}
    BY <1>1, <1>5 DEF Return, Goto, Inside
  <2>2. lock' = IF lock = w THEN Nobody ELSE lock
    BY <1>5 DEF Return
  <2> QED
    BY <1>4, <2>1, <2>2
<1>6. ASSUME NEW n \in Nodes, Crash(n)
      PROVE  Lock!Next \/ UNCHANGED <<lock, Inside>>
  <2> DEFINE mine == {p \in Procs : Home(p) = n}
             gone == Inside \cap mine
  <2>1. /\ lock' = lock
        /\ pc' = [p \in Procs |-> IF p = n THEN "down"
                                  ELSE IF p \in mine THEN "idle" ELSE pc[p]]
    BY <1>6 DEF Crash, etcdVars
  <2>2. Inside' = Inside \ gone
    BY <1>1, <2>1 DEF Inside
  <2>3. gone \subseteq Inside
    OBVIOUS
  <2> HIDE DEF gone
  <2> QED
    BY <1>4, <2>1, <2>2, <2>3
<1>7. CASE ExpireLock
  <2>1. lock # Nobody /\ lock' = Nobody /\ Inside' = Inside
    BY <1>7 DEF ExpireLock, procVars, Inside
  <2>2. Owners' = {}
    BY <1>1, <2>1 DEF Inside
  <2> QED
    BY <2>1, <2>2 DEF Lock!Next, Lock!Expire
<1> QED
  BY <1>2, <1>3, <1>5, <1>6, <1>7, OtherStepsKeepLock

(* The operations take the lock, lose it and give it back as ClusterLock   *)
(* promises, with leases that expire and nodes that crash.  EtcdLock does  *)
(* as well.                                                                *)
THEOREM LockIsClusterLock == Spec => TakesClusterLock
<1>1. Init => Lock!Init
  <2> SUFFICES ASSUME Init PROVE Lock!Init
    OBVIOUS
  <2>1. Inside = {}
    BY OpsAssumption DEF Init, Inside, Procs
  <2> QED
    BY <2>1 DEF Init, Lock!Init
<1>2. ClusterInv => Types
  BY DEF ClusterInv
<1> QED
  BY <1>1, <1>2, ClusterInit, ClusterNext, LockStepsImplement, PTL
  DEF Spec, TakesClusterLock, Lock!Spec
=============================================================================
