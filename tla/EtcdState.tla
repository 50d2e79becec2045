----------------------------- MODULE EtcdState -----------------------------
(***************************************************************************)
(* The state shared by the nodes of a cluster: the operations of the state *)
(* manager (src/state/state.go) over the etcd store                        *)
(* (src/state/store-etcd.go).                                              *)
(*                                                                         *)
(* Each node keeps the whole state in memory.  An operation takes the      *)
(* cluster's lock, changes the state IN MEMORY, writes it to etcd and      *)
(* releases the lock.  Three watchers replace the state in memory: one by  *)
(* the value of an event on the state's key, unless the event is not newer *)
(* than the node's last write, two, on an event of a secret or of the DH   *)
(* parameters, by what etcd holds.  A node that starts loads the state, or *)
(* creates it, without the lock.                                           *)
(*                                                                         *)
(* The sites are abstracted to a set of objects, of which those with one   *)
(* domain are versions of one site, secrets to a set of keys, of which one *)
(* is that of the DH parameters.                                           *)
(***************************************************************************)
EXTENDS Naturals, Sequences, FiniteSets

CONSTANTS
  Nodes,
  Ops,        (* goroutines that call an operation of the manager          *)
  NodeOf,     (* the node each of them runs on                             *)
  Sites,
  DomainOf,   (* the domain of each of them                                *)
  Secrets,
  DHParams,   (* the one of them that has a key and a watcher of its own   *)
  Nobody,     (* the lock is free                                          *)
  Scenarios   (* what the environment does: a set of the records below     *)

(* The operations called and on what, what may go wrong, whether an        *)
(* operation starts only when the cluster is at rest, and the bounds on    *)
(* the operations called and the faults that happen.                       *)
Kinds == {"add", "update", "delete", "replace", "secret", "forget"}

Scenario == [kinds : SUBSET Kinds,
             sites : SUBSET Sites, secrets : SUBSET Secrets,
             faults : SUBSET {"error", "lease", "slow", "crash"},
             calm : BOOLEAN, maxOps : Nat, maxFaults : Nat]

ASSUME OpsAssumption ==
  /\ NodeOf \in [Ops -> Nodes]
  /\ Nobody \notin Ops /\ Ops \cap Nodes = {}
ASSUME SitesAssumption == DOMAIN DomainOf = Sites
ASSUME ScenariosAssumption == Scenarios \subseteq Scenario
(* When operations come one after the other, at most the lock is lost or a *)
(* write takes long: no request fails and no node crashes.                 *)
ASSUME CalmAssumption ==
  \A s \in Scenarios : s.calm => s.faults \subseteq {"lease", "slow"}

Procs == Ops \cup Nodes  (* a node is also the process that starts it      *)
Home(p) == IF p \in Nodes THEN p ELSE NodeOf[p]

VARIABLES
  (* etcd *)
  hist,       (* the puts of the state's key: sequence of [rev, sites]     *)
  rev,        (* the revision of the store                                 *)
  secretKeys, (* the secrets that have a key, and the DH parameters        *)
  auxRev,     (* the revision of the last put that each watcher sees       *)
  lock,       (* the operation whose lease holds the lock                  *)
  (* each node *)
  mem,        (* s.state                                                   *)
  lastRev,    (* s.lastRevisionPut plus 1: 0 is the semaphore value        *)
  seen,       (* how much of hist the watcher of the state has received    *)
  auxSeen,    (* the last revision each watcher of keys has received       *)
  watching,   (* the watchers have been started                            *)
  event,      (* {} or {the sites the watcher of the state is installing}  *)
  old,        (* {} or {the state that was replaced during the install}    *)
  reload,     (* by watcher of keys: {} or {the sites it has read}         *)
  (* each process *)
  pc,
  call,       (* the operation under way: [kind, arg, secrets]             *)
  data,       (* what it has serialized, or read from etcd                 *)
  ok,         (* it has met no error so far                                *)
  ret,        (* the revision in the answer to its put                     *)
  (* history, and the environment *)
  scenario,
  acked,      (* sites whose operation returned nil and that nobody has    *)
              (* changed or deleted since                                  *)
  clean,      (* operations that took the lock when their node had caught  *)
              (* up and no other wrote, and have not lost it since         *)
  vouched,    (* sites whose operation was clean and returned nil          *)
  dropped,    (* secrets that were removed from the memory of a node       *)
  mixed,      (* processes that have put keys of secrets before a state    *)
              (* with other sites                                          *)
  ops, faults

etcdVars == <<hist, rev, secretKeys, auxRev, lock>>
watchVars == <<seen, auxSeen, watching, event, old, reload>>
procVars == <<pc, call, data, ok, ret>>
ghostVars == <<scenario, acked, clean, vouched, dropped, mixed, ops, faults>>
vars == <<etcdVars, mem, lastRev, watchVars, procVars, ghostVars>>

States == [sites : SUBSET Sites, secrets : SUBSET Secrets]
Empty == [sites |-> {}, secrets |-> {}]
Semaphore == 0           (* lastRevisionPut = -1                           *)
Reset == 1               (* lastRevisionPut = 0                            *)
NoCall == [kind |-> "none", arg |-> Nobody, secrets |-> {}]

(* The two watchers of keys, and the keys they watch.                      *)
Watchers == {"secrets", "dhparams"}
Watched(x) == IF x = "dhparams" THEN Secrets \cap {DHParams}
                                ELSE Secrets \ {DHParams}

Versions(a) == {b \in Sites : DomainOf[b] = DomainOf[a]}

Stored == IF hist = <<>> THEN {} ELSE hist[Len(hist)].sites
EverStored == UNION {hist[i].sites : i \in DOMAIN hist}

TypeOK ==
  /\ \A i \in DOMAIN hist : hist[i] \in [rev : 1..rev, sites : SUBSET Sites]
  /\ secretKeys \subseteq Secrets /\ auxRev \in [Watchers -> 0..rev]
  /\ lock \in Ops \cup {Nobody}
  /\ mem \in [Nodes -> States]
  /\ lastRev \in [Nodes -> 0..rev + 1]
  /\ seen \in [Nodes -> 0..Len(hist)]
  /\ \A n \in Nodes, x \in Watchers :
       /\ auxSeen[n][x] \in 0..auxRev[x]
       /\ Cardinality(reload[n][x]) <= 1 /\ reload[n][x] \subseteq SUBSET Sites
  /\ watching \in [Nodes -> BOOLEAN]
  /\ \A n \in Nodes : /\ Cardinality(event[n]) <= 1
                      /\ event[n] \subseteq SUBSET Sites
  /\ \A n \in Nodes : Cardinality(old[n]) <= 1 /\ old[n] \subseteq States
  /\ pc \in [Procs -> {"down", "read", "load", "idle", "lock", "modify",
                       "serialize", "secrets", "params", "mark", "put",
                       "record", "release"}]
  /\ data \in [Procs -> States]
  /\ ok \in [Procs -> BOOLEAN]
  /\ ret \in [Procs -> 0..rev]
  /\ acked \subseteq Sites /\ vouched \subseteq Sites
  /\ dropped \subseteq Secrets /\ mixed \subseteq Procs
  /\ clean \subseteq Ops
  /\ scenario \in Scenarios

Init ==
  /\ hist = <<>> /\ rev = 0 /\ secretKeys = {}
  /\ auxRev = [x \in Watchers |-> 0]
  /\ lock = Nobody
  /\ mem = [n \in Nodes |-> Empty]
  /\ lastRev = [n \in Nodes |-> Reset]
  /\ seen = [n \in Nodes |-> 0] /\ auxSeen = [n \in Nodes |-> auxRev]
  /\ watching = [n \in Nodes |-> FALSE]
  /\ event = [n \in Nodes |-> {}] /\ old = [n \in Nodes |-> {}]
  /\ reload = [n \in Nodes |-> [x \in Watchers |-> {}]]
  /\ pc = [p \in Procs |-> IF p \in Nodes THEN "down" ELSE "idle"]
  /\ call = [p \in Procs |-> NoCall]
  /\ data = [p \in Procs |-> Empty]
  /\ ok = [p \in Procs |-> TRUE]
  /\ ret = [p \in Procs |-> 0]
  /\ acked = {} /\ clean = {} /\ vouched = {} /\ dropped = {} /\ mixed = {}
  /\ scenario \in Scenarios
  /\ ops = 0 /\ faults = 0

-----------------------------------------------------------------------------
Goto(p, from, to) == pc[p] = from /\ pc' = [pc EXCEPT ![p] = to]

(* A fault of the given kind happens now.                                  *)
FaultCounted(kind) ==
  /\ kind \in scenario.faults
  /\ faults < scenario.maxFaults
  /\ faults' = faults + 1

Fault(kind) ==
  /\ FaultCounted(kind)
  /\ UNCHANGED <<scenario, acked, clean, vouched, dropped, mixed, ops>>

(* The node's watchers have received and installed everything.             *)
HasKeys(n) == \A x \in Watchers : auxSeen[n][x] = auxRev[x] /\ reload[n][x] = {}

CaughtUp(n) ==
  /\ pc[n] = "idle" /\ watching[n]
  /\ seen[n] = Len(hist) /\ event[n] = {}
  /\ HasKeys(n)

(* No other process is between taking the lock and its return: none has    *)
(* lost the lock and writes nevertheless, no node writes a first state.    *)
Alone(w) ==
  \A p \in Procs \ {w} : pc[p] \in {"down", "read", "load", "idle", "lock"}

Settled ==
  /\ \A n \in Nodes : CaughtUp(n)
  /\ \A w \in Ops : pc[w] = "idle"
  /\ lock = Nobody

(* Replace the state in memory by the given sites and etcd's secrets.      *)
InstallState(n, s) ==
  mem' = [mem EXCEPT ![n] = [sites |-> s, secrets |-> secretKeys]]

(* An install that is under way keeps the state it has found.              *)
Replaced(n) ==
  old' = [old EXCEPT ![n] = IF event[n] # {} /\ @ = {} THEN {mem[n]} ELSE @]

-----------------------------------------------------------------------------
(* Start of a node: Init and ReadState of the store *)

Boot(n) ==
  /\ Goto(n, "down", "read")
  /\ UNCHANGED <<etcdVars, mem, lastRev, watchVars, call, data, ok, ret,
                 ghostVars>>

(* The goroutines of the watchers are started before the state is read,    *)
(* yet nothing orders the registration of the watch with the read.         *)
WatchStarts(n) ==
  /\ pc[n] # "down" /\ ~watching[n]
  /\ watching' = [watching EXCEPT ![n] = TRUE]
  /\ seen' = [seen EXCEPT ![n] = Len(hist)]
  /\ auxSeen' = [auxSeen EXCEPT ![n] = auxRev]
  /\ UNCHANGED <<etcdVars, mem, lastRev, event, old, reload, procVars,
                 ghostVars>>

ReadExisting(n) ==
  /\ hist # <<>>
  /\ Goto(n, "read", "load")
  /\ data' = [data EXCEPT ![n].sites = Stored]
  /\ UNCHANGED <<etcdVars, mem, lastRev, watchVars, call, ok, ret, ghostVars>>

LoadState(n) ==
  /\ Goto(n, "load", "idle")
  /\ InstallState(n, data[n].sites)
  /\ data' = [data EXCEPT ![n] = Empty]
  /\ Replaced(n)
  /\ UNCHANGED <<etcdVars, lastRev, seen, auxSeen, watching, event, reload, call,
                 ok, ret, ghostVars>>

(* There is no state in etcd: an empty one is created and written.         *)
CreateState(n) ==
  /\ hist = <<>>
  /\ Goto(n, "read", "serialize")
  /\ mem' = [mem EXCEPT ![n] = Empty]
  /\ ok' = [ok EXCEPT ![n] = TRUE]
  /\ Replaced(n)
  /\ UNCHANGED <<etcdVars, lastRev, seen, auxSeen, watching, event, reload, call,
                 data, ret, ghostVars>>

-----------------------------------------------------------------------------
(* Operations of the manager, up to WriteState *)

Call(w) ==
  /\ pc[NodeOf[w]] = "idle"
  /\ scenario.calm => Settled
  /\ ops < scenario.maxOps
  /\ ops' = ops + 1
  /\ Goto(w, "idle", "lock")
  /\ \E k \in scenario.kinds, a \in scenario.sites \cup {Nobody},
        keys \in SUBSET scenario.secrets :
       /\ call' = [call EXCEPT ![w] =
                     [kind |-> k, arg |-> a, secrets |-> keys]]
       /\ IF k \in {"secret", "forget"}
          THEN a = Nobody /\ \E s \in Secrets : keys = {s}
          ELSE a \in Sites /\ (k # "replace" => keys = {})
       /\ k = "add" => Versions(a) \cap mem[NodeOf[w]].sites = {}
       /\ k = "forget" => DHParams \notin keys
       /\ acked' = CASE k \in {"update", "delete"} -> acked \ Versions(a)
                      [] k = "replace"              -> {}
                      [] OTHER                      -> acked
  /\ ok' = [ok EXCEPT ![w] = TRUE]
  /\ UNCHANGED <<etcdVars, mem, lastRev, watchVars, data, ret, scenario,
                 clean, vouched, dropped, mixed, faults>>

(* StoreHealth finds the connection down: the operation returns and        *)
(* lastRevisionPut is reset.                                               *)
Unhealthy(w) ==
  /\ pc[w] = "idle" /\ pc[NodeOf[w]] = "idle"
  /\ Fault("error")
  /\ lastRev' = [lastRev EXCEPT ![NodeOf[w]] = Reset]
  /\ UNCHANGED <<etcdVars, mem, watchVars, procVars>>

AcquireLock(w) ==
  /\ lock = Nobody
  /\ Goto(w, "lock", "modify")
  /\ lock' = w
  /\ clean' = IF CaughtUp(NodeOf[w]) /\ Alone(w) THEN clean \cup {w} ELSE clean
  /\ UNCHANGED <<hist, rev, secretKeys, auxRev, mem, lastRev, watchVars, call,
                 data, ok, ret, scenario, acked, vouched, dropped, mixed, ops,
                 faults>>

AcquireFails(w) ==
  /\ Goto(w, "lock", "idle")
  /\ Fault("error")
  /\ UNCHANGED <<etcdVars, mem, lastRev, watchVars, call, data, ok, ret>>

(* The change, on the object that is s.state now, or of that object.       *)
(* UpdateSite and DeleteSite return early when the site is not there.  The *)
(* state that replaces it has one site, and any secrets or none.           *)
Modify(w) ==
  LET n == NodeOf[w]  k == call[w].kind  a == call[w].arg
      found == k \in {"update", "delete"} => Versions(a) \cap mem[n].sites # {}
  IN
  /\ Goto(w, "modify", IF found THEN "serialize" ELSE "release")
  /\ ok' = [ok EXCEPT ![w] = found]
  /\ mem' = [mem EXCEPT
       ![n].sites   = CASE k = "add"             -> @ \cup {a}
                        [] k = "update" /\ found -> (@ \ Versions(a)) \cup {a}
                        [] k = "delete"          -> @ \ Versions(a)
                        [] k = "replace"         -> {a}
                        [] OTHER                 -> @,
       ![n].secrets = CASE k = "secret"  -> @ \cup call[w].secrets
                        [] k = "forget"  -> @ \ call[w].secrets
                        [] k = "replace" -> call[w].secrets
                        [] OTHER         -> @]
  /\ dropped' = dropped \cup (mem[n].secrets \ mem'[n].secrets)
  /\ UNCHANGED <<etcdVars, lastRev, watchVars, call, data, ret, scenario, acked,
                 clean, vouched, mixed, ops, faults>>

-----------------------------------------------------------------------------
(* WriteState *)

Serialize(p) ==
  /\ Goto(p, "serialize", "secrets")
  /\ data' = [data EXCEPT ![p] = mem[Home(p)]]
  /\ UNCHANGED <<etcdVars, mem, lastRev, watchVars, call, ok, ret, ghostVars>>

(* A key is put when its value differs from the one that is stored, none   *)
(* is deleted.  The value of a secret that the operation has brought may   *)
(* be another one, or the same.                                            *)
Brought(p) == IF call[p].kind \in {"secret", "replace"} THEN call[p].secrets
                                                        ELSE {}
Puttable(p, keys) == {k \in keys : k \notin secretKeys \/ k \in Brought(p)}

PutKeys(p, x, new) ==
  /\ secretKeys' = secretKeys \cup new
  /\ IF new = {} THEN UNCHANGED <<rev, auxRev, mixed>>
     ELSE /\ rev' = rev + 1
          /\ auxRev' = [auxRev EXCEPT ![x] = rev']
          /\ mixed' = IF data[p].sites = Stored THEN mixed ELSE mixed \cup {p}

(* The secrets are those of the state that was serialized, the parameters  *)
(* are taken from the memory after they were put.                          *)
SecretsOf(p) == data[p].secrets \cap Watched("secrets")
ParamsOf(p) == mem[Home(p)].secrets \cap Watched("dhparams")

PutSecrets(p) ==
  /\ Goto(p, "secrets", "params")
  /\ \E new \in SUBSET Puttable(p, SecretsOf(p)) :
       /\ SecretsOf(p) \subseteq secretKeys \cup new
       /\ PutKeys(p, "secrets", new)
  /\ UNCHANGED <<hist, lock, mem, lastRev, watchVars, call, data, ok, ret,
                 scenario, acked, clean, vouched, dropped, ops, faults>>

PutParams(p) ==
  /\ Goto(p, "params", "mark")
  /\ \E new \in SUBSET Puttable(p, ParamsOf(p)) :
       /\ ParamsOf(p) \subseteq secretKeys \cup new
       /\ PutKeys(p, "dhparams", new)
  /\ UNCHANGED <<hist, lock, mem, lastRev, watchVars, call, data, ok, ret,
                 scenario, acked, clean, vouched, dropped, ops, faults>>

Mark(p) ==
  /\ Goto(p, "mark", "put")
  /\ lastRev' = [lastRev EXCEPT ![Home(p)] = Semaphore]
  /\ UNCHANGED <<etcdVars, mem, watchVars, call, data, ok, ret, ghostVars>>

PutState(p) ==
  /\ rev' = rev + 1
  /\ hist' = Append(hist, [rev |-> rev', sites |-> data[p].sites])

(* Mutant: an existing value is never replaced.                              *)
Differs_Never(p) == hist = <<>>

Differs(p) == hist = <<>> \/ Stored # data[p].sites

PutDifferent(p) ==
  /\ Goto(p, "put", "record")
  /\ Differs(p)
  /\ PutState(p)
  /\ ret' = [ret EXCEPT ![p] = rev']
  /\ UNCHANGED <<secretKeys, auxRev, lock, mem, lastRev, watchVars, call, data,
                 ok, ghostVars>>

(* Nothing to put: lastRevisionPut keeps the semaphore value.              *)
PutSame(p) ==
  /\ Goto(p, "put", "release")
  /\ ~Differs(p)
  /\ UNCHANGED <<etcdVars, mem, lastRev, watchVars, call, data, ok, ret,
                 ghostVars>>

Record(p) ==
  /\ Goto(p, "record", "release")
  /\ lastRev' = [lastRev EXCEPT ![Home(p)] = ret[p] + 1]
  /\ UNCHANGED <<etcdVars, mem, watchVars, call, data, ok, ret, ghostVars>>

(* A call of etcd returns an error.  The put may have been made            *)
(* nevertheless, and those before it were; memory is not rolled back.      *)
WriteFails(p) ==
  /\ FaultCounted("error")
  /\ \/ /\ Goto(p, "secrets", "release")
        /\ \E new \in SUBSET Puttable(p, SecretsOf(p)) :
             PutKeys(p, "secrets", new)
        /\ UNCHANGED <<hist, lastRev>>
     \/ /\ Goto(p, "params", "release")
        /\ \E new \in SUBSET Puttable(p, ParamsOf(p)) :
             PutKeys(p, "dhparams", new)
        /\ UNCHANGED <<hist, lastRev>>
     \/ /\ Goto(p, "put", "release")
        /\ UNCHANGED <<hist, rev>> \/ (Differs(p) /\ PutState(p))
        /\ lastRev' = [lastRev EXCEPT ![Home(p)] = Reset]
        /\ UNCHANGED <<secretKeys, auxRev, mixed>>
  /\ ok' = [ok EXCEPT ![p] = FALSE]
  /\ UNCHANGED <<lock, mem, watchVars, call, data, ret, scenario, acked, clean,
                 vouched, dropped, ops>>

(* The deferred release of the lock and the return of the operation.       *)
Return(w) ==
  LET k == call[w].kind  a == call[w].arg
      added == k \in {"add", "update", "replace"} /\ ok[w]
  IN
  /\ w \in Ops
  /\ Goto(w, "release", "idle")
  /\ lock' = IF lock = w THEN Nobody ELSE lock
  /\ acked' = IF added THEN acked \cup {a} ELSE acked
  /\ vouched' = IF added /\ w \in clean THEN vouched \cup {a} ELSE vouched
  /\ clean' = clean \ {w}
  /\ call' = [call EXCEPT ![w] = NoCall]
  /\ data' = [data EXCEPT ![w] = Empty]
  /\ UNCHANGED <<hist, rev, secretKeys, auxRev, mem, lastRev, watchVars, ok,
                 ret, scenario, dropped, mixed, ops, faults>>

(* The end of Init: an error ends the process.                             *)
Booted(n) ==
  /\ n \in Nodes
  /\ Goto(n, "release", IF ok[n] THEN "idle" ELSE "down")
  /\ UNCHANGED <<etcdVars, mem, lastRev, watchVars, call, data, ok, ret,
                 ghostVars>>

-----------------------------------------------------------------------------
(* The watcher of the state.  Of the events that have arrived it takes the *)
(* last, and drops it unless it is newer than the node's last write.       *)

(* Mutant: an event right after the node's last write is dropped too.      *)
Take_OffByOne(n) ==
  /\ watching[n] /\ event[n] = {}
  /\ \E i \in seen[n] + 1 .. Len(hist) :
       /\ seen' = [seen EXCEPT ![n] = i]
       /\ event' = [event EXCEPT ![n] =
            IF hist[i].rev > lastRev[n] THEN {hist[i].sites} ELSE {}]
  /\ old' = [old EXCEPT ![n] = {}]
  /\ UNCHANGED <<etcdVars, mem, lastRev, auxSeen, watching, reload, procVars>>

Take(n) ==
  /\ watching[n] /\ event[n] = {}
  /\ \E i \in seen[n] + 1 .. Len(hist) :
       /\ seen' = [seen EXCEPT ![n] = i]
       /\ event' = [event EXCEPT ![n] =
            IF hist[i].rev + 1 > lastRev[n] THEN {hist[i].sites} ELSE {}]
  /\ old' = [old EXCEPT ![n] = {}]
  /\ UNCHANGED <<etcdVars, mem, lastRev, auxSeen, watching, reload, procVars>>

Writing(n) == \E p \in Procs : Home(p) = n /\ pc[p] \in {"put", "record"}

(* While the semaphore value is set the watcher waits.  A value that no    *)
(* write will replace holds it up for a second.                            *)
Receive(n) ==
  /\ lastRev[n] = Semaphore => ~Writing(n)
  /\ Take(n)
  /\ UNCHANGED ghostVars

(* The write takes longer than the second the watcher waits.               *)
ReceiveEarly(n) ==
  /\ lastRev[n] = Semaphore /\ Writing(n)
  /\ Take(n)
  /\ Fault("slow")

(* unserializeState gets the secrets and replaces the state.               *)
Install(n) ==
  /\ \E s \in event[n] : InstallState(n, s)
  /\ event' = [event EXCEPT ![n] = {}]
  /\ old' = [old EXCEPT ![n] = {}]
  /\ UNCHANGED <<etcdVars, lastRev, seen, auxSeen, watching, reload, procVars,
                 ghostVars>>

(* It fails, and the watcher puts back the state it had found.             *)
InstallFails(n) ==
  /\ event[n] # {}
  /\ Fault("error")
  /\ IF old[n] = {} THEN UNCHANGED mem
                    ELSE \E m \in old[n] : mem' = [mem EXCEPT ![n] = m]
  /\ event' = [event EXCEPT ![n] = {}]
  /\ old' = [old EXCEPT ![n] = {}]
  /\ UNCHANGED <<etcdVars, lastRev, seen, auxSeen, watching, reload, procVars>>

-----------------------------------------------------------------------------
(* The watchers of the secrets and of the parameters: each reads the whole *)
(* state with ReadState, in two steps.                                     *)

ReloadGet(n, x) ==
  /\ watching[n] /\ reload[n][x] = {}
  /\ auxSeen[n][x] < auxRev[x]
  /\ auxSeen' = [auxSeen EXCEPT ![n][x] = auxRev[x]]
  /\ reload' = [reload EXCEPT ![n][x] = {Stored}]
  /\ UNCHANGED <<etcdVars, mem, lastRev, seen, watching, event, old, procVars,
                 ghostVars>>

ReloadInstall(n, x) ==
  /\ \E s \in reload[n][x] : InstallState(n, s)
  /\ reload' = [reload EXCEPT ![n][x] = {}]
  /\ Replaced(n)
  /\ UNCHANGED <<etcdVars, lastRev, seen, auxSeen, watching, event, procVars,
                 ghostVars>>

ReloadFails(n, x) ==
  /\ reload[n][x] # {}
  /\ Fault("error")
  /\ reload' = [reload EXCEPT ![n][x] = {}]
  /\ UNCHANGED <<etcdVars, mem, lastRev, seen, auxSeen, watching, event, old,
                 procVars>>

Reload(n, x) == ReloadGet(n, x) \/ ReloadInstall(n, x) \/ ReloadFails(n, x)

-----------------------------------------------------------------------------
(* The lease of the lock expires: under its owner, or after a crash.       *)
ExpireLock ==
  /\ lock # Nobody
  /\ IF pc[lock] = "idle" THEN UNCHANGED faults ELSE FaultCounted("lease")
  /\ lock' = Nobody
  /\ clean' = clean \ {lock}
  /\ UNCHANGED <<hist, rev, secretKeys, auxRev, mem, lastRev, watchVars,
                 procVars, scenario, acked, vouched, dropped, mixed, ops>>

(* The process of a node ends, with its memory and its operations.         *)
Crash(n) ==
  LET mine == {p \in Procs : Home(p) = n} IN
  /\ pc[n] # "down"
  /\ FaultCounted("crash")
  /\ pc' = [p \in Procs |-> IF p = n THEN "down"
                            ELSE IF p \in mine THEN "idle" ELSE pc[p]]
  /\ clean' = clean \ mine
  /\ mem' = [mem EXCEPT ![n] = Empty]
  /\ lastRev' = [lastRev EXCEPT ![n] = Reset]
  /\ watching' = [watching EXCEPT ![n] = FALSE]
  /\ event' = [event EXCEPT ![n] = {}]
  /\ old' = [old EXCEPT ![n] = {}]
  /\ reload' = [reload EXCEPT ![n] = [x \in Watchers |-> {}]]
  /\ UNCHANGED <<etcdVars, seen, auxSeen, call, data, ok, ret, scenario,
                 acked, vouched, dropped, mixed, ops>>

-----------------------------------------------------------------------------
Write(p) ==
  \/ Serialize(p) \/ PutSecrets(p) \/ PutParams(p) \/ Mark(p)
  \/ PutDifferent(p) \/ PutSame(p) \/ Record(p) \/ WriteFails(p)

Operation(w) ==
  \/ Call(w) \/ Unhealthy(w) \/ AcquireLock(w) \/ AcquireFails(w)
  \/ Modify(w) \/ Return(w)

Start(n) ==
  \/ Boot(n) \/ WatchStarts(n) \/ ReadExisting(n) \/ LoadState(n)
  \/ CreateState(n) \/ Booted(n)

Watch(n) ==
  \/ Receive(n) \/ ReceiveEarly(n) \/ Install(n) \/ InstallFails(n)
  \/ \E x \in Watchers : Reload(n, x)

Next ==
  \/ \E p \in Procs : Write(p)
  \/ \E w \in Ops : Operation(w)
  \/ \E n \in Nodes : Start(n) \/ Watch(n) \/ Crash(n)
  \/ ExpireLock

Spec == Init /\ [][Next]_vars

-----------------------------------------------------------------------------
(* Properties *)

(* The lock the operations take keeps the promises of ClusterLock, which   *)
(* EtcdLock keeps too: what goes wrong here goes wrong with such a lock.   *)
Inside == {w \in Ops : pc[w] \notin {"idle", "lock"}}
Lock == INSTANCE ClusterLock WITH
          Procs <- Ops, held <- lock # Nobody, inside <- Inside,
          owners <- {w \in Inside : lock = w}
TakesClusterLock == Lock!Spec

(* A cluster at rest, whose operations came one after the other, has one   *)
(* state: every node has in memory what etcd holds.  Nothing is read again *)
(* before the next event, so a node that skipped or overwrote a newer      *)
(* state would serve the older one for good.  Two things the code does not *)
(* keep are excepted.  Secrets that were removed are in the memory of some *)
(* nodes and not of others, as their keys stay.  And from when a state was *)
(* put that brings other sites with a secret or parameters of its own, the *)
(* nodes may differ: a watcher of these keys has read the state that was   *)
(* replaced, and installs it over the new one.                             *)
Converged ==
  scenario.calm /\ mixed = {} /\ Settled
    => \A n \in Nodes :
         /\ mem[n].sites = Stored
         /\ mem[n].secrets \subseteq secretKeys
         /\ secretKeys \ mem[n].secrets \subseteq dropped

(* Then a site whose creation or change was acknowledged, and that nobody  *)
(* has changed or deleted since, stays in the cluster's state.             *)
NoLostUpdate == scenario.calm /\ mixed = {} => acked \subseteq Stored

(* "AddSite adds a site to the store" (src/state/state.go:182): when it    *)
(* returns without an error, the site has been in the store.               *)
AckedIsStored == acked \subseteq EverStored

(* This much holds with any fault and any overlap of operations: AddSite,  *)
(* UpdateSite or ReplaceState, when it took the lock when its node had     *)
(* caught up and no process that had lost the lock was still writing, and  *)
(* when it kept the lock, has stored its site when it returns no error.    *)
CleanAckIsStored == vouched \subseteq EverStored
=============================================================================
