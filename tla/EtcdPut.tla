------------------------------ MODULE EtcdPut ------------------------------
(***************************************************************************)
(* setIfDifferent of src/state/store-etcd.go: a key of etcd is written     *)
(* with two transactions, the first of which writes it when it does not    *)
(* exist and the second one when its value differs.                        *)
(*                                                                         *)
(* The function is used for keys that are never deleted (the state, the    *)
(* secrets, the DH parameters) and for the node's own key, which is        *)
(* attached to a lease and deleted by etcd when the lease expires.         *)
(***************************************************************************)
EXTENDS Naturals

CONSTANTS
  Writers,      (* concurrent calls, of any node                           *)
  Values,
  NoValue,      (* the key does not exist                                  *)
  Leased,       (* is the key attached to a lease?                         *)
  MaxRevision   (* bounds the writes                                       *)

ASSUME ValuesAssumption == NoValue \notin Values /\ Leased \in BOOLEAN
ASSUME RevisionAssumption == MaxRevision \in Nat

VARIABLES
  kv,         (* etcd: the value of the key                                *)
  revision,   (* etcd: how many times the key was changed                  *)
  pc,         (* what each call does next                                  *)
  value,      (* the value each call writes                                *)
  seen,       (* calls whose value the key had since they began            *)
  exposed,    (* calls during which the lease of the key has ended         *)
  returned    (* the revision in the answer, when it has Succeeded; else 0 *)

vars == <<kv, revision, pc, value, seen, exposed, returned>>

Contents == Values \cup {NoValue}

TypeOK ==
  /\ kv \in Contents
  /\ revision \in Nat
  /\ pc \in [Writers -> {"idle", "create", "replace", "ok", "error"}]
  /\ value \in [Writers -> Contents]
  /\ seen \subseteq Writers
  /\ exposed \subseteq Writers
  /\ returned \in [Writers -> Nat]

Init ==
  /\ kv = NoValue
  /\ revision = 0
  /\ pc = [w \in Writers |-> "idle"]
  /\ value = [w \in Writers |-> NoValue]
  /\ seen = {}
  /\ exposed = {}
  /\ returned = [w \in Writers |-> 0]

Goto(w, from, to) == pc[w] = from /\ pc' = [pc EXCEPT ![w] = to]

UnderWay == {w \in Writers : pc[w] \in {"create", "replace"}}

(* etcd changes the key to v; every call that is under way sees it.        *)
SetKey(v) ==
  /\ revision < MaxRevision
  /\ revision' = revision + 1
  /\ kv' = v
  /\ seen' = seen \cup {w \in UnderWay : value[w] = v}

KeyUnchanged == UNCHANGED <<kv, revision, seen>>

-----------------------------------------------------------------------------
Call(w, v) ==
  /\ Goto(w, "idle", "create")
  /\ value' = [value EXCEPT ![w] = v]
  /\ seen' = IF kv = v THEN seen \cup {w} ELSE seen \ {w}
  /\ exposed' = exposed \ {w}
  /\ returned' = [returned EXCEPT ![w] = 0]
  /\ UNCHANGED <<kv, revision>>

(* First transaction, when the revision of the key is 0: it is put.        *)
Create(w) ==
  /\ kv = NoValue
  /\ Goto(w, "create", "ok")
  /\ SetKey(value[w])
  /\ returned' = [returned EXCEPT ![w] = revision']
  /\ UNCHANGED <<value, exposed>>

(* Mutant: the second transaction is left out.                             *)
Exists_Done(w) ==
  /\ kv # NoValue
  /\ Goto(w, "create", "ok")
  /\ KeyUnchanged
  /\ UNCHANGED <<value, exposed, returned>>

(* First transaction, when the key exists.                                 *)
Exists(w) ==
  /\ kv # NoValue
  /\ Goto(w, "create", "replace")
  /\ KeyUnchanged
  /\ UNCHANGED <<value, exposed, returned>>

(* Second transaction, when the key has another value: it is put.          *)
Replace(w) ==
  /\ kv \notin {NoValue, value[w]}
  /\ Goto(w, "replace", "ok")
  /\ SetKey(value[w])
  /\ returned' = [returned EXCEPT ![w] = revision']
  /\ UNCHANGED <<value, exposed>>

(* Mutant: the answer's revision is used although it has not Succeeded.    *)
Keep_Revision(w) ==
  /\ kv \in {NoValue, value[w]}
  /\ Goto(w, "replace", "ok")
  /\ returned' = [returned EXCEPT ![w] = revision]
  /\ KeyUnchanged
  /\ UNCHANGED <<value, exposed>>

(* Second transaction, when the comparison fails: the value is the same,   *)
(* or the key does not exist (the bug of etcd the comment quotes).  The    *)
(* answer is returned without an error.                                    *)
Keep(w) ==
  /\ kv \in {NoValue, value[w]}
  /\ Goto(w, "replace", "ok")
  /\ KeyUnchanged
  /\ UNCHANGED <<value, exposed, returned>>

(* The answer to either transaction is an error; its put may have happened *)
Fail(w) ==
  /\ pc[w] \in {"create", "replace"}
  /\ pc' = [pc EXCEPT ![w] = "error"]
  /\ \/ KeyUnchanged
     \/ /\ IF pc[w] = "create" THEN kv = NoValue
                               ELSE kv \notin {NoValue, value[w]}
        /\ SetKey(value[w])
  /\ UNCHANGED <<value, exposed, returned>>

(* The caller goes on; it may keep the revision.                           *)
Return(w) ==
  /\ pc[w] \in {"ok", "error"}
  /\ pc' = [pc EXCEPT ![w] = "idle"]
  /\ value' = [value EXCEPT ![w] = NoValue]
  /\ seen' = seen \ {w} /\ exposed' = exposed \ {w}
  /\ UNCHANGED <<kv, revision, returned>>

(* The lease expires and etcd deletes the key.                             *)
Expire ==
  /\ Leased
  /\ kv # NoValue
  /\ SetKey(NoValue)
  /\ exposed' = exposed \cup UnderWay
  /\ UNCHANGED <<pc, value, returned>>

Next ==
  \/ \E w \in Writers :
       \/ \E v \in Values : Call(w, v)
       \/ Create(w) \/ Exists(w) \/ Replace(w) \/ Keep(w) \/ Fail(w)
       \/ Return(w)
  \/ Expire

Spec == Init /\ [][Next]_vars

-----------------------------------------------------------------------------
(* Properties *)

(* A call that returns without an error has had its value in the key at    *)
(* some moment between its start and its return, also when calls with      *)
(* other values run between its two transactions, unless the key's lease   *)
(* ended meanwhile.  The comment on the function: "Because the keys we're  *)
(* using this function against are never deleted, this should be safe";    *)
(* the key of a node, which is leased, does not have the stronger promise. *)
OkMeansStored ==
  \A w \in Writers : pc[w] = "ok" => w \in seen \/ w \in exposed

(* An answer with Succeeded carries the revision at which this call, and   *)
(* no other one, changed the key: WriteState takes it for lastRevisionPut. *)
RevisionIsOwn ==
  \A w, x \in Writers :
    returned[w] # 0 /\ returned[w] = returned[x] => w = x
=============================================================================
