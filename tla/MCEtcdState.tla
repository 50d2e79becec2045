---------------------------- MODULE MCEtcdState ----------------------------
(* Instances of EtcdState for TLC: two nodes with one operation each.      *)
EXTENDS EtcdState, TLC

CONSTANTS n1, n2, w1, w2, s1, s2, s3, k1, dh

TwoNodes == {n1, n2}
TwoOps   == {w1, w2}
TwoSites == {s1, s2}
AllSites == {s1, s2, s3}
Domains  == s1 :> "a.com" @@ s2 :> "b.com" @@ s3 :> "a.com"
AllSecrets == {k1, dh}
OnePerNode == w1 :> n1 @@ w2 :> n2
AllFaults == {"error", "lease", "slow", "crash"}

(* Operations one after the other; at most the lock is lost or a write     *)
(* takes long.                                                             *)
Slow == {"lease", "slow"}
InTurn == [kinds |-> {"add", "delete", "secret"}, sites |-> TwoSites,
           secrets |-> AllSecrets,
           faults |-> Slow, calm |-> TRUE, maxOps |-> 3, maxFaults |-> 1]

(* The operations that change a site, the whole state or drop a secret.    *)
Changes == [kinds |-> Kinds, sites |-> {s1, s3}, secrets |-> {k1},
            faults |-> Slow,
            calm |-> TRUE, maxOps |-> 2, maxFaults |-> 1]

(* Two overlapping operations and one fault.                               *)
Overlap == [kinds |-> {"add", "replace"}, sites |-> {s1}, secrets |-> {},
            faults |-> AllFaults, calm |-> FALSE, maxOps |-> 2, maxFaults |-> 1]

(* A state that is replaced with parameters of its own, and one error.     *)
Reloading == [kinds |-> {"replace"}, sites |-> {s1}, secrets |-> {dh},
              faults |-> {"error"}, calm |-> FALSE, maxOps |-> 1,
              maxFaults |-> 1]

Environments == {InTurn, Changes, Overlap, Reloading}

(* Two overlapping operations and no fault.                                *)
NoFault == {[Overlap EXCEPT !.faults = {}, !.kinds = {"add"}]}
=============================================================================
