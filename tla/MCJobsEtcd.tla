----------------------------- MODULE MCJobsEtcd -----------------------------
(* Instances of JobsEtcd for TLC: two nodes, two clients.                  *)
EXTENDS JobsEtcd, TLC

CONSTANTS n1, n2, c1, c2, j1

TwoNodes   == {n1, n2}
TwoClients == {c1, c2}
OneJob     == {j1}
JobOfBoth  == [c \in TwoClients |-> j1]

(* The leader is lost once, by its lease or by a crash.                    *)
LostLeader == [nodes |-> TwoNodes, clients |-> {c1}, prompt |-> TRUE,
               faults |-> {"lease", "crash"}, maxFaults |-> 1]

(* Two clients of one leader add the same job; processing it may fail.     *)
SameJob == [nodes |-> {n1}, clients |-> TwoClients, prompt |-> TRUE,
            faults |-> {"job"}, maxFaults |-> 1]

(* Watches are registered late and one thing goes wrong.                   *)
Late == [nodes |-> TwoNodes, clients |-> {c1}, prompt |-> FALSE,
         faults |-> {"error", "job", "crash"}, maxFaults |-> 1]

Environments == {LostLeader, SameJob, Late}

(* Nothing goes wrong, but the watches are registered late.                *)
NoFault == {[Late EXCEPT !.faults = {}]}
=====
