---------------------------- MODULE MCNodeHealth ----------------------------
(* The three goroutines of a node.                                         *)
EXTENDS NodeHealth

CONSTANTS runner, worker, handler

ASSUME NodeAssumption == KeyOfNode

MCWriters == {runner, worker, handler}
MCHealth  == Health

(* Once a request and the loss of a lease or of a call, and once two syncs *)
(* and the loss of a call.                                                 *)
MCScenarios ==
  { [leases |-> 1, calls |-> 1, requests |-> 1, syncs |-> 1],
    [leases |-> 0, calls |-> 1, requests |-> 0, syncs |-> 2] }
=============================================================================
