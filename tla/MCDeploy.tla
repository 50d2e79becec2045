------------------------------ MODULE MCDeploy ------------------------------
(* Instances of Deploy for TLC: two sites, two apps.                       *)
EXTENDS Deploy, TLC

CONSTANTS d1, d2, good, bad

TwoDomains == {d1, d2}
TwoApps    == {good, bad}
Rules      == good :> "good" @@ bad :> "bad"

S(d, a) == [domain |-> d, app |-> a]

(* Four requests at any time; nothing fails.                               *)
Requested == [sites |-> <<S(d1, good), S(d2, NoApp)>>, size |-> 4,
              stored |-> TwoApps, changes |-> 4, faults |-> {}, maxFaults |-> 0]

(* The list begins empty, so its array is replaced as it grows.            *)
Growing == [Requested EXCEPT !.sites = <<>>, !.size = 0]

(* Two things go wrong while two requests are made.                        *)
Faulty == [sites |-> <<S(d1, good), S(d2, good)>>, size |-> 4,
           stored |-> TwoApps, changes |-> 2,
           faults |-> {"fetch", "extract", "remove", "certificate", "disk",
                       "test", "restart", "crash"},
           maxFaults |-> 2]

(* The bundle of one of the sites is not in the storage.                   *)
Absent == [Faulty EXCEPT !.sites = <<S(d1, good), S(d2, bad)>>,
                         !.stored = {good}, !.maxFaults = 1]

Environments == {Requested, Growing, Faulty, Absent}
=====
