---------------------------- MODULE MCApiServer ----------------------------
(* Instances of ApiServer for TLC.                                         *)
EXTENDS ApiServer

CONSTANTS callback, monitor, handler, resync, again, main

AllCallers  == {callback, monitor, handler, resync, again}
OneCallback == {callback}
OneHandler  == {handler}
TwoResyncs  == {resync, again}

Calm == [signals |-> 0, certs |-> 0, requests |-> 0, version |-> 0,
         others |-> FALSE, tls |-> TRUE, start |-> TRUE, terminate |-> FALSE]

(* The callback of the store and a monitor, while nginx is started.        *)
Merged == [Calm EXCEPT !.version = 1, !.others = TRUE, !.tls = FALSE,
                       !.start = FALSE]

(* A sync that changes the certificate, requests under way and a signal.   *)
Restarts == [Calm EXCEPT !.signals = 1, !.certs = 1, !.requests = 2]

(* Restarts that follow each other closely.                                *)
Signals == [Calm EXCEPT !.signals = 2]

Stopped == [Calm EXCEPT !.signals = 1, !.terminate = TRUE]

Environments == {Merged, Restarts, Signals, Stopped}
=============================================================================
