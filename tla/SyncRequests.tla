---------------------------- MODULE SyncRequests ----------------------------
(***************************************************************************)
(* What the synchronization queue promises to its callers: requests may be *)
(* merged, yet each one is followed by an attempt to sync a state that is  *)
(* at least as new as the one in memory at the request.                    *)
(***************************************************************************)
EXTENDS Naturals

VARIABLES
  version,    (* version of the state in memory                            *)
  requested,  (* version at the last request                               *)
  attempted,  (* version at the start of the last attempt                  *)
  owed,       (* an attempt must still start                               *)
  alive       (* the process runs                                          *)

vars == <<version, requested, attempted, owed, alive>>

(* The sync at startup is owed from the beginning.                         *)
Init ==
  /\ version = 0 /\ requested = 0 /\ attempted = 0
  /\ owed = TRUE
  /\ alive = TRUE

Change ==
  /\ alive
  /\ version' = version + 1
  /\ UNCHANGED <<requested, attempted, owed, alive>>

Request ==
  /\ alive
  /\ requested' = version
  /\ owed' = TRUE
  /\ UNCHANGED <<version, attempted, alive>>

(* One attempt serves every request made before it; a request that is      *)
(* served may be served once more.                                         *)
Attempt ==
  /\ alive /\ owed
  /\ attempted' = version
  /\ owed' \in BOOLEAN
  /\ UNCHANGED <<version, requested, alive>>

Stop ==
  /\ alive
  /\ alive' = FALSE
  /\ UNCHANGED <<version, requested, attempted, owed>>

Next == Change \/ Request \/ Attempt \/ Stop

Spec == Init /\ [][Next]_vars
=============================================================================
