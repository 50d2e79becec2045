---------------------------- MODULE ClusterLock ----------------------------
(***************************************************************************)
(* What the lock of the cluster promises to the operations that take it,   *)
(* and all they may rely on.  One of those that are past AcquireLock at    *)
(* most owns the lock, and it owns it until it leaves or its lease ends;   *)
(* others may be past AcquireLock that have lost it.  The lock may also be *)
(* held for nobody: by a call that has failed although its put was made,   *)
(* by a process that has ended, or when its release has failed.            *)
(***************************************************************************)
CONSTANT Procs

VARIABLES
  held,     (* the lock's key exists                                       *)
  inside,   (* the processes that are past AcquireLock                     *)
  owners    (* those among them that the key belongs to: one, or none      *)

vars == <<held, inside, owners>>

Init == held = FALSE /\ inside = {} /\ owners = {}

Enter(p) ==
  /\ ~held /\ p \notin inside
  /\ held' = TRUE
  /\ inside' = inside \cup {p} /\ owners' = {p}

(* The key was put, and whoever has put it believes that it was not.       *)
EnterUnanswered ==
  /\ ~held
  /\ held' = TRUE
  /\ UNCHANGED <<inside, owners>>

(* Some leave, together when their process ends; an owner may leave the    *)
(* key behind.                                                             *)
Leave(S) ==
  /\ S # {} /\ S \subseteq inside
  /\ inside' = inside \ S /\ owners' = owners \ S
  /\ \/ held' = held
     \/ held' = FALSE /\ owners \cap S # {}

Expire ==
  /\ held
  /\ held' = FALSE /\ owners' = {}
  /\ UNCHANGED inside

Next ==
  \/ \E p \in Procs : Enter(p)
  \/ EnterUnanswered \/ Expire
  \/ \E S \in SUBSET Procs : Leave(S)

Spec == Init /\ [][Next]_vars
=============================================================================
