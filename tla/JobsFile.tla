------------------------------ MODULE JobsFile ------------------------------
(***************************************************************************)
(* The jobs of a node that runs alone: ControllerFile of                   *)
(* src/worker/controller-file.go.  A job has an identifier, made of its    *)
(* type and data (CreateJobID), and a channel that is closed when the job  *)
(* is complete.  The controller has a map from identifiers to channels:    *)
(* it keeps one channel for each identifier, however many goroutines       *)
(* process it.                                                             *)
(***************************************************************************)
EXTENDS Naturals, Sequences

CONSTANTS
  Clients,    (* the goroutines that add a job and wait for it             *)
  Names,      (* the data of the jobs: who needs a certificate             *)
  MaxCalls    (* bounds the calls of AddJob between two starts             *)

ASSUME CallsAssumption == MaxCalls \in Nat

VARIABLES
  channels,   (* w.jobs: the channel of each job, 0 when it has none       *)
  worker,     (* the goroutine each call of AddJob has started             *)
  closed,     (* the channels that were closed                             *)
  call,       (* where each client is in AddJob and WaitForJob             *)
  doubled     (* history: a job was added while it was under way           *)

jobVars == <<channels, worker, closed, call, doubled>>

(* A job and its identifier are the same thing here.  The n-th call of     *)
(* AddJob makes channel n and starts worker[n].                            *)
Jobs == [type : {"tlscert", "acme"}, data : Names]

Out == [pc |-> "out"]

JobsTypeOK ==
  /\ channels \in [Jobs -> 0..Len(worker)]
  /\ \A n \in DOMAIN worker :
       /\ worker[n].job \in Jobs
       /\ worker[n].pc \in {"process", "remove", "complete", "close", "done",
                            "failed"}
       /\ worker[n].held \in 0..Len(worker)
  /\ closed \subseteq DOMAIN worker
  /\ \A c \in Clients :
       \/ call[c] = Out
       \/ call[c].pc = "added" /\ call[c].job \in Jobs
       \/ call[c].pc = "waiting" /\ call[c].on \in DOMAIN worker
  /\ doubled \in BOOLEAN

JobsInit ==
  /\ channels = [j \in Jobs |-> 0]
  /\ worker = <<>>
  /\ closed = {}
  /\ call = [c \in Clients |-> Out]
  /\ doubled = FALSE

UnderWay(j) ==
  \E n \in DOMAIN worker :
    worker[n].job = j /\ worker[n].pc \notin {"done", "failed"}

-----------------------------------------------------------------------------
(* The job gets a channel, in the place of the one it may have had, and a  *)
(* goroutine.                                                              *)
AddJob(c, j) ==
  /\ call[c] = Out
  /\ Len(worker) < MaxCalls
  /\ worker' = Append(worker, [job |-> j, pc |-> "process", held |-> 0])
  /\ channels' = [channels EXCEPT ![j] = Len(worker')]
  /\ call' = [call EXCEPT ![c] = [pc |-> "added", job |-> j]]
  /\ doubled' = (doubled \/ UnderWay(j))
  /\ UNCHANGED closed

(* A job without a channel is likely complete; else its channel is waited  *)
(* for, whatever becomes of the map.                                       *)
WaitForJob(c) ==
  /\ call[c].pc = "added"
  /\ call' = [call EXCEPT ![c] =
                IF channels[call[c].job] = 0
                THEN Out
                ELSE [pc |-> "waiting", on |-> channels[call[c].job]]]
  /\ UNCHANGED <<channels, worker, closed, doubled>>

Answered(c) ==
  /\ call[c].pc = "waiting"
  /\ call[c].on \in closed
  /\ call' = [call EXCEPT ![c] = Out]
  /\ UNCHANGED <<channels, worker, closed, doubled>>

Goes(n, from, to) ==
  /\ worker[n].pc = from
  /\ worker' = [worker EXCEPT ![n].pc = to]

(* CompleteJob looks the channel up ...                                    *)
CompleteJob(n) ==
  /\ worker[n].pc = "complete"
  /\ worker' = [worker EXCEPT ![n].pc = "close",
                              ![n].held = channels[worker[n].job]]
  /\ UNCHANGED <<channels, closed, call, doubled>>

(* Mutant: the job is deleted and its channel stays open.                  *)
CloseChannel_Deletes(n) ==
  /\ Goes(n, "close", "done")
  /\ worker[n].held \notin closed
  /\ channels' = [channels EXCEPT ![worker[n].job] = 0]
  /\ UNCHANGED <<closed, call, doubled>>

(* ... closes it, if there is one, and deletes the job from the map.       *)
CloseChannel(n) ==
  /\ Goes(n, "close", "done")
  /\ worker[n].held \notin closed
  /\ closed' = closed \cup ({worker[n].held} \ {0})
  /\ channels' = [channels EXCEPT ![worker[n].job] = 0]
  /\ UNCHANGED <<call, doubled>>

(* The channel was closed since it was looked up: closing it again panics. *)
ClosesTwice(n) == worker[n].pc = "close" /\ worker[n].held \in closed

(* An error of ProcessJob is logged; the channel stays as it is.           *)
JobFails(n) ==
  /\ worker[n].pc \in {"process", "remove"}
  /\ worker' = [worker EXCEPT ![n].pc = "failed"]
  /\ UNCHANGED <<channels, closed, call, doubled>>

-----------------------------------------------------------------------------
(* Who waits for a job is going to be answered: the channel is closed, or  *)
(* a goroutine is under way that will close it.                            *)
IsServed(c) ==
  call[c].pc = "waiting" =>
    \/ call[c].on \in closed
    \/ \E n \in DOMAIN worker :
         /\ worker[n].pc \notin {"done", "failed"}
         /\ \/ worker[n].held = call[c].on
            \/ /\ worker[n].held = 0
               /\ channels[worker[n].job] = call[c].on
=============================================================================
