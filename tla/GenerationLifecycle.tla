------------------------- MODULE GenerationLifecycle -------------------------
(***************************************************************************)
(* What a durable generation run promises, without workers, leases or      *)
(* processes.  A run is requested once; it is attempted at most            *)
(* MaxRetries + 1 times; an attempt ends by completing the run, by failing *)
(* it, or by putting it back in the queue while retries are left; and every *)
(* requested run is settled in the end.  GenerationQueue implements it.    *)
(***************************************************************************)
EXTENDS Naturals

CONSTANTS Job,         \* generation ids
          MaxRetries   \* Settings.generation_max_retries

VARIABLES status,      \* generation_runs.status, "absent" before the insert
          attempts     \* how many times the run has been handed to a worker

lifecycleVars == <<status, attempts>>

LifecycleInit == /\ status = [j \in Job |-> "absent"]
                 /\ attempts = [j \in Job |-> 0]

Request(j) == /\ status[j] = "absent"
              /\ status' = [status EXCEPT ![j] = "requested"]
              /\ UNCHANGED attempts

Begin(j) == /\ status[j] = "requested"
            /\ attempts[j] <= MaxRetries
            /\ status' = [status EXCEPT ![j] = "running"]
            /\ attempts' = [attempts EXCEPT ![j] = @ + 1]

(* One attempt ends well. *)
Complete(j) == /\ status[j] = "running"
               /\ status' = [status EXCEPT ![j] = "completed"]
               /\ UNCHANGED attempts

(* The attempts of a set of runs end without a result: those with a retry   *)
(* left may be queued again, the others fail.                               *)
GiveUp(S) == /\ S # {}
             /\ \A j \in S : status[j] = "running"
             /\ \E again \in SUBSET {j \in S : attempts[j] <= MaxRetries} :
                  status' = [j \in Job |->
                               IF j \in again THEN "requested"
                               ELSE IF j \in S THEN "failed" ELSE status[j]]
             /\ UNCHANGED attempts

LifecycleNext == \/ \E j \in Job : Request(j) \/ Begin(j) \/ Complete(j)
                 \/ \E S \in SUBSET Job : GiveUp(S)

LifecycleSafety == LifecycleInit /\ [][LifecycleNext]_lifecycleVars

(* A requested run is begun, and an attempt ends. *)
LifecycleSpec == /\ LifecycleSafety
                 /\ \A j \in Job :
                      /\ WF_lifecycleVars(Begin(j))
                      /\ WF_lifecycleVars(Complete(j)
                           \/ \E S \in SUBSET Job : j \in S /\ GiveUp(S))
=============================================================================
