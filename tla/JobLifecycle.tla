---------------------------- MODULE JobLifecycle ----------------------------
(***************************************************************************)
(* What a client can count on about a job: its status moves forward,       *)
(* queued -> processing -> completed or failed (or queued -> failed, when  *)
(* it cannot be handed to a worker); the fixed file appears together with  *)
(* the status completed, whole, and never changes; and the only step back  *)
(* is that a completed job may still turn failed, once, when reporting its *)
(* completion fails (services/jobs.py:49-57 and 80-90).                    *)
(***************************************************************************)
CONSTANTS Jobs

VARIABLES
  status,   \* status[j] of the Job row, "none" while there is no row
  result    \* result[j]: the file that the row's output_path leads to

lifecycleVars == <<status, result>>

LifecycleInit ==
  /\ status = [j \in Jobs |-> "none"]
  /\ result = [j \in Jobs |-> "absent"]

Move(j, from, to) ==
  /\ status[j] = from
  /\ status' = [status EXCEPT ![j] = to]

Submit(j) == Move(j, "none", "queued") /\ UNCHANGED result

Undeliverable(j) == Move(j, "queued", "failed") /\ UNCHANGED result

Start(j) == Move(j, "queued", "processing") /\ UNCHANGED result

Complete(j) ==
  /\ Move(j, "processing", "completed")
  /\ result' = [result EXCEPT ![j] = "whole"]

Fail(j) == Move(j, "processing", "failed") /\ UNCHANGED result

\* The file stays where it is; the row still leads to it.
Withdraw(j) == Move(j, "completed", "failed") /\ UNCHANGED result

LifecycleNext ==
  \E j \in Jobs :
    Submit(j) \/ Undeliverable(j) \/ Start(j) \/ Complete(j) \/ Fail(j) \/ Withdraw(j)

LifecycleSpec == LifecycleInit /\ [][LifecycleNext]_lifecycleVars
=============================================================================
