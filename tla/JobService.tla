------------------------------ MODULE JobService ------------------------------
(***************************************************************************)
(* What a client of the scan service may rely on about one background job, *)
(* whichever queue runs it (queue_factory.py picks one).  Both queues keep *)
(* the lifecycle PENDING -> RUNNING -> COMPLETED | FAILED; the Redis one    *)
(* also sends a failed attempt back to PENDING, MaxRetries times at most.  *)
(* A job may stay unfinished (its queue crashed, its database was down),   *)
(* but a finished job is never touched or run again, only a job that was   *)
(* run may be COMPLETED, and no job is run more than MaxRetries + 1 times. *)
(***************************************************************************)
EXTENDS Naturals

CONSTANTS Jobs,        \* the jobs a client may submit
          MaxRetries   \* retries after the first attempt; the thread pool has none

VARIABLES status,      \* status[j]: the status column a client polls
          starts       \* starts[j]: how often the scan of j was started

vars == <<status, starts>>

Unfinished == {"PENDING", "RUNNING"}
Statuses == {"ABSENT", "PENDING", "RUNNING", "COMPLETED", "FAILED"}

Init == /\ status = [j \in Jobs |-> "ABSENT"]
        /\ starts = [j \in Jobs |-> 0]

Move(j, from, to) == /\ status[j] \in from
                     /\ status' = [status EXCEPT ![j] = to]
                     /\ UNCHANGED starts

\* The record of a new job is stored.
Accept(j) == Move(j, {"ABSENT"}, "PENDING")

\* A worker announces the attempt it is about to make.
MarkRunning(j) == Move(j, {"PENDING"}, "RUNNING")

\* The scan is started, announced or not.
Run(j) == /\ status[j] \in Unfinished
          /\ starts[j] <= MaxRetries
          /\ starts' = [starts EXCEPT ![j] = @ + 1]
          /\ UNCHANGED status

Complete(j) == starts[j] > 0 /\ Move(j, Unfinished, "COMPLETED")

Fail(j) == Move(j, Unfinished, "FAILED")

\* A failed attempt goes back to the queue while there are retries left.
Requeue(j) == starts[j] \in 1..MaxRetries /\ Move(j, {"RUNNING"}, "PENDING")

Next == \E j \in Jobs : \/ Accept(j) \/ MarkRunning(j) \/ Run(j)
                        \/ Complete(j) \/ Fail(j) \/ Requeue(j)

Spec == Init /\ [][Next]_vars
===============================================================================
