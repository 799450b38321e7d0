------------------------------- MODULE JobQueue -------------------------------
(***************************************************************************)
(* job_queue.py: the default queue.  submit() stores a PENDING row of the  *)
(* jobs table and hands the job to a ThreadPoolExecutor; _run_job moves    *)
(* the row on as the pool's thread works.  Every write goes through        *)
(* database.py, which swallows its errors: create_job answers None,        *)
(* update_job_status answers False, and _run_job ignores that answer.      *)
(*                                                                         *)
(* A database call is one step (_db_lock and one transaction).  It ends    *)
(* "ok", "refused" (rolled back) or "lostAck" (committed by the server,    *)
(* error at the client).  A crash loses the pool, never a committed row.   *)
(*                                                                         *)
(* A name with an underscore is a mutant: the next definition with a bug   *)
(* in it, to show that a property can tell the difference.                 *)
(***************************************************************************)
EXTENDS SequencesExt

CONSTANTS Jobs,      \* one element per call of submit()
          Workers,   \* the threads of the pool (max_workers)
          NoJob,     \* what an idle worker holds
          Faults     \* the faults that may happen

ASSUME JobQueueAssumption == /\ NoJob \notin Jobs
                             /\ Faults \subseteq {"refused", "lostAck", "crash"}

VARIABLES rows,      \* rows[j]: the jobs table
          caller,    \* caller[j]: where the submit() call for j stands
          queue,     \* the executor's work queue
          at,        \* at[w]: the next step of worker w
          task,      \* task[w]: the job worker w runs
          starts,    \* how often the function of j was called
          outcome,   \* how the last call of it ended
          unmarked,  \* jobs whose RUNNING write was rolled back
          lost       \* jobs whose unfinished row nobody will move any more

vars == <<rows, caller, queue, at, task, starts, outcome, unmarked, lost>>

-------------------------------------------------------------------------------
(* database.py *)

\* Mutant: a status outside VALID_STATUSES (the table does not enforce them).
NewRow_UnknownStatus == [status |-> "QUEUED", result |-> "NULL", error |-> "NULL"]

\* An INSERT leaves result and error_message NULL.
NoRow == [status |-> "ABSENT", result |-> "NULL", error |-> "NULL"]
NewRow == [NoRow EXCEPT !.status = "PENDING"]

\* How a write can end, and what that means for the database and the caller.
DBOutcomes == {"ok"} \cup (Faults \cap {"refused", "lostAck"})
Committed(o) == o # "refused"
Acked(o) == o = "ok"

\* SQL's COALESCE(new, old): NULL never overwrites.
Coalesce(new, old) == IF new = "NULL" THEN old ELSE new

\* Mutant: the SET list without result and error_message.
UpdateJobStatus_StatusOnly(j, status, result, error, o) ==
    rows' = IF Committed(o)
            THEN [rows EXCEPT ![j].status = status]
            ELSE rows

UpdateJobStatus(j, status, result, error, o) ==
    rows' = IF Committed(o)
            THEN [rows EXCEPT ![j] = [status |-> status,
                                      result |-> Coalesce(result, @.result),
                                      error  |-> Coalesce(error, @.error)]]
            ELSE rows

-------------------------------------------------------------------------------
Init == /\ rows = [j \in Jobs |-> NoRow]
        /\ caller = [j \in Jobs |-> "new"]
        /\ queue = << >>
        /\ at = [w \in Workers |-> "idle"]
        /\ task = [w \in Workers |-> NoJob]
        /\ starts = [j \in Jobs |-> 0]
        /\ outcome = [j \in Jobs |-> "none"]
        /\ unmarked = {}
        /\ lost = {}

\* Who still holds job j: the submit() call, the work queue, a worker.
Submitting(j) == caller[j] = "inserted"
Queued(j) == Contains(queue, j)
Working(j) == \E w \in Workers : task[w] = j
Held(j) == Submitting(j) \/ Queued(j) \/ Working(j)

Release(w) == /\ at' = [at EXCEPT ![w] = "idle"]
              /\ task' = [task EXCEPT ![w] = NoJob]

\* Mutant: the None of create_job() is not looked at.
Created_NoneIgnored(o) == "inserted"

\* Where submit() goes after create_job(): on, or back with None.
Created(o) == IF Acked(o) THEN "inserted" ELSE "rejected"

\* submit(), first half: create_job().
CreateJob(j) ==
    /\ caller[j] = "new"
    /\ \E o \in DBOutcomes :
         /\ rows' = IF Committed(o) THEN [rows EXCEPT ![j] = NewRow] ELSE rows
         /\ caller' = [caller EXCEPT ![j] = Created(o)]
    /\ UNCHANGED <<queue, at, task, starts, outcome, unmarked, lost>>

\* submit(), second half: the executor takes the job, the caller its job_id.
Schedule(j) ==
    /\ Submitting(j)
    /\ queue' = Append(queue, j)
    /\ caller' = [caller EXCEPT ![j] = "returned"]
    /\ UNCHANGED <<rows, at, task, starts, outcome, unmarked, lost>>

-------------------------------------------------------------------------------
(* A thread of the pool: _run_job, one action per call it makes. *)

\* Mutant: the job is read, not removed.
Dequeue_Peek == UNCHANGED queue

Dequeue == queue' = Tail(queue)

Take(w) ==
    /\ at[w] = "idle"
    /\ queue # << >>
    /\ task' = [task EXCEPT ![w] = Head(queue)]
    /\ at' = [at EXCEPT ![w] = "taken"]
    /\ Dequeue
    /\ UNCHANGED <<rows, caller, starts, outcome, unmarked, lost>>

\* Mutant: no RUNNING write.
MarkRunning_Skipped(w) ==
    /\ at[w] = "taken"
    /\ at' = [at EXCEPT ![w] = "marked"]
    /\ UNCHANGED <<rows, caller, queue, task, starts, outcome, unmarked, lost>>

\* Announces the run; whether the row was written is not looked at.
MarkRunning(w) ==
    /\ at[w] = "taken"
    /\ \E o \in DBOutcomes :
         /\ UpdateJobStatus(task[w], "RUNNING", "NULL", "NULL", o)
         /\ unmarked' = IF Committed(o) THEN unmarked ELSE unmarked \cup {task[w]}
    /\ at' = [at EXCEPT ![w] = "marked"]
    /\ UNCHANGED <<caller, queue, task, starts, outcome, lost>>

StartTask(w) ==
    /\ at[w] = "marked"
    /\ starts' = [starts EXCEPT ![task[w]] = @ + 1]
    /\ at' = [at EXCEPT ![w] = "running"]
    /\ UNCHANGED <<rows, caller, queue, task, outcome, unmarked, lost>>

EndTask(w) ==
    /\ at[w] = "running"
    /\ \E e \in {"returned", "raised"} :
         /\ outcome' = [outcome EXCEPT ![task[w]] = e]
         /\ at' = [at EXCEPT ![w] = e]
    /\ UNCHANGED <<rows, caller, queue, task, starts, unmarked, lost>>

\* Mutant: no except branch.
FinalWrite_NoExcept(w, o) ==
    IF at[w] = "returned"
    THEN UpdateJobStatus(task[w], "COMPLETED", "text", "NULL", o)
    ELSE UNCHANGED rows

\* The two branches of the try; a failing str(result) counts as raised.
FinalWrite(w, o) ==
    IF at[w] = "returned"
    THEN UpdateJobStatus(task[w], "COMPLETED", "text", "NULL", o)
    ELSE UpdateJobStatus(task[w], "FAILED", "NULL", "text", o)

\* The final status.  If the write is rolled back the row stays as it is, and
\* nobody tries again.
RecordOutcome(w) ==
    /\ at[w] \in {"returned", "raised"}
    /\ \E o \in DBOutcomes :
         /\ FinalWrite(w, o)
         /\ lost' = IF Committed(o) THEN lost ELSE lost \cup {task[w]}
    /\ Release(w)
    /\ UNCHANGED <<caller, queue, starts, outcome, unmarked>>

WorkerStep(w) == \/ Take(w) \/ MarkRunning(w) \/ StartTask(w)
                 \/ EndTask(w) \/ RecordOutcome(w)

\* The process dies and is started again: queue and threads are gone, and no
\* code reads the rows back (list_pending has no caller in the program).
Crash ==
    /\ "crash" \in Faults
    /\ lost' = lost \cup {j \in Jobs : Held(j)}
    /\ caller' = [j \in Jobs |-> IF Submitting(j) THEN "died" ELSE caller[j]]
    /\ queue' = << >>
    /\ at' = [w \in Workers |-> "idle"]
    /\ task' = [w \in Workers |-> NoJob]
    /\ UNCHANGED <<rows, starts, outcome, unmarked>>

Next == \/ \E j \in Jobs : CreateJob(j) \/ Schedule(j)
        \/ \E w \in Workers : WorkerStep(w)
        \/ Crash

\* Python runs every ready thread; functions end (recon_tools.py sets timeouts).
Fairness == /\ \A j \in Jobs : WF_vars(Schedule(j))
            /\ \A w \in Workers : WF_vars(WorkerStep(w))

Spec == Init /\ [][Next]_vars
FairSpec == Spec /\ Fairness

-------------------------------------------------------------------------------
(* What the queue answers. *)

\* get_result(): the stored result, "raise" for a RuntimeError, or None.
GetResult(j) == CASE rows[j].status = "FAILED"    -> "raise"
                  [] rows[j].status = "COMPLETED" -> rows[j].result
                  [] OTHER                        -> "NULL"

\* list_pending(): what a recovery routine after a restart would find.
ListPending == {j \in Jobs : rows[j].status = "PENDING"}

Finished(j) == rows[j].status \in {"COMPLETED", "FAILED"}
Unfinished(j) == rows[j].status \in {"PENDING", "RUNNING"}

-------------------------------------------------------------------------------
(* Properties *)

\* Types of the variables of one queue process and its jobs table.
TypeOK ==
    /\ rows \in [Jobs -> [status : {"ABSENT", "PENDING", "RUNNING", "COMPLETED", "FAILED"},
                          result : {"NULL", "text"}, error : {"NULL", "text"}]]
    /\ caller \in [Jobs -> {"new", "inserted", "returned", "rejected", "died"}]
    /\ queue \in Seq(Jobs)
    /\ at \in [Workers -> {"idle", "taken", "marked", "running", "returned", "raised"}]
    /\ task \in [Workers -> Jobs \cup {NoJob}]
    /\ starts \in [Jobs -> Nat]
    /\ outcome \in [Jobs -> {"none", "returned", "raised"}]
    /\ unmarked \subseteq Jobs
    /\ lost \subseteq Jobs

\* A job is in one place: with its submit() call, once in the work queue, or
\* with one worker; so no two threads of the pool run it (submit, _run_job).
SinglePlace ==
    /\ IsInjective(queue)
    /\ \A v, w \in Workers : task[v] = task[w] /\ task[v] # NoJob => v = w
    /\ \A j \in Jobs : /\ ~(Queued(j) /\ Working(j))
                       /\ Queued(j) \/ Working(j) => caller[j] = "returned"

\* The function of a job is called at most once, and only for a caller who got
\* the job's id and with a row that shows it, whatever the database did.
AtMostOnce == \A j \in Jobs : /\ starts[j] <= 1
                              /\ starts[j] = 1 => /\ caller[j] = "returned"
                                                  /\ rows[j].status # "ABSENT"

\* No silent loss: an unfinished row still has a holder that will move it, or a
\* crash or a rolled back final write took the holder away, or submit() failed.
NoSilentLoss ==
    \A j \in Jobs : Unfinished(j) => Held(j) \/ j \in lost \/ caller[j] = "rejected"

\* The row tells the truth about the run: a final status is the one the function
\* earned, get_result gives the result or raises accordingly, and a job that was
\* not run to its end has neither a result nor an error message.
TruthfulRow ==
    \A j \in Jobs :
      /\ rows[j].status = "COMPLETED" => outcome[j] = "returned"
      /\ rows[j].status = "FAILED" => outcome[j] = "raised"
      /\ (GetResult(j) = "text") <=> (rows[j].status = "COMPLETED")
      /\ (rows[j].error = "text") <=> (rows[j].status = "FAILED")

\* A recovery routine that runs the rows list_pending() shows (job_queue.py:99)
\* repeats a scan only if the RUNNING write of that job was rolled back.
RecoveryRepeatsNothing == \A j \in ListPending : starts[j] = 0 \/ j \in unmarked

\* A job the process lost hold of stays where it is: no row of a lost job ever
\* changes again, so its client polls PENDING or RUNNING for ever.
LostUntouched == \A j \in lost : rows'[j] = rows[j] /\ starts'[j] = starts[j]
LostStaysLost == [][LostUntouched]_vars

\* The queue implements the promise of JobService, without any retry.
Service == INSTANCE JobService WITH
             MaxRetries <- 0,
             status <- [j \in Jobs |-> rows[j].status]
ImplementsService == Service!Spec

\* Every job whose id a client got is eventually finished for good, unless a
\* crash or a rolled back final write took it away from its worker.
EveryJobSettles ==
    \A j \in Jobs : (caller[j] = "returned") ~> [](Finished(j) \/ j \in lost)
===============================================================================
