----------------------------- MODULE ScanPipeline -----------------------------
(***************************************************************************)
(* The scan routes of backend/api.py on top of the thread pool of JobQueue. *)
(* trigger_scan() submits a job and audits it before it answers; the job's  *)
(* function _run_scan_and_persist() runs the tool, stores a scan_history    *)
(* row and audits the outcome; scan_job_status() reads the job's row.       *)
(*                                                                          *)
(* The audit log, the history and the job's row are three tables written    *)
(* by separate calls, on two threads, each of which may be refused with     *)
(* nobody looking at its answer.                                            *)
(***************************************************************************)
EXTENDS JobQueue

VARIABLES told,     \* told[j]: the answer to the POST that submits j
          phase,    \* phase[w]: where the scan function of worker w stands
          history,  \* history[j]: the number of scan_history rows of j
          audit,    \* audit[j]: the audit_logs events of j
          unsaved,  \* unsaved[j]: what the database refused to store of j
          seen      \* seen[j]: the last status a client who polls j was shown

records == <<history, audit, unsaved>>
pipelineVars == <<vars, told, phase, records, seen>>

Events == {"scan_created", "scan_completed", "scan_failed"}
Final == {"COMPLETED", "FAILED"}

PipelineInit == /\ Init
                /\ told = [j \in Jobs |-> "none"]
                /\ phase = [w \in Workers |-> "none"]
                /\ history = [j \in Jobs |-> 0]
                /\ audit = [j \in Jobs |-> {}]
                /\ unsaved = [j \in Jobs |-> {}]
                /\ seen = [j \in Jobs |-> "none"]

-------------------------------------------------------------------------------
(* database.py *)

\* A refused write is printed and forgotten.
Missed(j, what, o) ==
    unsaved' = IF Committed(o) THEN unsaved ELSE [unsaved EXCEPT ![j] = @ \cup {what}]

\* save_scan(), with the risk "LOW"
SaveScan(j, o) ==
    /\ history' = IF Committed(o) THEN [history EXCEPT ![j] = @ + 1] ELSE history
    /\ Missed(j, "history", o)
    /\ UNCHANGED audit

\* save_audit_log()
SaveAuditLog(j, event, o) ==
    /\ audit' = IF Committed(o) THEN [audit EXCEPT ![j] = @ \cup {event}] ELSE audit
    /\ Missed(j, event, o)
    /\ UNCHANGED history

-------------------------------------------------------------------------------
(* trigger_scan(): submit() in its two halves, then the answer. *)

Post(j) == /\ CreateJob(j)
           /\ told' = [told EXCEPT ![j] = "waiting"]
           /\ UNCHANGED <<phase, records, seen>>

Enqueue(j) == /\ Schedule(j)
              /\ UNCHANGED <<told, phase, records, seen>>

\* Mutant: the audit row is written by the worker only.
Accept_Unaudited(j) == /\ caller[j] = "returned"
                       /\ told[j] = "waiting"
                       /\ told' = [told EXCEPT ![j] = "202"]
                       /\ UNCHANGED <<vars, phase, records, seen>>

\* The job may have run to its end before this row is written.
Accept(j) == /\ caller[j] = "returned"
             /\ told[j] = "waiting"
             /\ \E o \in DBOutcomes : SaveAuditLog(j, "scan_created", o)
             /\ told' = [told EXCEPT ![j] = "202"]
             /\ UNCHANGED <<vars, phase, seen>>

\* submit() answered None.
Refuse(j) == /\ caller[j] = "rejected"
             /\ told[j] = "waiting"
             /\ told' = [told EXCEPT ![j] = "500"]
             /\ UNCHANGED <<vars, phase, records, seen>>

-------------------------------------------------------------------------------
(* _run_scan_and_persist() on worker w *)

InFunction(w, p) == at[w] = "running" /\ phase[w] = p

Goto(w, p) == phase' = [phase EXCEPT ![w] = p]

\* The steps of _run_job() around the function.
RunJobStep(w) == /\ Take(w) \/ MarkRunning(w)
                 /\ UNCHANGED <<told, phase, records, seen>>

CallTool(w) == /\ StartTask(w)
               /\ Goto(w, "tool")
               /\ UNCHANGED <<told, records, seen>>

\* The scanners return the text of their errors, a timeout included; only what they
\* do not catch, or an unknown type of scan, goes to the except branch.
ToolReturns(w) == /\ InFunction(w, "tool")
                  /\ Goto(w, "scanned")
                  /\ UNCHANGED <<vars, told, records, seen>>

ToolRaises(w) == /\ InFunction(w, "tool")
                 /\ Goto(w, "failed")
                 /\ UNCHANGED <<vars, told, records, seen>>

\* Mutant: a None of save_scan() is tried again.
StoreScan_Retried(w) == /\ InFunction(w, "scanned")
                        /\ \E o \in DBOutcomes :
                             /\ SaveScan(task[w], o)
                             /\ Goto(w, IF Acked(o) THEN "stored" ELSE "scanned")
                        /\ UNCHANGED <<vars, told, seen>>

StoreScan(w) == /\ InFunction(w, "scanned")
                /\ \E o \in DBOutcomes : SaveScan(task[w], o)
                /\ Goto(w, "stored")
                /\ UNCHANGED <<vars, told, seen>>

\* Mutant: save_audit_log() lets its error through, to the except branch.
AuditCompleted_Raises(w) ==
    /\ InFunction(w, "stored")
    /\ \E o \in DBOutcomes : /\ SaveAuditLog(task[w], "scan_completed", o)
                             /\ Goto(w, IF Acked(o) THEN "returning" ELSE "failed")
    /\ UNCHANGED <<vars, told, seen>>

AuditCompleted(w) == /\ InFunction(w, "stored")
                     /\ \E o \in DBOutcomes : SaveAuditLog(task[w], "scan_completed", o)
                     /\ Goto(w, "returning")
                     /\ UNCHANGED <<vars, told, seen>>

AuditFailed(w) == /\ InFunction(w, "failed")
                  /\ \E o \in DBOutcomes : SaveAuditLog(task[w], "scan_failed", o)
                  /\ Goto(w, "raising")
                  /\ UNCHANGED <<vars, told, seen>>

\* Mutant: the except branch audits and returns, without "raise".
Leave_Swallows(w) == /\ at[w] = "running" /\ phase[w] \in {"returning", "raising"}
                     /\ EndTask(w) /\ at'[w] = "returned"
                     /\ Goto(w, "none")
                     /\ UNCHANGED <<told, records, seen>>

\* return result, or raise: what _run_job() then records.
Leave(w) == /\ \/ InFunction(w, "returning") /\ EndTask(w) /\ at'[w] = "returned"
               \/ InFunction(w, "raising") /\ EndTask(w) /\ at'[w] = "raised"
            /\ Goto(w, "none")
            /\ UNCHANGED <<told, records, seen>>

Record(w) == /\ RecordOutcome(w)
             /\ UNCHANGED <<told, phase, records, seen>>

WorkerRuns(w) == \/ RunJobStep(w) \/ CallTool(w) \/ ToolReturns(w) \/ ToolRaises(w)
                 \/ StoreScan(w) \/ AuditCompleted(w) \/ AuditFailed(w)
                 \/ Leave(w) \/ Record(w)

-------------------------------------------------------------------------------
(* scan_job_status(), asked by a client who has the id *)

\* Mutant: the first answer is kept in a cache.
StatusRead_Cached(j) == {IF seen[j] = "none" THEN rows[j].status ELSE seen[j]}

\* get_job_status(): an error of the database is None, like a row that is not there,
\* and becomes a 404.
StatusRead(j) == {rows[j].status} \cup (IF "refused" \in Faults THEN {"404"} ELSE {})

\* A 404 for a job it was given an id of tells the client nothing; it polls again.
Poll(j) == /\ told[j] = "202"
           /\ \E answer \in StatusRead(j) :
                seen' = IF answer = "404" THEN seen ELSE [seen EXCEPT ![j] = answer]
           /\ UNCHANGED <<vars, told, phase, records>>

\* The process dies: requests in work are not answered.
Die == /\ Crash
       /\ told' = [j \in Jobs |-> IF told[j] = "waiting" THEN "nothing" ELSE told[j]]
       /\ phase' = [w \in Workers |-> "none"]
       /\ UNCHANGED <<records, seen>>

RequestStep(j) == Enqueue(j) \/ Accept(j) \/ Refuse(j)

PipelineNext == \/ \E j \in Jobs : Post(j) \/ RequestStep(j) \/ Poll(j)
                \/ \E w \in Workers : WorkerRuns(w)
                \/ Die

PipelineSpec == PipelineInit /\ [][PipelineNext]_pipelineVars

\* Threads run on; a client polls on, and some of its polls reach the database.
PipelineFairness == /\ \A j \in Jobs : /\ WF_pipelineVars(RequestStep(j))
                                       /\ WF_pipelineVars(Poll(j))
                    /\ \A w \in Workers : WF_pipelineVars(WorkerRuns(w))

FairPipelineSpec == PipelineSpec /\ PipelineFairness

-------------------------------------------------------------------------------
(* Properties *)

\* Types of what the routes and the scan function add to the queue.
PipelineTypeOK ==
    /\ told \in [Jobs -> {"none", "waiting", "202", "500", "nothing"}]
    /\ phase \in [Workers -> {"none", "tool", "scanned", "stored", "failed", "returning",
                              "raising"}]
    /\ history \in [Jobs -> 0..1]
    /\ audit \in [Jobs -> SUBSET Events]
    /\ unsaved \in [Jobs -> SUBSET (Events \cup {"history"})]
    /\ seen \in [Jobs -> {"none", "PENDING", "RUNNING"} \cup Final]

Stored(j, event) == event \in audit[j]
Lacks(j, event) == event \notin audit[j] /\ event \notin unsaved[j]

\* The three tables tell one story.  A job is audited as completed or as failed, never
\* both; a COMPLETED row was audited and stored, a FAILED one audited and not stored,
\* unless the database refused exactly that write (_run_scan_and_persist).
TablesAgree ==
    \A j \in Jobs :
      /\ ~(Stored(j, "scan_completed") /\ Stored(j, "scan_failed"))
      /\ rows[j].status = "COMPLETED" => /\ ~Lacks(j, "scan_completed")
                                         /\ ~Stored(j, "scan_failed")
                                         /\ history[j] = 1 \/ "history" \in unsaved[j]
      /\ rows[j].status = "FAILED" => /\ ~Lacks(j, "scan_failed")
                                      /\ ~Stored(j, "scan_completed")
                                      /\ history[j] = 0

\* No scan without a trace of who asked for it: what reaches the history or the audit
\* log was submitted by a request that audited it, is about to, could not because the
\* database refused, or died before it could (trigger_scan).
ScansAreOwned ==
    \A j \in Jobs :
      history[j] > 0 \/ audit[j] # {} =>
        ~Lacks(j, "scan_created") \/ told[j] \in {"waiting", "nothing"}

\* What a client sees of a job never goes back: PENDING, RUNNING, then a final status
\* that stays, whatever 404s the database's errors put in between; and a client is
\* never shown an end the audit log has not heard of (scan_job_status).
Rank(s) == CASE s = "none" -> 0 [] s = "PENDING" -> 1 [] s = "RUNNING" -> 2 [] OTHER -> 3
PollAdvances ==
    \A j \in Jobs : /\ Rank(seen'[j]) >= Rank(seen[j])
                    /\ seen[j] \in Final => seen'[j] = seen[j]
                    /\ seen[j] = "COMPLETED" => ~Lacks(j, "scan_completed")
                    /\ seen[j] = "FAILED" => ~Lacks(j, "scan_failed")
PollsAdvance == [][PollAdvances]_pipelineVars

\* A client who got 202 and polls eventually sees how its scan ended, unless a crash or
\* a refused final write took the job (job_queue.py answers nothing then, ever).
ScansAreAnswered ==
    \A j \in Jobs : (told[j] = "202") ~> (seen[j] \in Final \/ j \in lost)
===============================================================================
