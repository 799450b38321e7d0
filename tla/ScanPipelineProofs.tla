-------------------------- MODULE ScanPipelineProofs --------------------------
(***************************************************************************)
(* Proofs about ScanPipeline for any scans, any pool and any faults.  A    *)
(* step of the pipeline is a step of JobQueue or leaves it alone, so the   *)
(* invariants of JobQueueProofs hold here too; Story and Requests add what *)
(* the tables and the answers hold at each step of the scan function and   *)
(* of the request; SeenStory adds what a polling client was shown.         *)
(***************************************************************************)
EXTENDS ScanPipeline, JobQueueProofs

-------------------------------------------------------------------------------
(* The inductive invariant *)

PTyped == /\ told \in [Jobs -> {"none", "waiting", "202", "500", "nothing"}]
          /\ phase \in [Workers -> {"none", "tool", "scanned", "stored", "failed",
                                    "returning", "raising"}]
          /\ history \in [Jobs -> Nat]
          /\ audit \in [Jobs -> SUBSET Events]
          /\ unsaved \in [Jobs -> SUBSET (Events \cup {"history"})]
          /\ seen \in [Jobs -> {"none", "PENDING", "RUNNING"} \cup Final]

\* Nothing was stored of the scan yet, or its history only.
Blank(j) == history[j] = 0 /\ ~Stored(j, "scan_completed") /\ ~Stored(j, "scan_failed")
InHistory(j) == /\ history[j] \in 0..1
                /\ history[j] = 1 \/ "history" \in unsaved[j]
StoredOnly(j) == InHistory(j) /\ ~Stored(j, "scan_completed") /\ ~Stored(j, "scan_failed")

\* All that is stored of a scan that returned, or that raised.
EndedWell(j) == InHistory(j) /\ ~Lacks(j, "scan_completed") /\ ~Stored(j, "scan_failed")
EndedBadly(j) == history[j] = 0 /\ ~Lacks(j, "scan_failed") /\ ~Stored(j, "scan_completed")

\* What is stored of a job, wherever its worker stands or stopped in a crash.
Plausible(j) == history[j] \in 0..1 /\ ~(Stored(j, "scan_completed") /\ Stored(j, "scan_failed"))

\* A phase is a step of the running function.
PhaseAgrees == \A w \in Workers : at[w] = "running" <=> phase[w] # "none"

JobStory(j) == /\ Plausible(j)
               /\ starts[j] = 0 => Blank(j)
               /\ rows[j].status = "COMPLETED" => EndedWell(j)
               /\ rows[j].status = "FAILED" => EndedBadly(j)

WorkerStory(w) ==
    /\ phase[w] \in {"tool", "scanned", "failed"} => Blank(task[w])
    /\ phase[w] = "stored" => StoredOnly(task[w])
    /\ phase[w] = "returning" \/ at[w] = "returned" => EndedWell(task[w])
    /\ phase[w] = "raising" \/ at[w] = "raised" => EndedBadly(task[w])

\* What the request that submits j has done so far.
RequestStory(j) == /\ told[j] = "none" <=> caller[j] = "new"
                   /\ told[j] = "500" => caller[j] = "rejected"
                   /\ told[j] = "202" => caller[j] = "returned" /\ ~Lacks(j, "scan_created")
                   /\ caller[j] = "returned" => rows[j].status # "ABSENT"
                   /\ caller[j] # "returned" => history[j] = 0 /\ audit[j] = {}

Story == /\ PTyped /\ PhaseAgrees
         /\ \A j \in Jobs : JobStory(j) /\ RequestStory(j)
         /\ \A w \in Workers : WorkerStory(w)

PInv == Placement /\ Progress /\ Story

-------------------------------------------------------------------------------
(* The pipeline runs the queue. *)

\* Every step is a step of JobQueue, or leaves the queue as it is.
LEMMA StepIsQueueStep == [PipelineNext]_pipelineVars => [Next]_vars
<1> SUFFICES ASSUME [PipelineNext]_pipelineVars PROVE [Next]_vars
  OBVIOUS
<1>1. ASSUME NEW j \in Jobs, Post(j) \/ RequestStep(j) \/ Poll(j) PROVE [Next]_vars
  BY <1>1 DEF Post, RequestStep, Enqueue, Accept, Refuse, Poll, Next
<1>2. ASSUME NEW w \in Workers, WorkerRuns(w) PROVE [Next]_vars
  BY <1>2 DEF WorkerRuns, RunJobStep, CallTool, ToolReturns, ToolRaises, StoreScan,
              AuditCompleted, AuditFailed, Leave, Record, Next, WorkerStep
<1>3. CASE Die
  BY <1>3 DEF Die, Next
<1>4. CASE UNCHANGED pipelineVars
  BY <1>4 DEF pipelineVars
<1> QED BY <1>1, <1>2, <1>3, <1>4 DEF PipelineNext

\* The routes and the scan function use the queue as its specification says, so what is
\* proved of the queue holds of the pipeline (trigger_scan, _run_scan_and_persist).
THEOREM PipelineIsQueue == PipelineSpec => Spec
BY StepIsQueueStep, PTL DEF PipelineSpec, PipelineInit, Spec

\* A client of the routes has the promise of JobService: no scan is started twice and no
\* status goes back, whatever fails between the three tables.
THEOREM PipelineImplementsService == PipelineSpec => ImplementsService
BY PipelineIsQueue, QueueImplementsService, PTL

-------------------------------------------------------------------------------
(* Frames *)

\* The worker of a running or ended function has a started job of its own, whose row
\* is unfinished.
LEMMA WorkerHolds ==
    ASSUME Placement, Progress, NEW w \in Workers, at[w] # "idle"
    PROVE  /\ task[w] \in Jobs
           /\ rows[task[w]].status \notin Final
           /\ at[w] \notin {"taken", "marked"} => starts[task[w]] = 1 /\ caller[task[w]] = "returned"
           /\ \A v \in Workers : v # w => task[v] # task[w]
<1>1. task[w] \in Jobs /\ task[w] # NoJob
  BY DEF Placement, TypeOK, IdleIsFree
<1>2. rows[task[w]] \in {NewRow, RunningRow}
  BY DEF Progress, WorkerAgrees
<1>3. rows[task[w]].status \notin Final
  BY <1>2, RowColumns DEF Final
<1>4. at[w] \notin {"taken", "marked"} => starts[task[w]] = 1 /\ caller[task[w]] = "returned"
  BY <1>1 DEF Progress, WorkerAgrees, CalledOnce
<1>5. \A v \in Workers : v # w => task[v] # task[w]
  BY <1>1 DEF Placement, SinglePlace
<1> QED BY <1>1, <1>3, <1>4, <1>5

\* A step inside the function of worker w changes what is stored of its job only.
LEMMA InsideFrame ==
    ASSUME PInv, NEW w \in Workers, at[w] = "running", UNCHANGED <<vars, told, seen>>,
           NEW p \in {"scanned", "stored", "failed", "returning", "raising"}, Goto(w, p),
           history' \in [Jobs -> Nat], audit' \in [Jobs -> SUBSET Events],
           unsaved' \in [Jobs -> SUBSET (Events \cup {"history"})],
           \A k \in Jobs : k # task[w] => /\ history'[k] = history[k]
                                          /\ audit'[k] = audit[k]
                                          /\ unsaved'[k] = unsaved[k],
           ~Lacks(task[w], "scan_created") => ~Lacks(task[w], "scan_created")',
           Plausible(task[w])', WorkerStory(w)'
    PROVE  Story'
<1> DEFINE j == task[w]
<1>1. /\ j \in Jobs /\ rows[j].status \notin Final
      /\ starts[j] = 1 /\ caller[j] = "returned"
      /\ \A v \in Workers : v # w => task[v] # j
  BY WorkerHolds DEF PInv
<1>2. UNCHANGED <<rows, caller, at, task, starts>>
  BY DEF vars
<1>3. PTyped' /\ PhaseAgrees'
  BY <1>2 DEF PInv, Story, PTyped, PhaseAgrees, Goto
<1>4. ASSUME NEW k \in Jobs PROVE JobStory(k)'
  <2>1. CASE k = j
    BY <1>1, <1>2, <2>1 DEF JobStory, Final
  <2>2. CASE k # j
    BY <1>2, <2>2 DEF PInv, Story, JobStory, Plausible, Blank, EndedWell, EndedBadly,
                      InHistory, Stored, Lacks
  <2> QED BY <2>1, <2>2
<1>5. ASSUME NEW k \in Jobs PROVE RequestStory(k)'
  <2>1. CASE k = j
    <3>1. RequestStory(j)
      BY <1>1 DEF PInv, Story
    <3> QED BY <1>1, <1>2, <2>1, <3>1 DEF RequestStory
  <2>2. CASE k # j
    BY <1>2, <2>2 DEF PInv, Story, RequestStory, Lacks
  <2> QED BY <2>1, <2>2
<1>6. ASSUME NEW v \in Workers PROVE WorkerStory(v)'
  <2>1. CASE v # w /\ at[v] # "idle"
    <3>1. task[v] \in Jobs /\ task[v] # j
      BY <1>1, <2>1, WorkerHolds DEF PInv
    <3>2. phase'[v] = phase[v]
      BY <2>1 DEF Goto, PInv, Story, PTyped
    <3> QED
      BY <1>2, <3>1, <3>2
      DEF PInv, Story, WorkerStory, Blank, StoredOnly, EndedWell, EndedBadly, InHistory,
          Stored, Lacks
  <2>2. CASE v # w /\ at[v] = "idle"
    <3>1. phase'[v] = "none" /\ at'[v] = "idle"
      BY <1>2, <2>2 DEF Goto, PInv, Story, PTyped, PhaseAgrees
    <3> QED BY <3>1 DEF WorkerStory
  <2> QED BY <2>1, <2>2
<1> QED BY <1>3, <1>4, <1>5, <1>6 DEF Story

-------------------------------------------------------------------------------
(* The scan function *)

\* The tool returns or raises.
LEMMA ToolEnds ==
    ASSUME PInv, NEW w \in Workers, ToolReturns(w) \/ ToolRaises(w)
    PROVE  Story'
<1>1. /\ at[w] = "running" /\ phase[w] = "tool"
      /\ UNCHANGED <<vars, told, seen>> /\ UNCHANGED <<history, audit, unsaved>>
      /\ Goto(w, "scanned") \/ Goto(w, "failed")
  BY DEF ToolReturns, ToolRaises, InFunction, records
<1>2. task[w] \in Jobs /\ Blank(task[w]) /\ Plausible(task[w])
  BY <1>1, WorkerHolds DEF PInv, Story, WorkerStory, JobStory
<1>3. phase'[w] \in {"scanned", "failed"} /\ at'[w] = "running" /\ task' = task
  BY <1>1 DEF Goto, vars, PInv, Story, PTyped
<1>4. Plausible(task[w])' /\ WorkerStory(w)'
  BY <1>1, <1>2, <1>3 DEF Plausible, WorkerStory, Blank, Stored
<1>5. ~Lacks(task[w], "scan_created") => ~Lacks(task[w], "scan_created")'
  BY <1>1, <1>3 DEF Lacks
<1>6. /\ history' \in [Jobs -> Nat] /\ audit' \in [Jobs -> SUBSET Events]
      /\ unsaved' \in [Jobs -> SUBSET (Events \cup {"history"})]
      /\ \A k \in Jobs : history'[k] = history[k] /\ audit'[k] = audit[k] /\ unsaved'[k] = unsaved[k]
  BY <1>1 DEF PInv, Story, PTyped
<1>7. CASE Goto(w, "scanned")
  BY <1>1, <1>4, <1>5, <1>6, <1>7, InsideFrame
<1>8. CASE Goto(w, "failed")
  BY <1>1, <1>4, <1>5, <1>6, <1>8, InsideFrame
<1> QED BY <1>1, <1>7, <1>8

\* What one write to a table does, whichever way it ends.
LEMMA WriteEffect ==
    ASSUME PTyped, NEW j \in Jobs, NEW o \in DBOutcomes, NEW event \in Events \cup {"history"},
           \/ event = "history" /\ SaveScan(j, o)
           \/ event \in Events /\ SaveAuditLog(j, event, o)
    PROVE  /\ history' \in [Jobs -> Nat] /\ audit' \in [Jobs -> SUBSET Events]
           /\ unsaved' \in [Jobs -> SUBSET (Events \cup {"history"})]
           /\ \A k \in Jobs : k # j => /\ history'[k] = history[k]
                                       /\ audit'[k] = audit[k]
                                       /\ unsaved'[k] = unsaved[k]
           /\ audit[j] \subseteq audit'[j] /\ unsaved[j] \subseteq unsaved'[j]
           /\ audit'[j] \subseteq audit[j] \cup {event}
           /\ event = "history" => /\ audit'[j] = audit[j]
                                   /\ \/ history'[j] = history[j] + 1
                                      \/ history'[j] = history[j] /\ "history" \in unsaved'[j]
           /\ event # "history" => /\ history'[j] = history[j]
                                   /\ event \in audit'[j] \/ event \in unsaved'[j]
<1>1. CASE event = "history" /\ SaveScan(j, o)
  BY <1>1 DEF SaveScan, Missed, PTyped
<1>2. CASE event \in Events /\ SaveAuditLog(j, event, o)
  <2>1. event # "history"
    BY <1>2 DEF Events
  <2> QED BY <1>2, <2>1 DEF SaveAuditLog, Missed, PTyped
<1> QED BY <1>1, <1>2

\* The row of scan_history.
LEMMA StoreScanKeeps ==
    ASSUME PInv, NEW w \in Workers, StoreScan(w)
    PROVE  Story'
<1> DEFINE j == task[w]
<1>1. at[w] = "running" /\ phase[w] = "scanned" /\ UNCHANGED <<vars, told, seen>> /\ Goto(w, "stored")
  BY DEF StoreScan, InFunction
<1>2. PICK o \in DBOutcomes : SaveScan(j, o)
  BY DEF StoreScan
<1>3. j \in Jobs /\ Blank(j) /\ Plausible(j) /\ PTyped
  BY <1>1, WorkerHolds DEF PInv, Story, WorkerStory, JobStory
<1>4. /\ history' \in [Jobs -> Nat] /\ audit' \in [Jobs -> SUBSET Events]
      /\ unsaved' \in [Jobs -> SUBSET (Events \cup {"history"})]
      /\ \A k \in Jobs : k # j => /\ history'[k] = history[k]
                                  /\ audit'[k] = audit[k]
                                  /\ unsaved'[k] = unsaved[k]
      /\ audit'[j] = audit[j] /\ unsaved[j] \subseteq unsaved'[j]
      /\ \/ history'[j] = history[j] + 1
         \/ history'[j] = history[j] /\ "history" \in unsaved'[j]
  BY <1>2, <1>3, WriteEffect
<1>5. phase'[w] = "stored" /\ at'[w] = "running" /\ task' = task
  BY <1>1, <1>3 DEF Goto, vars, PTyped
<1>6. Plausible(j)' /\ WorkerStory(w)'
  BY <1>3, <1>4, <1>5 DEF Plausible, WorkerStory, StoredOnly, InHistory, Blank, Stored
<1>7. ~Lacks(j, "scan_created") => ~Lacks(j, "scan_created")'
  BY <1>4, <1>5 DEF Lacks
<1> QED BY <1>1, <1>4, <1>6, <1>7, InsideFrame

\* The audit row of a scan that returns.
LEMMA AuditCompletedKeeps ==
    ASSUME PInv, NEW w \in Workers, AuditCompleted(w)
    PROVE  Story'
<1> DEFINE j == task[w]
<1>1. at[w] = "running" /\ phase[w] = "stored" /\ UNCHANGED <<vars, told, seen>> /\ Goto(w, "returning")
  BY DEF AuditCompleted, InFunction
<1>2. PICK o \in DBOutcomes : SaveAuditLog(j, "scan_completed", o)
  BY DEF AuditCompleted
<1>3. j \in Jobs /\ StoredOnly(j) /\ PTyped
  BY <1>1, WorkerHolds DEF PInv, Story, WorkerStory
<1>4. /\ history' \in [Jobs -> Nat] /\ audit' \in [Jobs -> SUBSET Events]
      /\ unsaved' \in [Jobs -> SUBSET (Events \cup {"history"})]
      /\ \A k \in Jobs : k # j => /\ history'[k] = history[k]
                                  /\ audit'[k] = audit[k]
                                  /\ unsaved'[k] = unsaved[k]
      /\ audit[j] \subseteq audit'[j] /\ unsaved[j] \subseteq unsaved'[j]
      /\ audit'[j] \subseteq audit[j] \cup {"scan_completed"}
      /\ history'[j] = history[j]
      /\ "scan_completed" \in audit'[j] \/ "scan_completed" \in unsaved'[j]
  <2>1. "scan_completed" \in Events /\ "scan_completed" # "history"
    BY DEF Events
  <2> QED BY <1>2, <1>3, <2>1, WriteEffect
<1>5. phase'[w] = "returning" /\ at'[w] = "running" /\ task' = task
  BY <1>1, <1>3 DEF Goto, vars, PTyped
<1>6. Plausible(j)' /\ WorkerStory(w)'
  BY <1>3, <1>4, <1>5 DEF Plausible, WorkerStory, EndedWell, StoredOnly, InHistory, Stored, Lacks
<1>7. ~Lacks(j, "scan_created") => ~Lacks(j, "scan_created")'
  BY <1>4, <1>5 DEF Lacks
<1> QED BY <1>1, <1>4, <1>6, <1>7, InsideFrame

\* The audit row of a scan that raises.
LEMMA AuditFailedKeeps ==
    ASSUME PInv, NEW w \in Workers, AuditFailed(w)
    PROVE  Story'
<1> DEFINE j == task[w]
<1>1. at[w] = "running" /\ phase[w] = "failed" /\ UNCHANGED <<vars, told, seen>> /\ Goto(w, "raising")
  BY DEF AuditFailed, InFunction
<1>2. PICK o \in DBOutcomes : SaveAuditLog(j, "scan_failed", o)
  BY DEF AuditFailed
<1>3. j \in Jobs /\ Blank(j) /\ PTyped
  BY <1>1, WorkerHolds DEF PInv, Story, WorkerStory
<1>4. /\ history' \in [Jobs -> Nat] /\ audit' \in [Jobs -> SUBSET Events]
      /\ unsaved' \in [Jobs -> SUBSET (Events \cup {"history"})]
      /\ \A k \in Jobs : k # j => /\ history'[k] = history[k]
                                  /\ audit'[k] = audit[k]
                                  /\ unsaved'[k] = unsaved[k]
      /\ audit[j] \subseteq audit'[j] /\ unsaved[j] \subseteq unsaved'[j]
      /\ audit'[j] \subseteq audit[j] \cup {"scan_failed"}
      /\ history'[j] = history[j]
      /\ "scan_failed" \in audit'[j] \/ "scan_failed" \in unsaved'[j]
  <2>1. "scan_failed" \in Events /\ "scan_failed" # "history"
    BY DEF Events
  <2> QED BY <1>2, <1>3, <2>1, WriteEffect
<1>5. phase'[w] = "raising" /\ at'[w] = "running" /\ task' = task
  BY <1>1, <1>3 DEF Goto, vars, PTyped
<1>6. Plausible(j)' /\ WorkerStory(w)'
  BY <1>3, <1>4, <1>5 DEF Plausible, WorkerStory, EndedBadly, Blank, Stored, Lacks
<1>7. ~Lacks(j, "scan_created") => ~Lacks(j, "scan_created")'
  BY <1>4, <1>5 DEF Lacks
<1> QED BY <1>1, <1>4, <1>6, <1>7, InsideFrame

-------------------------------------------------------------------------------
(* The steps of _run_job() around the function *)

\* Taking a job and announcing it.
LEMMA RunJobKeeps ==
    ASSUME PInv, NEW w \in Workers, RunJobStep(w)
    PROVE  Story'
<1>1. UNCHANGED <<told, phase, history, audit, unsaved, seen, caller, starts>>
  BY DEF RunJobStep, records, Take, MarkRunning
<1>2. ASSUME NEW k \in Jobs, rows'[k].status \in Final \cup {"ABSENT"}
      PROVE  rows'[k].status = rows[k].status
  <2>1. CASE Take(w)
    BY <2>1 DEF Take
  <2>2. CASE MarkRunning(w)
    <3>1. PICK o \in DBOutcomes : UpdateJobStatus(task[w], "RUNNING", "NULL", "NULL", o)
      BY <2>2 DEF MarkRunning
    <3>2. task[w] \in Jobs
      BY <2>2, WorkerHolds DEF PInv, MarkRunning
    <3>3. /\ k # task[w] => rows'[k] = rows[k]
          /\ rows'[task[w]] = IF Committed(o)
                              THEN [status |-> "RUNNING", result |-> Coalesce("NULL", rows[task[w]].result),
                                    error |-> Coalesce("NULL", rows[task[w]].error)]
                              ELSE rows[task[w]]
      BY <3>1, <3>2, UpdateType DEF PInv, Placement
    <3> QED BY <1>2, <3>3 DEF Final
  <2> QED BY <2>1, <2>2 DEF RunJobStep
<1>3. at[w] \in {"idle", "taken"} /\ at'[w] \in {"taken", "marked"}
      /\ \A v \in Workers : v # w => at'[v] = at[v] /\ task'[v] = task[v]
  BY DEF RunJobStep, Take, MarkRunning, PInv, Placement, TypeOK
<1>4. PTyped' /\ PhaseAgrees'
  BY <1>1, <1>3 DEF PInv, Story, PTyped, PhaseAgrees
<1>5. ASSUME NEW k \in Jobs PROVE JobStory(k)' /\ RequestStory(k)'
  BY <1>1, <1>2 DEF PInv, Story, JobStory, RequestStory, Plausible, Blank, EndedWell,
                    EndedBadly, InHistory, Stored, Lacks, Final
<1>6. ASSUME NEW v \in Workers PROVE WorkerStory(v)'
  <2>1. CASE v = w
    <3>1. phase'[w] = "none"
      BY <1>1, <1>3 DEF PInv, Story, PhaseAgrees
    <3> QED BY <1>3, <2>1, <3>1 DEF WorkerStory
  <2>2. CASE v # w
    BY <1>1, <1>3, <2>2
    DEF PInv, Story, WorkerStory, Blank, StoredOnly, EndedWell, EndedBadly, InHistory,
        Stored, Lacks
  <2> QED BY <2>1, <2>2
<1> QED BY <1>4, <1>5, <1>6 DEF Story

\* The function is called: nothing is stored of its job yet.
LEMMA CallToolKeeps ==
    ASSUME PInv, NEW w \in Workers, CallTool(w)
    PROVE  Story'
<1>1. /\ UNCHANGED <<told, history, audit, unsaved, seen, caller, rows, task>>
      /\ at[w] = "marked" /\ Goto(w, "tool")
      /\ at' = [at EXCEPT ![w] = "running"] /\ starts' = [starts EXCEPT ![task[w]] = @ + 1]
  BY DEF CallTool, StartTask, records
<1>2. task[w] \in Jobs /\ starts[task[w]] = 0
  BY <1>1, WorkerHolds DEF PInv, Progress, WorkerAgrees
<1>3. /\ at'[w] = "running" /\ phase'[w] = "tool"
      /\ \A v \in Workers : v # w => at'[v] = at[v] /\ phase'[v] = phase[v]
  BY <1>1 DEF Goto, PInv, Placement, TypeOK, Story, PTyped
<1>4. \A k \in Jobs : starts'[k] = 0 => starts[k] = 0
  BY <1>1, <1>2 DEF PInv, Placement, TypeOK
<1>5. PTyped' /\ PhaseAgrees'
  <2>1. PTyped'
    BY <1>1 DEF Goto, PInv, Story, PTyped
  <2> QED BY <1>3, <2>1 DEF PInv, Story, PhaseAgrees
<1>6. ASSUME NEW k \in Jobs PROVE JobStory(k)' /\ RequestStory(k)'
  BY <1>1, <1>4 DEF PInv, Story, JobStory, RequestStory, Plausible, Blank, EndedWell,
                    EndedBadly, InHistory, Stored, Lacks
<1>7. ASSUME NEW v \in Workers PROVE WorkerStory(v)'
  <2>1. CASE v = w
    <3>1. Blank(task[w])
      BY <1>2 DEF PInv, Story, JobStory
    <3> QED BY <1>1, <1>3, <2>1, <3>1 DEF WorkerStory, Blank, Stored
  <2>2. CASE v # w
    BY <1>1, <1>3, <2>2
    DEF PInv, Story, WorkerStory, Blank, StoredOnly, EndedWell, EndedBadly, InHistory,
        Stored, Lacks
  <2> QED BY <2>1, <2>2
<1> QED BY <1>5, <1>6, <1>7 DEF Story

\* The function ends with what its last phase stored.
LEMMA LeaveKeeps ==
    ASSUME PInv, NEW w \in Workers, Leave(w)
    PROVE  Story'
<1>1. /\ UNCHANGED <<told, history, audit, unsaved, seen, caller, rows, task, starts>>
      /\ at[w] = "running" /\ Goto(w, "none")
      /\ \/ phase[w] = "returning" /\ at'[w] = "returned"
         \/ phase[w] = "raising" /\ at'[w] = "raised"
      /\ \E e \in {"returned", "raised"} : at' = [at EXCEPT ![w] = e]
  BY DEF Leave, EndTask, InFunction, records
<1>2. /\ phase'[w] = "none"
      /\ \A v \in Workers : v # w => at'[v] = at[v] /\ phase'[v] = phase[v]
  BY <1>1 DEF Goto, PInv, Placement, TypeOK, Story, PTyped
<1>3. PTyped' /\ PhaseAgrees'
  <2>1. PTyped'
    BY <1>1 DEF Goto, PInv, Story, PTyped
  <2> QED BY <1>1, <1>2, <2>1 DEF PInv, Story, PhaseAgrees
<1>4. ASSUME NEW k \in Jobs PROVE JobStory(k)' /\ RequestStory(k)'
  BY <1>1 DEF PInv, Story, JobStory, RequestStory, Plausible, Blank, EndedWell,
              EndedBadly, InHistory, Stored, Lacks
<1>5. ASSUME NEW v \in Workers PROVE WorkerStory(v)'
  <2>1. CASE v = w
    BY <1>1, <1>2, <2>1 DEF PInv, Story, WorkerStory, EndedWell, EndedBadly, InHistory,
                            Stored, Lacks
  <2>2. CASE v # w
    BY <1>1, <1>2, <2>2
    DEF PInv, Story, WorkerStory, Blank, StoredOnly, EndedWell, EndedBadly, InHistory,
        Stored, Lacks
  <2> QED BY <2>1, <2>2
<1> QED BY <1>3, <1>4, <1>5 DEF Story

\* The final status is that of a function which stored its end.
LEMMA RecordKeeps ==
    ASSUME PInv, NEW w \in Workers, Record(w)
    PROVE  Story'
<1> DEFINE j == task[w]
<1>1. /\ UNCHANGED <<told, phase, history, audit, unsaved, seen, caller, starts>>
      /\ at[w] \in {"returned", "raised"} /\ Release(w)
  BY DEF Record, RecordOutcome, records
<1>2. PICK o \in DBOutcomes : FinalWrite(w, o)
  BY DEF Record, RecordOutcome
<1>3. j \in Jobs
  BY <1>1, WorkerHolds DEF PInv
<1>4. /\ at'[w] = "idle" /\ phase'[w] = "none"
      /\ \A v \in Workers : v # w => at'[v] = at[v] /\ task'[v] = task[v]
  BY <1>1 DEF Release, PInv, Placement, TypeOK, Story, PhaseAgrees
<1>5. /\ \A k \in Jobs : k # j => rows'[k] = rows[k]
      /\ rows'[j].status \in Final =>
           \/ rows'[j].status = rows[j].status
           \/ at[w] = "returned" /\ rows'[j].status = "COMPLETED"
           \/ at[w] = "raised" /\ rows'[j].status = "FAILED"
      /\ rows'[j].status # "ABSENT" \/ rows'[j] = rows[j]
  <2>1. CASE at[w] = "returned"
    <3>1. UpdateJobStatus(j, "COMPLETED", "text", "NULL", o)
      BY <1>2, <2>1 DEF FinalWrite
    <3>2. /\ \A k \in Jobs : k # j => rows'[k] = rows[k]
          /\ rows'[j] = IF Committed(o)
                        THEN [status |-> "COMPLETED", result |-> Coalesce("text", rows[j].result),
                              error |-> Coalesce("NULL", rows[j].error)]
                        ELSE rows[j]
      BY <1>3, <3>1, UpdateType DEF PInv, Placement
    <3> QED BY <2>1, <3>2
  <2>2. CASE at[w] = "raised"
    <3>1. UpdateJobStatus(j, "FAILED", "NULL", "text", o)
      BY <1>2, <2>2 DEF FinalWrite
    <3>2. /\ \A k \in Jobs : k # j => rows'[k] = rows[k]
          /\ rows'[j] = IF Committed(o)
                        THEN [status |-> "FAILED", result |-> Coalesce("NULL", rows[j].result),
                              error |-> Coalesce("text", rows[j].error)]
                        ELSE rows[j]
      BY <1>3, <3>1, UpdateType DEF PInv, Placement
    <3> QED BY <2>2, <3>2
  <2> QED BY <1>1, <2>1, <2>2
<1>6. PTyped' /\ PhaseAgrees'
  <2>1. PTyped'
    BY <1>1 DEF PInv, Story, PTyped
  <2> QED BY <1>1, <1>4, <2>1 DEF PInv, Story, PhaseAgrees
<1>7. ASSUME NEW k \in Jobs PROVE JobStory(k)' /\ RequestStory(k)'
  <2>1. RequestStory(k)'
    BY <1>1, <1>5 DEF PInv, Story, RequestStory, Lacks
  <2>2. /\ at[w] = "returned" => EndedWell(j)
        /\ at[w] = "raised" => EndedBadly(j)
        /\ JobStory(k)
    BY DEF PInv, Story, WorkerStory
  <2>3. /\ Plausible(k)' <=> Plausible(k)
        /\ Blank(k)' <=> Blank(k)
        /\ EndedWell(k)' <=> EndedWell(k)
        /\ EndedBadly(k)' <=> EndedBadly(k)
    BY <1>1 DEF Plausible, Blank, EndedWell, EndedBadly, InHistory, Stored, Lacks
  <2>4. /\ rows'[k].status = "COMPLETED" => EndedWell(k)
        /\ rows'[k].status = "FAILED" => EndedBadly(k)
    BY <1>5, <2>2 DEF JobStory, Final
  <2>5. JobStory(k)'
    BY <1>1, <2>2, <2>3, <2>4 DEF JobStory
  <2> QED BY <2>1, <2>5
<1>8. ASSUME NEW v \in Workers PROVE WorkerStory(v)'
  <2>1. CASE v = w
    BY <1>4, <2>1 DEF WorkerStory
  <2>2. CASE v # w
    BY <1>1, <1>4, <2>2
    DEF PInv, Story, WorkerStory, Blank, StoredOnly, EndedWell, EndedBadly, InHistory,
        Stored, Lacks
  <2> QED BY <2>1, <2>2
<1> QED BY <1>6, <1>7, <1>8 DEF Story

-------------------------------------------------------------------------------
(* The requests *)

\* A new job has no story.
LEMMA PostKeeps ==
    ASSUME PInv, NEW j \in Jobs, Post(j)
    PROVE  Story'
<1>1. /\ UNCHANGED <<phase, history, audit, unsaved, seen, at, task, starts>>
      /\ caller[j] = "new" /\ told' = [told EXCEPT ![j] = "waiting"]
  BY DEF Post, CreateJob, records
<1>2. PICK o \in DBOutcomes :
        /\ rows' = IF Committed(o) THEN [rows EXCEPT ![j] = NewRow] ELSE rows
        /\ caller' = [caller EXCEPT ![j] = Created(o)]
  BY DEF Post, CreateJob
<1>3. \A k \in Jobs : rows'[k].status \in Final \/ k # j => rows'[k] = rows[k]
  BY <1>2, RowColumns DEF PInv, Placement, TypeOK, Final
<1>4. caller'[j] \notin {"new", "returned"} /\ \A k \in Jobs : k # j => caller'[k] = caller[k]
  BY <1>2 DEF PInv, Placement, TypeOK, Created
<1>5. PTyped' /\ PhaseAgrees'
  BY <1>1 DEF PInv, Story, PTyped, PhaseAgrees
<1>6. ASSUME NEW k \in Jobs PROVE JobStory(k)'
  BY <1>1, <1>3 DEF PInv, Story, JobStory, Plausible, Blank, EndedWell, EndedBadly,
                    InHistory, Stored, Lacks, Final
<1>7. ASSUME NEW k \in Jobs PROVE RequestStory(k)'
  BY <1>1, <1>3, <1>4 DEF PInv, Story, PTyped, RequestStory, Lacks
<1>8. ASSUME NEW v \in Workers PROVE WorkerStory(v)'
  BY <1>1 DEF PInv, Story, WorkerStory, Blank, StoredOnly, EndedWell, EndedBadly,
              InHistory, Stored, Lacks
<1> QED BY <1>5, <1>6, <1>7, <1>8 DEF Story

\* The answer 202 comes after the audit row, or its refusal.
LEMMA AcceptKeeps ==
    ASSUME PInv, NEW j \in Jobs, Accept(j)
    PROVE  Story'
<1>1. /\ UNCHANGED <<phase, seen, at, task, starts, rows, caller>>
      /\ caller[j] = "returned" /\ told[j] = "waiting" /\ told' = [told EXCEPT ![j] = "202"]
  BY DEF Accept, vars
<1>2. PICK o \in DBOutcomes : SaveAuditLog(j, "scan_created", o)
  BY DEF Accept
<1>3. /\ history' \in [Jobs -> Nat] /\ audit' \in [Jobs -> SUBSET Events]
      /\ unsaved' \in [Jobs -> SUBSET (Events \cup {"history"})]
      /\ \A k \in Jobs : k # j => /\ history'[k] = history[k]
                                  /\ audit'[k] = audit[k]
                                  /\ unsaved'[k] = unsaved[k]
      /\ audit[j] \subseteq audit'[j] /\ unsaved[j] \subseteq unsaved'[j]
      /\ audit'[j] \subseteq audit[j] \cup {"scan_created"}
      /\ history'[j] = history[j]
      /\ "scan_created" \in audit'[j] \/ "scan_created" \in unsaved'[j]
  <2>1. "scan_created" \in Events /\ "scan_created" # "history" /\ PTyped
    BY DEF Events, PInv, Story
  <2> QED BY <1>2, <2>1, WriteEffect
<1>4. \A k \in Jobs : /\ history'[k] = history[k] /\ unsaved[k] \subseteq unsaved'[k]
                      /\ audit[k] \subseteq audit'[k]
                      /\ audit'[k] \subseteq audit[k] \cup {"scan_created"}
  BY <1>3
<1>5. PTyped' /\ PhaseAgrees'
  <2>1. PTyped'
    BY <1>1, <1>3 DEF PInv, Story, PTyped
  <2> QED BY <1>1, <2>1 DEF PInv, Story, PhaseAgrees
<1>6. ASSUME NEW k \in Jobs PROVE JobStory(k)'
  BY <1>1, <1>4 DEF PInv, Story, JobStory, Plausible, Blank, EndedWell, EndedBadly,
                    InHistory, Stored, Lacks
<1>7. ASSUME NEW k \in Jobs PROVE RequestStory(k)'
  BY <1>1, <1>3 DEF PInv, Story, PTyped, RequestStory, Lacks
<1>8. ASSUME NEW v \in Workers PROVE WorkerStory(v)'
  <2>1. CASE at[v] = "idle"
    BY <1>1, <2>1 DEF PInv, Story, PhaseAgrees, WorkerStory
  <2>2. CASE at[v] # "idle"
    <3>1. task[v] \in Jobs
      BY <2>2, WorkerHolds DEF PInv
    <3> QED
      BY <1>1, <1>4, <3>1
      DEF PInv, Story, WorkerStory, Blank, StoredOnly, EndedWell, EndedBadly, InHistory,
          Stored, Lacks
  <2> QED BY <2>1, <2>2
<1> QED BY <1>5, <1>6, <1>7, <1>8 DEF Story

\* Steps that change neither a table nor a worker.
LEMMA OtherKeeps ==
    ASSUME PInv, UNCHANGED <<phase, history, audit, unsaved, at, task, starts, rows>>,
           seen' \in [Jobs -> {"none", "PENDING", "RUNNING"} \cup Final],
           told' \in [Jobs -> {"none", "waiting", "202", "500", "nothing"}],
           \A k \in Jobs : RequestStory(k)'
    PROVE  Story'
BY DEF PInv, Story, PTyped, PhaseAgrees, JobStory, WorkerStory, Plausible, Blank, StoredOnly,
       EndedWell, EndedBadly, InHistory, Stored, Lacks

\* The job goes to the pool.
LEMMA EnqueueKeeps == ASSUME PInv, NEW j \in Jobs, Enqueue(j) PROVE Story'
<1>1. /\ UNCHANGED <<told, seen, phase, history, audit, unsaved, at, task, starts, rows>>
      /\ caller[j] = "inserted" /\ caller' = [caller EXCEPT ![j] = "returned"]
  BY DEF Enqueue, Schedule, Submitting, records
<1>2. rows[j].status # "ABSENT"
  BY <1>1, RowColumns DEF PInv, Progress, OutsideAgrees, Submitting
<1>3. ASSUME NEW k \in Jobs PROVE RequestStory(k)'
  BY <1>1, <1>2 DEF PInv, Placement, TypeOK, Story, RequestStory, Lacks
<1> QED BY <1>1, <1>3, OtherKeeps DEF PInv, Story, PTyped

\* The answer 500.
LEMMA RefuseKeeps == ASSUME PInv, NEW j \in Jobs, Refuse(j) PROVE Story'
<1>1. /\ UNCHANGED <<caller, seen, phase, history, audit, unsaved, at, task, starts, rows>>
      /\ caller[j] = "rejected" /\ told' = [told EXCEPT ![j] = "500"]
  BY DEF Refuse, vars, records
<1>2. ASSUME NEW k \in Jobs PROVE RequestStory(k)'
  BY <1>1 DEF PInv, Story, PTyped, RequestStory, Lacks
<1> QED BY <1>1, <1>2, OtherKeeps DEF PInv, Story, PTyped

\* A poll.
LEMMA PollKeeps == ASSUME PInv, NEW j \in Jobs, Poll(j) PROVE Story'
<1>1. UNCHANGED <<told, caller, phase, history, audit, unsaved, at, task, starts, rows>>
  BY DEF Poll, vars, records
<1>2. told[j] = "202" /\ caller[j] # "new"
  BY DEF Poll, PInv, Story, RequestStory
<1>3. seen' = seen \/ seen' = [seen EXCEPT ![j] = rows[j].status]
  BY DEF Poll, StatusRead
<1>4. rows[j].status \in {"PENDING", "RUNNING"} \cup Final
  <2>1. rows[j].status # "ABSENT"
    BY <1>2 DEF PInv, Story, RequestStory
  <2> QED BY <2>1 DEF PInv, Placement, TypeOK, Final
<1>5. seen' \in [Jobs -> {"none", "PENDING", "RUNNING"} \cup Final]
  BY <1>3, <1>4 DEF PInv, Story, PTyped
<1>6. ASSUME NEW k \in Jobs PROVE RequestStory(k)'
  BY <1>1 DEF PInv, Story, RequestStory, Lacks
<1> QED BY <1>1, <1>5, <1>6, OtherKeeps DEF PInv, Story, PTyped

\* A crash: no worker has a phase, no request an answer to come.
LEMMA DieKeeps == ASSUME PInv, Die PROVE Story'
<1>1. /\ UNCHANGED <<history, audit, unsaved, seen, starts, rows>>
      /\ caller' = [j \in Jobs |-> IF Submitting(j) THEN "died" ELSE caller[j]]
      /\ told' = [j \in Jobs |-> IF told[j] = "waiting" THEN "nothing" ELSE told[j]]
      /\ phase' = [w \in Workers |-> "none"] /\ at' = [w \in Workers |-> "idle"]
  BY DEF Die, Crash, records
<1>2. PTyped' /\ PhaseAgrees'
  BY <1>1 DEF PInv, Story, PTyped, PhaseAgrees
<1>3. ASSUME NEW k \in Jobs PROVE JobStory(k)'
  BY <1>1 DEF PInv, Story, JobStory, Plausible, Blank, EndedWell, EndedBadly, InHistory,
              Stored, Lacks
<1>4. ASSUME NEW k \in Jobs PROVE RequestStory(k)'
  BY <1>1 DEF PInv, Story, RequestStory, Lacks, Submitting
<1>5. ASSUME NEW v \in Workers PROVE WorkerStory(v)'
  BY <1>1 DEF WorkerStory
<1> QED BY <1>2, <1>3, <1>4, <1>5 DEF Story

-------------------------------------------------------------------------------
(* The invariant *)

\* Nothing was asked and nothing is stored.
LEMMA InitStory == PipelineInit => Story
<1> SUFFICES ASSUME PipelineInit PROVE Story
  OBVIOUS
<1> USE DEF PipelineInit, Init
<1>1. PTyped /\ PhaseAgrees
  BY DEF PTyped, PhaseAgrees
<1>2. ASSUME NEW j \in Jobs PROVE JobStory(j) /\ RequestStory(j)
  BY RowColumns DEF JobStory, RequestStory, Plausible, Blank, Stored
<1>3. ASSUME NEW w \in Workers PROVE WorkerStory(w)
  BY DEF WorkerStory
<1> QED BY <1>1, <1>2, <1>3 DEF Story

\* Every step of the pipeline keeps it.
LEMMA StoryStep == PInv /\ [PipelineNext]_pipelineVars => Story'
<1> SUFFICES ASSUME PInv, [PipelineNext]_pipelineVars PROVE Story'
  OBVIOUS
<1>1. ASSUME NEW j \in Jobs, Post(j) \/ RequestStep(j) \/ Poll(j) PROVE Story'
  BY <1>1, PostKeeps, EnqueueKeeps, AcceptKeeps, RefuseKeeps, PollKeeps DEF RequestStep
<1>2. ASSUME NEW w \in Workers, WorkerRuns(w) PROVE Story'
  BY <1>2, RunJobKeeps, CallToolKeeps, ToolEnds, StoreScanKeeps, AuditCompletedKeeps,
     AuditFailedKeeps, LeaveKeeps, RecordKeeps DEF WorkerRuns
<1>3. CASE Die
  BY <1>3, DieKeeps
<1>4. CASE UNCHANGED pipelineVars
  <2>1. UNCHANGED <<told, caller, seen, phase, history, audit, unsaved, at, task, starts, rows>>
    BY <1>4 DEF pipelineVars, vars, records
  <2>2. ASSUME NEW k \in Jobs PROVE RequestStory(k)'
    BY <2>1 DEF PInv, Story, RequestStory, Lacks
  <2> QED BY <2>1, <2>2, OtherKeeps DEF PInv, Story, PTyped
<1> QED BY <1>1, <1>2, <1>3, <1>4 DEF PipelineNext

\* At every step of a scan and of its request, the three tables hold what that step
\* has stored, or the database has refused it.
THEOREM StoryInvariant == PipelineSpec => []PInv
<1>1. PipelineInit => Story
  BY InitStory
<1>2. PipelineSpec => [](Placement /\ Progress)
  BY PipelineIsQueue, ProgressInvariant, PTL
<1>3. PInv /\ [PipelineNext]_pipelineVars => Story'
  BY StoryStep
<1> QED BY <1>1, <1>2, <1>3, PTL DEF PipelineSpec, PInv

\* The routes and the scan function keep their types; a scan has at most one history
\* row, although the statement that inserts it counts them.
THEOREM PipelineTypeCorrect == PipelineSpec => []PipelineTypeOK
<1>1. PInv => PipelineTypeOK
  <2> SUFFICES ASSUME PInv PROVE PipelineTypeOK
    OBVIOUS
  <2>1. \A j \in Jobs : history[j] \in 0..1
    BY DEF PInv, Story, JobStory, Plausible
  <2> QED BY <2>1 DEF PInv, Story, PTyped, PipelineTypeOK
<1> QED BY <1>1, StoryInvariant, PTL

\* The jobs table, the history and the audit log never contradict each other, whatever
\* the database refuses and whenever the process dies (_run_scan_and_persist).
THEOREM TablesAlwaysAgree == PipelineSpec => []TablesAgree
<1>1. PInv => TablesAgree
  BY DEF PInv, Story, JobStory, Plausible, EndedWell, EndedBadly, InHistory, TablesAgree
<1> QED BY <1>1, StoryInvariant, PTL

\* What is stored of a scan can be traced to the request that asked for it
\* (trigger_scan).
THEOREM ScansAlwaysOwned == PipelineSpec => []ScansAreOwned
<1>1. PInv => ScansAreOwned
  <2> SUFFICES ASSUME PInv, NEW j \in Jobs, history[j] > 0 \/ audit[j] # {}
               PROVE  ~Lacks(j, "scan_created") \/ told[j] \in {"waiting", "nothing"}
    BY DEF ScansAreOwned
  <2>1. caller[j] = "returned" /\ RequestStory(j)
    BY DEF PInv, Story, RequestStory
  <2> QED BY <2>1 DEF RequestStory, PInv, Story, PTyped
<1> QED BY <1>1, StoryInvariant, PTL
-------------------------------------------------------------------------------
(* What the client is shown.  The last status seen is the row's of now, or one the *)
(* row has gone beyond since; a status never comes back.                           *)

Seen(j) == /\ seen[j] # "none" => rows[j].status # "ABSENT"
           /\ seen[j] = "RUNNING" => rows[j].status \in {"RUNNING"} \cup Final
           /\ seen[j] \in Final => rows[j].status = seen[j]
SeenStory == \A j \in Jobs : Seen(j)

\* What a step of the queue may do to the status of one job.
Forward(j) == \/ rows'[j].status = rows[j].status
              \/ rows[j].status = "ABSENT" /\ rows'[j].status = "PENDING"
              \/ rows[j].status = "PENDING" /\ rows'[j].status = "RUNNING"
              \/ rows[j].status \in {"PENDING", "RUNNING"} /\ rows'[j].status \in Final

\* Every status goes forward: a move of JobService does, and no other step is one.
LEMMA StatusForward ==
    ASSUME Placement, Progress, [Next]_vars
    PROVE  \A j \in Jobs : Forward(j)
<1>1. CASE UNCHANGED vars
  BY <1>1 DEF vars, Forward
<1>2. CASE Next
  <2>1. CASE rows' = rows
    BY <2>1 DEF Forward
  <2>2. ASSUME NEW j \in Jobs,
               \A k \in Jobs : k # j => rows'[k] = rows[k],
               \/ Service!Accept(j) \/ Service!MarkRunning(j) \/ Service!Run(j)
               \/ Service!Complete(j) \/ Service!Fail(j)
        PROVE  \A k \in Jobs : Forward(k)
    <3> DEFINE was == rows[j].status
               is == rows'[j].status
    <3>1. ASSUME NEW from, NEW to, Service!Move(j, from, to) PROVE was \in from /\ is = to
      <4>1. /\ Status[j] \in from /\ Status' = [Status EXCEPT ![j] = to]
        BY <3>1 DEF Service!Move, Status
      <4>2. Status'[j] = to
        BY <4>1 DEF Status
      <4> QED BY <4>1, <4>2 DEF Status
    <3>2. Service!Run(j) => is = was
      <4>1. Service!Run(j) => Status' = Status
        BY DEF Service!Run, Status
      <4>2. Status[j] = was /\ Status'[j] = is
        BY DEF Status
      <4> QED BY <4>1, <4>2
    <3>3. Service!Accept(j) => was = "ABSENT" /\ is = "PENDING"
      BY <3>1 DEF Service!Accept
    <3>4. Service!MarkRunning(j) => was = "PENDING" /\ is = "RUNNING"
      BY <3>1 DEF Service!MarkRunning
    <3>5. Service!Complete(j) \/ Service!Fail(j)
            => was \in {"PENDING", "RUNNING"} /\ is \in Final
      BY <3>1 DEF Service!Complete, Service!Fail, Service!Unfinished, Final
    <3>6. Forward(j)
      BY <2>2, <3>2, <3>3, <3>4, <3>5 DEF Forward
    <3> QED BY <2>2, <3>6 DEF Forward
  <2> QED BY <1>2, <2>1, <2>2, OneJobMoves
<1> QED BY <1>1, <1>2

\* A poll shows the row as it is; every other step leaves the client's picture.
LEMMA OnlyPollsShow ==
    ASSUME [PipelineNext]_pipelineVars
    PROVE  \/ seen' = seen
           \/ rows' = rows /\ \E j \in Jobs : /\ told[j] = "202"
                                             /\ seen' = [seen EXCEPT ![j] = rows[j].status]
<1>1. ASSUME NEW j \in Jobs, Post(j) \/ RequestStep(j) PROVE seen' = seen
  BY <1>1 DEF Post, RequestStep, Enqueue, Accept, Refuse
<1>2. ASSUME NEW j \in Jobs, Poll(j)
      PROVE  seen' = seen \/ (/\ rows' = rows /\ told[j] = "202"
                              /\ seen' = [seen EXCEPT ![j] = rows[j].status])
  BY <1>2 DEF Poll, StatusRead, vars
<1>3. ASSUME NEW w \in Workers, WorkerRuns(w) PROVE seen' = seen
  BY <1>3 DEF WorkerRuns, RunJobStep, CallTool, ToolReturns, ToolRaises, StoreScan,
              AuditCompleted, AuditFailed, Leave, Record
<1>4. Die \/ UNCHANGED pipelineVars => seen' = seen
  BY DEF Die, pipelineVars
<1> QED BY <1>1, <1>2, <1>3, <1>4 DEF PipelineNext

\* What a client was shown stays true or is passed: the row only goes forward.
LEMMA SeenStep == PInv /\ SeenStory /\ [PipelineNext]_pipelineVars => SeenStory'
<1> SUFFICES ASSUME PInv, SeenStory, [PipelineNext]_pipelineVars, NEW j \in Jobs
             PROVE  Seen(j)'
  BY DEF SeenStory
<1>1. Seen(j) /\ Forward(j)
  BY StepIsQueueStep, StatusForward DEF PInv, SeenStory
<1>2. CASE seen' = seen
  <2>1. CASE seen[j] = "none" \/ seen[j] = "PENDING"
    BY <1>1, <1>2, <2>1 DEF Seen, Forward, Final
  <2>2. CASE seen[j] = "RUNNING"
    BY <1>1, <1>2, <2>2 DEF Seen, Forward, Final
  <2>3. CASE seen[j] \in Final
    BY <1>1, <1>2, <2>3 DEF Seen, Forward, Final
  <2> QED BY <2>1, <2>2, <2>3 DEF PInv, Story, PTyped
<1>3. ASSUME rows' = rows, NEW k \in Jobs, told[k] = "202",
             seen' = [seen EXCEPT ![k] = rows[k].status]
      PROVE  Seen(j)'
  <2>1. rows[k].status # "ABSENT"
    BY <1>3 DEF PInv, Story, RequestStory
  <2> QED BY <1>1, <1>3, <2>1 DEF Seen, Final, PInv, Story, PTyped
<1> QED BY <1>2, <1>3, OnlyPollsShow

\* No step shows a client an earlier status than it has seen; and the end it has seen is
\* in the audit log, or was refused there.
LEMMA PollsForward == PInv /\ SeenStory /\ [PipelineNext]_pipelineVars => PollAdvances
<1> SUFFICES ASSUME PInv, SeenStory, [PipelineNext]_pipelineVars, NEW j \in Jobs
             PROVE  /\ Rank(seen'[j]) >= Rank(seen[j])
                    /\ seen[j] \in Final => seen'[j] = seen[j]
                    /\ seen[j] = "COMPLETED" => ~Lacks(j, "scan_completed")
                    /\ seen[j] = "FAILED" => ~Lacks(j, "scan_failed")
  BY DEF PollAdvances
<1>1. Seen(j) /\ JobStory(j) /\ seen[j] \in {"none", "PENDING", "RUNNING"} \cup Final
  BY DEF PInv, SeenStory, Story, PTyped
<1>2. /\ seen[j] = "COMPLETED" => ~Lacks(j, "scan_completed")
      /\ seen[j] = "FAILED" => ~Lacks(j, "scan_failed")
  BY <1>1 DEF Seen, JobStory, EndedWell, EndedBadly, Final
<1>3. seen'[j] = seen[j] \/ (seen'[j] = rows[j].status /\ rows[j].status # "ABSENT")
  BY OnlyPollsShow DEF PInv, Story, PTyped, RequestStory
<1>4. CASE seen'[j] = seen[j]
  BY <1>1, <1>2, <1>4 DEF Rank, Final
<1>5. CASE seen'[j] = rows[j].status /\ rows[j].status # "ABSENT"
  <2>1. rows[j].status \in {"PENDING", "RUNNING"} \cup Final
    BY <1>5 DEF PInv, Placement, TypeOK, Final
  <2>2. seen[j] \in Final => seen'[j] = seen[j]
    BY <1>1, <1>5 DEF Seen
  <2>3. Rank(seen'[j]) >= Rank(seen[j])
    BY <1>1, <1>5, <2>1 DEF Seen, Rank, Final
  <2> QED BY <1>2, <2>2, <2>3
<1> QED BY <1>3, <1>4, <1>5

\* A client's picture of a job only moves forward, and it never shows an end the audit
\* log knows nothing of, in whatever order threads, polls and refusals come
\* (scan_job_status, _run_scan_and_persist).
THEOREM PollsOnlyAdvance == PipelineSpec => PollsAdvance
<1>1. PipelineInit => SeenStory
  BY DEF PipelineInit, SeenStory, Seen, Final
<1>2. PipelineSpec => []SeenStory
  BY <1>1, SeenStep, StoryInvariant, PTL DEF PipelineSpec
<1> QED BY <1>2, PollsForward, StoryInvariant, PTL DEF PipelineSpec, PollsAdvance
===============================================================================
