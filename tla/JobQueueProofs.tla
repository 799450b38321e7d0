---------------------------- MODULE JobQueueProofs ----------------------------
(***************************************************************************)
(* Proofs about JobQueue, for any jobs, any pool and any set of faults.    *)
(* First the types; then Placement, where jobs are; then Progress, how the *)
(* row, the call counter and the outcome of a job agree with the place it  *)
(* is in.  The safety properties of JobQueue follow from the three, and so *)
(* does its refinement of JobService.                                      *)
(***************************************************************************)
EXTENDS JobQueue, QueueFacts

\* A worker has a job exactly when it is not idle.
IdleIsFree == \A w \in Workers : at[w] = "idle" <=> task[w] = NoJob

Placement == TypeOK /\ IdleIsFree /\ SinglePlace

-------------------------------------------------------------------------------
\* Every database call ends in one of three ways.
LEMMA OutcomeKinds == \A o \in DBOutcomes : o \in {"ok", "refused", "lostAck"}
BY DEF DBOutcomes

\* A row written by update_job_status has the columns of the jobs table.
LEMMA UpdateType ==
    ASSUME TypeOK, NEW j \in Jobs, NEW o \in DBOutcomes,
           NEW s \in {"RUNNING", "COMPLETED", "FAILED"},
           NEW r \in {"NULL", "text"}, NEW e \in {"NULL", "text"},
           UpdateJobStatus(j, s, r, e, o)
    PROVE  /\ rows' \in [Jobs -> [status : {"ABSENT", "PENDING", "RUNNING", "COMPLETED", "FAILED"},
                                  result : {"NULL", "text"}, error : {"NULL", "text"}]]
           /\ \A k \in Jobs : k # j => rows'[k] = rows[k]
           /\ rows'[j] = IF Committed(o)
                         THEN [status |-> s, result |-> Coalesce(r, rows[j].result),
                               error |-> Coalesce(e, rows[j].error)]
                         ELSE rows[j]
BY DEF UpdateJobStatus, TypeOK, Coalesce

\* The types are kept, and so is the place of every job.
LEMMA PlacementInit == Init => Placement
<1> SUFFICES ASSUME Init PROVE Placement
  OBVIOUS
<1> USE DEF Init
<1>1. TypeOK
  BY DEF TypeOK, NoRow
<1>2. IdleIsFree
  BY DEF IdleIsFree
<1>3. SinglePlace
  BY JobQueueAssumption DEF SinglePlace, Queued, Working, Contains, IsInjective
<1>4. QED BY <1>1, <1>2, <1>3 DEF Placement

\* Every step keeps the types and leaves each job in one place.
LEMMA PlacementStep == Placement /\ [Next]_vars => Placement'
<1> SUFFICES ASSUME Placement, [Next]_vars PROVE Placement'
  OBVIOUS
<1> USE JobQueueAssumption DEF Placement
<1>1. ASSUME NEW j \in Jobs, CreateJob(j) PROVE Placement'
  <2>1. TypeOK'
    BY <1>1 DEF CreateJob, TypeOK, Created, NewRow, NoRow
  <2>2. QED
    BY <1>1, <2>1 DEF CreateJob, TypeOK, IdleIsFree, SinglePlace, Queued, Working, Created
<1>2. ASSUME NEW j \in Jobs, Schedule(j) PROVE Placement'
  <2>1. ~Queued(j) /\ ~Working(j)
    BY <1>2 DEF Schedule, Submitting, SinglePlace
  <2>2. queue \in Seq(Jobs) /\ queue' = Append(queue, j) /\ task' = task
    BY <1>2 DEF Schedule, TypeOK
  <2>3. IsInjective(queue')
    BY <2>1, <2>2, AppendNoRepeats DEF SinglePlace, Queued
  <2>4. queue' \in Seq(Jobs) /\ \A k : Contains(queue', k) <=> Contains(queue, k) \/ k = j
    BY <2>2, AppendHas
  <2>5. TypeOK'
    BY <1>2, <2>4 DEF Schedule, TypeOK
  <2>6. SinglePlace'
    BY <1>2, <2>1, <2>2, <2>3, <2>4 DEF Schedule, TypeOK, SinglePlace, Queued, Working
  <2>7. QED BY <1>2, <2>5, <2>6 DEF Schedule, IdleIsFree
<1>3. ASSUME NEW w \in Workers, Take(w) PROVE Placement'
  <2> DEFINE j == Head(queue)
  <2>1. queue \in Seq(Jobs) /\ queue # << >> /\ queue' = Tail(queue)
    BY <1>3 DEF Take, Dequeue, TypeOK
  <2>2. /\ j \in Jobs /\ Contains(queue, j)
        /\ queue' \in Seq(Jobs) /\ IsInjective(queue')
        /\ \A k : Contains(queue', k) <=> Contains(queue, k) /\ k # j
    BY <2>1, TailHas DEF SinglePlace
  <2>3. ~Working(j) /\ caller[j] = "returned"
    BY <2>2 DEF SinglePlace, Queued
  <2>4. TypeOK'
    BY <1>3, <2>2 DEF Take, TypeOK
  <2>5. IdleIsFree'
    BY <1>3, <2>2 DEF Take, TypeOK, IdleIsFree
  <2>6. \A v \in Workers : task'[v] = IF v = w THEN j ELSE task[v]
    BY <1>3 DEF Take, TypeOK
  <2>7. SinglePlace'
    BY <1>3, <2>2, <2>3, <2>6 DEF Take, SinglePlace, Queued, Working
  <2>8. QED BY <2>4, <2>5, <2>7
<1>4. ASSUME NEW w \in Workers, MarkRunning(w) PROVE Placement'
  <2>1. task[w] \in Jobs
    BY <1>4 DEF MarkRunning, TypeOK, IdleIsFree
  <2>2. PICK o \in DBOutcomes : /\ UpdateJobStatus(task[w], "RUNNING", "NULL", "NULL", o)
                                /\ unmarked' = IF Committed(o) THEN unmarked
                                               ELSE unmarked \cup {task[w]}
    BY <1>4 DEF MarkRunning
  <2>3. TypeOK'
    BY <1>4, <2>1, <2>2, UpdateType DEF MarkRunning, TypeOK
  <2>4. QED
    BY <1>4, <2>3 DEF MarkRunning, TypeOK, IdleIsFree, SinglePlace, Queued, Working
<1>5. ASSUME NEW w \in Workers, StartTask(w) PROVE Placement'
  BY <1>5 DEF StartTask, TypeOK, IdleIsFree, SinglePlace, Queued, Working
<1>6. ASSUME NEW w \in Workers, EndTask(w) PROVE Placement'
  BY <1>6 DEF EndTask, TypeOK, IdleIsFree, SinglePlace, Queued, Working
<1>7. ASSUME NEW w \in Workers, RecordOutcome(w) PROVE Placement'
  <2>1. task[w] \in Jobs
    BY <1>7 DEF RecordOutcome, TypeOK, IdleIsFree
  <2>2. PICK o \in DBOutcomes : /\ FinalWrite(w, o)
                                /\ lost' = IF Committed(o) THEN lost ELSE lost \cup {task[w]}
    BY <1>7 DEF RecordOutcome
  <2>3. rows' \in [Jobs -> [status : {"ABSENT", "PENDING", "RUNNING", "COMPLETED", "FAILED"},
                            result : {"NULL", "text"}, error : {"NULL", "text"}]]
    BY <2>1, <2>2, UpdateType DEF FinalWrite
  <2>4. TypeOK'
    BY <1>7, <2>1, <2>2, <2>3 DEF RecordOutcome, Release, TypeOK
  <2>5. QED
    BY <1>7, <2>4 DEF RecordOutcome, Release, TypeOK, IdleIsFree, SinglePlace, Queued, Working
<1>8. ASSUME Crash PROVE Placement'
  <2>1. TypeOK'
    BY <1>8 DEF Crash, TypeOK, Submitting
  <2>2. QED
    BY <1>8, <2>1 DEF Crash, IdleIsFree, SinglePlace, Queued, Working, Contains, IsInjective
<1>9. ASSUME UNCHANGED vars PROVE Placement'
  BY <1>9 DEF vars, TypeOK, IdleIsFree, SinglePlace, Queued, Working
<1>10. QED
  BY <1>1, <1>2, <1>3, <1>4, <1>5, <1>6, <1>7, <1>8, <1>9 DEF Next, WorkerStep

\* In every reachable state the types hold and each job is in one place.
THEOREM PlacementInvariant == Spec => []Placement
BY PlacementInit, PlacementStep, PTL DEF Spec

\* The variables keep their types: the jobs table, the pool, the ghosts.
THEOREM TypeCorrect == Spec => []TypeOK
BY PlacementInvariant, PTL DEF Placement

\* Every job is in one place: no two threads of the pool ever hold the same job,
\* and only a job whose submit() returned is in the pool.
THEOREM JobsInOnePlace == Spec => []SinglePlace
BY PlacementInvariant, PTL DEF Placement
-------------------------------------------------------------------------------
RunningRow == [NoRow EXCEPT !.status = "RUNNING"]

\* The rows of unfinished jobs, column by column.
LEMMA RowColumns ==
    /\ NoRow = [status |-> "ABSENT", result |-> "NULL", error |-> "NULL"]
    /\ NewRow = [status |-> "PENDING", result |-> "NULL", error |-> "NULL"]
    /\ RunningRow = [status |-> "RUNNING", result |-> "NULL", error |-> "NULL"]
BY DEF NoRow, NewRow, RunningRow

\* A job the pool does not know was never called, and its row is as inserted.
OutsideAgrees ==
    \A j \in Jobs :
      /\ caller[j] = "new" => rows[j] = NoRow
      /\ caller[j] # "returned" => starts[j] = 0 /\ rows[j] \in {NoRow, NewRow}
      /\ Submitting(j) \/ Queued(j) => starts[j] = 0 /\ rows[j] = NewRow

\* The row, the counter and the outcome of the job worker w is busy with.
WorkerAgrees ==
    \A w \in Workers : at[w] # "idle" =>
      /\ rows[task[w]] \in {NewRow, RunningRow}
      /\ at[w] = "taken" => rows[task[w]] = NewRow
      /\ at[w] # "taken" /\ rows[task[w]] = NewRow => task[w] \in unmarked
      /\ starts[task[w]] = IF at[w] \in {"taken", "marked"} THEN 0 ELSE 1
      /\ at[w] \in {"returned", "raised"} => outcome[task[w]] = at[w]

\* A lost job has no holder, and was in the pool or about to be handed to it.
LostIsFree == \A j \in lost : ~Held(j) /\ caller[j] \in {"returned", "died"}

\* A job is called once, and only when its submit() returned.
CalledOnce == \A j \in Jobs : /\ starts[j] <= 1
                              /\ starts[j] = 1 => caller[j] = "returned"

Progress == /\ OutsideAgrees /\ WorkerAgrees /\ LostIsFree
            /\ CalledOnce /\ NoSilentLoss /\ TruthfulRow /\ RecoveryRepeatsNothing

\* Initially nothing ran, and every record is that of a job nobody submitted.
LEMMA ProgressInit == Init => Progress
<1> SUFFICES ASSUME Init PROVE Progress
  OBVIOUS
<1> USE DEF Init
<1>1. OutsideAgrees
  BY DEF OutsideAgrees, Submitting, Queued, Contains
<1>2. WorkerAgrees /\ LostIsFree /\ CalledOnce
  BY DEF WorkerAgrees, LostIsFree, CalledOnce
<1>3. NoSilentLoss /\ TruthfulRow /\ RecoveryRepeatsNothing
  BY DEF NoSilentLoss, TruthfulRow, RecoveryRepeatsNothing, Unfinished, GetResult, NoRow, ListPending
<1>4. QED BY <1>1, <1>2, <1>3 DEF Progress

\* Every step keeps records, counters and holders in agreement.
LEMMA ProgressStep == Placement /\ Progress /\ [Next]_vars => Progress'
<1> SUFFICES ASSUME Placement, Progress, [Next]_vars PROVE Progress'
  OBVIOUS
<1>0. TypeOK /\ IdleIsFree /\ SinglePlace
  BY DEF Placement
<1> USE JobQueueAssumption, <1>0 DEF Progress
<1>1. ASSUME NEW j \in Jobs, CreateJob(j) PROVE Progress'
  <2>1. PICK o \in DBOutcomes :
          /\ rows' = IF Committed(o) THEN [rows EXCEPT ![j] = NewRow] ELSE rows
          /\ caller' = [caller EXCEPT ![j] = Created(o)]
    BY <1>1 DEF CreateJob
  <2>2. Acked(o) => Committed(o)
    BY DEF Acked, Committed
  <2>3. ~Queued(j) /\ ~Working(j) /\ j \notin lost
    BY <1>1 DEF CreateJob, SinglePlace, LostIsFree
  <2>4. OutsideAgrees'
    BY <1>1, <2>1, <2>2, <2>3 DEF CreateJob, Created, OutsideAgrees, Submitting, Queued, TypeOK
  <2>5. WorkerAgrees'
    BY <1>1, <2>1, <2>3 DEF CreateJob, WorkerAgrees, Working, IdleIsFree, TypeOK
  <2>6. LostIsFree' /\ CalledOnce'
    BY <1>1, <2>1, <2>3 DEF CreateJob, Created, LostIsFree, CalledOnce, Held, Submitting, Queued, Working, TypeOK
  <2>7. NoSilentLoss'
    BY <1>1, <2>1, <2>2, <2>3 DEF CreateJob, Created, NoSilentLoss, Unfinished, Held, Submitting, Queued, Working, TypeOK
  <2>8. TruthfulRow' /\ RecoveryRepeatsNothing'
    BY <1>1, <2>1 DEF CreateJob, TruthfulRow, RecoveryRepeatsNothing, OutsideAgrees, GetResult, NoRow, NewRow, ListPending, TypeOK
  <2>9. QED BY <2>4, <2>5, <2>6, <2>7, <2>8
<1>2. ASSUME NEW j \in Jobs, Schedule(j) PROVE Progress'
  <2>1. \A k : Contains(queue', k) <=> Contains(queue, k) \/ k = j
    BY <1>2, AppendHas DEF Schedule, TypeOK
  <2>2. OutsideAgrees'
    BY <1>2, <2>1 DEF Schedule, OutsideAgrees, Submitting, Queued, TypeOK
  <2>3. WorkerAgrees'
    BY <1>2 DEF Schedule, WorkerAgrees
  <2>4. LostIsFree' /\ CalledOnce'
    BY <1>2, <2>1 DEF Schedule, LostIsFree, CalledOnce, OutsideAgrees, Held, Submitting, Queued, Working, TypeOK
  <2>5. NoSilentLoss'
    BY <1>2, <2>1 DEF Schedule, NoSilentLoss, Unfinished, Held, Submitting, Queued, Working, TypeOK
  <2>6. TruthfulRow' /\ RecoveryRepeatsNothing'
    BY <1>2 DEF Schedule, TruthfulRow, RecoveryRepeatsNothing, GetResult, ListPending
  <2>7. QED BY <2>2, <2>3, <2>4, <2>5, <2>6
<1>3. ASSUME NEW w \in Workers, Take(w) PROVE Progress'
  <2> DEFINE j == Head(queue)
  <2>1. /\ j \in Jobs /\ Contains(queue, j)
        /\ \A k : Contains(queue', k) <=> Contains(queue, k) /\ k # j
    BY <1>3, TailHas DEF Take, Dequeue, TypeOK, SinglePlace
  <2>2. \A v \in Workers : task'[v] = IF v = w THEN j ELSE task[v]
    BY <1>3 DEF Take, TypeOK
  <2>3. \A v \in Workers : at'[v] = IF v = w THEN "taken" ELSE at[v]
    BY <1>3 DEF Take, TypeOK
  <2>4. \A k \in Jobs : Working(k)' <=> Working(k) \/ k = j
    BY <1>3, <2>2 DEF Working, Take, IdleIsFree
  <2>5. OutsideAgrees'
    BY <1>3, <2>1 DEF Take, OutsideAgrees, Submitting, Queued
  <2>6. WorkerAgrees'
    BY <1>3, <2>1, <2>2, <2>3 DEF Take, WorkerAgrees, OutsideAgrees, Queued
  <2>7. j \notin lost
    BY <2>1 DEF LostIsFree, Held, Queued
  <2>8. LostIsFree' /\ CalledOnce'
    BY <1>3, <2>1, <2>4, <2>7 DEF Take, LostIsFree, CalledOnce, Held, Submitting, Queued, TypeOK
  <2>9. NoSilentLoss'
    BY <1>3, <2>1, <2>4 DEF Take, NoSilentLoss, Unfinished, Held, Submitting, Queued
  <2>10. TruthfulRow' /\ RecoveryRepeatsNothing'
    BY <1>3 DEF Take, TruthfulRow, RecoveryRepeatsNothing, GetResult, ListPending
  <2>11. QED BY <2>5, <2>6, <2>8, <2>9, <2>10
<1>4. ASSUME NEW w \in Workers, MarkRunning(w) PROVE Progress'
  <2> DEFINE j == task[w]
  <2>1. /\ j \in Jobs /\ rows[j] = NewRow /\ starts[j] = 0 /\ caller[j] = "returned"
        /\ ~Queued(j) /\ \A v \in Workers : v # w => task[v] # j
    BY <1>4 DEF MarkRunning, TypeOK, IdleIsFree, WorkerAgrees, SinglePlace, Working
  <2>2. PICK o \in DBOutcomes : /\ UpdateJobStatus(j, "RUNNING", "NULL", "NULL", o)
                                /\ unmarked' = IF Committed(o) THEN unmarked
                                               ELSE unmarked \cup {j}
    BY <1>4 DEF MarkRunning
  <2>3. /\ \A k \in Jobs : k # j => rows'[k] = rows[k]
        /\ rows'[j] = IF Committed(o) THEN RunningRow ELSE NewRow
    <3>1. rows[j].result = "NULL" /\ rows[j].error = "NULL"
      BY <2>1, RowColumns
    <3>2. /\ \A k \in Jobs : k # j => rows'[k] = rows[k]
          /\ rows'[j] = IF Committed(o)
                        THEN [status |-> "RUNNING", result |-> Coalesce("NULL", rows[j].result),
                              error |-> Coalesce("NULL", rows[j].error)]
                        ELSE rows[j]
      BY <2>1, <2>2, UpdateType
    <3>3. QED BY <2>1, <3>1, <3>2, RowColumns DEF Coalesce
  <2>4. \A v \in Workers : at'[v] = IF v = w THEN "marked" ELSE at[v]
    BY <1>4 DEF MarkRunning, TypeOK
  <2>5. OutsideAgrees'
    BY <1>4, <2>1, <2>3 DEF MarkRunning, OutsideAgrees, Submitting, Queued
  <2>6. NewRow # RunningRow /\ NewRow.status = "PENDING" /\ RunningRow.status = "RUNNING"
    BY DEF NewRow, NoRow, RunningRow
  <2>7. WorkerAgrees'
    BY <1>4, <2>1, <2>2, <2>3, <2>4, <2>6 DEF MarkRunning, WorkerAgrees, TypeOK, IdleIsFree
  <2>8. LostIsFree' /\ CalledOnce'
    BY <1>4 DEF MarkRunning, LostIsFree, CalledOnce, Held, Submitting, Queued, Working
  <2>9. NoSilentLoss'
    BY <1>4, <2>1, <2>3 DEF MarkRunning, NoSilentLoss, Unfinished, Held, Submitting, Queued, Working
  <2>10. TruthfulRow'
    BY <1>4, <2>1, <2>3, RowColumns DEF MarkRunning, TruthfulRow, GetResult
  <2>11. RecoveryRepeatsNothing'
    BY <1>4, <2>1, <2>2, <2>3 DEF MarkRunning, RecoveryRepeatsNothing, ListPending
  <2>12. QED BY <2>5, <2>7, <2>8, <2>9, <2>10, <2>11
<1>5. ASSUME NEW w \in Workers, StartTask(w) PROVE Progress'
  <2> DEFINE j == task[w]
  <2>1. /\ j \in Jobs /\ starts[j] = 0 /\ caller[j] = "returned"
        /\ rows[j] \in {NewRow, RunningRow} /\ (rows[j] = NewRow => j \in unmarked)
        /\ ~Queued(j) /\ \A v \in Workers : v # w => task[v] # j
    BY <1>5 DEF StartTask, TypeOK, IdleIsFree, WorkerAgrees, SinglePlace, Working
  <2>2. /\ \A k \in Jobs : starts'[k] = IF k = j THEN 1 ELSE starts[k]
        /\ \A v \in Workers : at'[v] = IF v = w THEN "running" ELSE at[v]
    BY <1>5, <2>1 DEF StartTask, TypeOK
  <2>3. OutsideAgrees'
    BY <1>5, <2>1, <2>2 DEF StartTask, OutsideAgrees, Submitting, Queued
  <2>4. WorkerAgrees'
    BY <1>5, <2>1, <2>2 DEF StartTask, WorkerAgrees, TypeOK, IdleIsFree
  <2>5. LostIsFree' /\ CalledOnce'
    BY <1>5, <2>1, <2>2 DEF StartTask, LostIsFree, CalledOnce, Held, Submitting, Queued, Working
  <2>6. NoSilentLoss' /\ TruthfulRow'
    BY <1>5 DEF StartTask, NoSilentLoss, TruthfulRow, Unfinished, GetResult,
                Held, Submitting, Queued, Working
  <2>7. RecoveryRepeatsNothing'
    BY <1>5, <2>1, <2>2 DEF StartTask, RecoveryRepeatsNothing, ListPending, NewRow, NoRow, RunningRow
  <2>8. QED BY <2>3, <2>4, <2>5, <2>6, <2>7
<1>6. ASSUME NEW w \in Workers, EndTask(w) PROVE Progress'
  <2> DEFINE j == task[w]
  <2>1. /\ j \in Jobs /\ rows[j] \in {NewRow, RunningRow}
        /\ \A v \in Workers : v # w => task[v] # j
    BY <1>6 DEF EndTask, TypeOK, IdleIsFree, WorkerAgrees, SinglePlace
  <2>2. PICK e \in {"returned", "raised"} :
          /\ \A k \in Jobs : outcome'[k] = IF k = j THEN e ELSE outcome[k]
          /\ \A v \in Workers : at'[v] = IF v = w THEN e ELSE at[v]
    BY <1>6, <2>1 DEF EndTask, TypeOK
  <2>3. WorkerAgrees'
    BY <1>6, <2>1, <2>2 DEF EndTask, WorkerAgrees, TypeOK, IdleIsFree
  <2>4. OutsideAgrees' /\ LostIsFree' /\ CalledOnce' /\ NoSilentLoss'
    BY <1>6 DEF EndTask, OutsideAgrees, LostIsFree, CalledOnce, NoSilentLoss, Unfinished,
                Held, Submitting, Queued, Working
  <2>5. TruthfulRow' /\ RecoveryRepeatsNothing'
    BY <1>6, <2>1, <2>2 DEF EndTask, TruthfulRow, RecoveryRepeatsNothing, GetResult, ListPending,
                            NewRow, NoRow, RunningRow
  <2>6. QED BY <2>3, <2>4, <2>5
<1>7. ASSUME NEW w \in Workers, RecordOutcome(w) PROVE Progress'
  <2> DEFINE j == task[w]
  <2>1. /\ j \in Jobs /\ starts[j] = 1 /\ caller[j] = "returned" /\ outcome[j] = at[w]
        /\ rows[j] \in {NewRow, RunningRow} /\ (rows[j] = NewRow => j \in unmarked)
        /\ ~Queued(j) /\ \A v \in Workers : v # w => task[v] # j
    BY <1>7 DEF RecordOutcome, TypeOK, IdleIsFree, WorkerAgrees, SinglePlace, Working
  <2>2. PICK o \in DBOutcomes : /\ FinalWrite(w, o)
                                /\ lost' = IF Committed(o) THEN lost ELSE lost \cup {j}
    BY <1>7 DEF RecordOutcome
  <2>3. /\ \A k \in Jobs : k # j => rows'[k] = rows[k]
        /\ ~Committed(o) => rows'[j] = rows[j]
        /\ Committed(o) => rows'[j] = IF at[w] = "returned"
                          THEN [status |-> "COMPLETED", result |-> "text", error |-> "NULL"]
                          ELSE [status |-> "FAILED", result |-> "NULL", error |-> "text"]
    <3>1. rows[j].result = "NULL" /\ rows[j].error = "NULL"
      BY <2>1, RowColumns
    <3>2. CASE at[w] = "returned"
      <4>1. UpdateJobStatus(j, "COMPLETED", "text", "NULL", o)
        BY <2>2, <3>2 DEF FinalWrite
      <4>2. /\ \A k \in Jobs : k # j => rows'[k] = rows[k]
            /\ rows'[j] = IF Committed(o)
                          THEN [status |-> "COMPLETED", result |-> Coalesce("text", rows[j].result),
                                error |-> Coalesce("NULL", rows[j].error)]
                          ELSE rows[j]
        BY <2>1, <4>1, UpdateType
      <4>3. QED BY <3>1, <3>2, <4>2 DEF Coalesce
    <3>3. CASE at[w] # "returned"
      <4>1. UpdateJobStatus(j, "FAILED", "NULL", "text", o)
        BY <2>2, <3>3 DEF FinalWrite
      <4>2. /\ \A k \in Jobs : k # j => rows'[k] = rows[k]
            /\ rows'[j] = IF Committed(o)
                          THEN [status |-> "FAILED", result |-> Coalesce("NULL", rows[j].result),
                                error |-> Coalesce("text", rows[j].error)]
                          ELSE rows[j]
        BY <2>1, <4>1, UpdateType
      <4>3. QED BY <3>1, <3>3, <4>2 DEF Coalesce
    <3>4. QED BY <3>2, <3>3
  <2>4. \A v \in Workers : /\ at'[v] = IF v = w THEN "idle" ELSE at[v]
                           /\ task'[v] = IF v = w THEN NoJob ELSE task[v]
    BY <1>7 DEF RecordOutcome, Release, TypeOK
  <2>5. \A k \in Jobs : Working(k)' <=> Working(k) /\ k # j
    BY <1>7, <2>1, <2>4 DEF Working
  <2>6. OutsideAgrees'
    BY <1>7, <2>1, <2>3 DEF RecordOutcome, OutsideAgrees, Submitting, Queued
  <2>7. WorkerAgrees'
    BY <1>7, <2>1, <2>3, <2>4 DEF RecordOutcome, WorkerAgrees, TypeOK, IdleIsFree
  <2>8. LostIsFree' /\ CalledOnce'
    BY <1>7, <2>1, <2>2, <2>5 DEF RecordOutcome, LostIsFree, CalledOnce,
                                         Held, Submitting, Queued, TypeOK
  <2>9. NoSilentLoss'
    BY <1>7, <2>1, <2>2, <2>3, <2>5 DEF RecordOutcome, NoSilentLoss, Unfinished, Held, Submitting, Queued
  <2>10. TruthfulRow'
    BY <1>7, <2>1, <2>3, RowColumns DEF RecordOutcome, TruthfulRow, GetResult
  <2>11. RecoveryRepeatsNothing'
    BY <1>7, <2>1, <2>3, RowColumns DEF RecordOutcome, RecoveryRepeatsNothing, ListPending
  <2>12. QED BY <2>6, <2>7, <2>8, <2>9, <2>10, <2>11
<1>8. ASSUME Crash PROVE Progress'
  <2>1. /\ \A k \in Jobs : ~Queued(k)' /\ ~Working(k)' /\ ~Submitting(k)'
        /\ \A v \in Workers : at'[v] = "idle"
        /\ \A k \in Jobs : caller'[k] = IF Submitting(k) THEN "died" ELSE caller[k]
    BY <1>8 DEF Crash, Queued, Working, Submitting, Contains, TypeOK
  <2>2. OutsideAgrees'
    BY <1>8, <2>1 DEF Crash, OutsideAgrees, Submitting, TypeOK
  <2>3. WorkerAgrees'
    BY <2>1 DEF WorkerAgrees
  <2>4. LostIsFree'
    BY <1>8, <2>1 DEF Crash, LostIsFree, Held, Submitting, SinglePlace, TypeOK
  <2>5. CalledOnce' /\ NoSilentLoss'
    BY <1>8, <2>1 DEF Crash, CalledOnce, NoSilentLoss, Unfinished, Held, Submitting, TypeOK
  <2>6. TruthfulRow' /\ RecoveryRepeatsNothing'
    BY <1>8 DEF Crash, TruthfulRow, RecoveryRepeatsNothing, GetResult, ListPending
  <2>7. QED BY <2>2, <2>3, <2>4, <2>5, <2>6
<1>9. ASSUME UNCHANGED vars PROVE Progress'
  BY <1>9 DEF vars, OutsideAgrees, WorkerAgrees, LostIsFree, CalledOnce, NoSilentLoss, TruthfulRow,
              RecoveryRepeatsNothing, Unfinished, GetResult, ListPending,
              Held, Submitting, Queued, Working
<1>10. QED
  BY <1>1, <1>2, <1>3, <1>4, <1>5, <1>6, <1>7, <1>8, <1>9 DEF Next, WorkerStep

\* In every reachable state the record of a job agrees with where its holder stands.
THEOREM ProgressInvariant == Spec => [](Placement /\ Progress)
BY PlacementInvariant, ProgressInit, ProgressStep, PTL DEF Spec

\* A job that was called has a row.
RowKept == \A j \in Jobs : starts[j] = 1 => rows[j].status # "ABSENT"

\* A started job's row stays in the table: no statement deletes it.
LEMMA RowKeptStep == Placement /\ Progress /\ RowKept /\ [Next]_vars => RowKept'
<1> SUFFICES ASSUME Placement, Progress, RowKept, [Next]_vars PROVE RowKept'
  OBVIOUS
<1>1. TypeOK
  BY DEF Placement
<1>2. ASSUME UNCHANGED starts,
             \A j \in Jobs : rows'[j] = rows[j] \/ rows'[j].status # "ABSENT"
      PROVE  RowKept'
  BY <1>2 DEF RowKept
<1>3. ASSUME NEW j \in Jobs, NEW s \in {"RUNNING", "COMPLETED", "FAILED"},
             NEW r \in {"NULL", "text"}, NEW e \in {"NULL", "text"}, NEW o \in DBOutcomes,
             UpdateJobStatus(j, s, r, e, o)
      PROVE  \A k \in Jobs : rows'[k] = rows[k] \/ rows'[k].status # "ABSENT"
  <2>1. CASE Committed(o)
    <3>1. \A k \in Jobs : k # j => rows'[k] = rows[k]
      BY <1>1, <1>3, <2>1 DEF UpdateJobStatus, TypeOK
    <3>2. rows'[j].status = s
      BY <1>1, <1>3, <2>1 DEF UpdateJobStatus, TypeOK
    <3>3. QED BY <1>3, <3>1, <3>2
  <2>2. CASE ~Committed(o)
    BY <1>3, <2>2 DEF UpdateJobStatus
  <2>3. QED BY <2>1, <2>2
<1>4. \A w \in Workers : at[w] # "idle" => task[w] \in Jobs
  BY DEF Placement, TypeOK, IdleIsFree
<1>5. ASSUME NEW j \in Jobs, CreateJob(j) PROVE RowKept'
  <2>1. \A k \in Jobs : rows'[k] = rows[k] \/ rows'[k] = NewRow
    BY <1>1, <1>5 DEF CreateJob, TypeOK
  <2>2. NewRow.status # "ABSENT"
    BY RowColumns
  <2>3. QED BY <1>2, <1>5, <2>1, <2>2 DEF CreateJob
<1>6. ASSUME NEW w \in Workers, MarkRunning(w) PROVE RowKept'
  <2>1. task[w] \in Jobs /\ UNCHANGED starts
    BY <1>4, <1>6 DEF MarkRunning
  <2>2. \E o \in DBOutcomes : UpdateJobStatus(task[w], "RUNNING", "NULL", "NULL", o)
    BY <1>6 DEF MarkRunning
  <2>3. QED BY <1>2, <1>3, <2>1, <2>2
<1>7. ASSUME NEW w \in Workers, RecordOutcome(w) PROVE RowKept'
  <2>1. task[w] \in Jobs /\ UNCHANGED starts
    BY <1>4, <1>7 DEF RecordOutcome
  <2>2. \E o \in DBOutcomes : \/ UpdateJobStatus(task[w], "COMPLETED", "text", "NULL", o)
                              \/ UpdateJobStatus(task[w], "FAILED", "NULL", "text", o)
    BY <1>7 DEF RecordOutcome, FinalWrite
  <2>3. QED BY <1>2, <1>3, <2>1, <2>2
<1>8. ASSUME NEW w \in Workers, StartTask(w) PROVE RowKept'
  <2>1. rows[task[w]] \in {NewRow, RunningRow}
    BY <1>8 DEF StartTask, Progress, WorkerAgrees
  <2>2. rows[task[w]].status # "ABSENT"
    BY <2>1, RowColumns
  <2>3. UNCHANGED rows /\ \A k \in Jobs : k # task[w] => starts'[k] = starts[k]
    BY <1>1, <1>8 DEF StartTask, TypeOK
  <2>4. QED BY <2>2, <2>3 DEF RowKept
<1>9. ASSUME \/ \E j \in Jobs : Schedule(j)
             \/ \E w \in Workers : Take(w) \/ EndTask(w)
             \/ Crash \/ UNCHANGED vars
      PROVE  RowKept'
  BY <1>2, <1>9 DEF Schedule, Take, EndTask, Crash, vars
<1>10. QED
  BY <1>5, <1>6, <1>7, <1>8, <1>9 DEF Next, WorkerStep

\* No job's function is called twice, nor for a caller who got no id, nor without
\* a row in the jobs table.
THEOREM JobsRunAtMostOnce == Spec => []AtMostOnce
<1>1. Init => RowKept
  BY DEF Init, RowKept
<1>2. Progress /\ RowKept => AtMostOnce
  BY DEF Progress, CalledOnce, RowKept, AtMostOnce
<1>3. QED BY <1>1, <1>2, ProgressInvariant, RowKeptStep, PTL DEF Spec

\* No job disappears silently: its row is final, or somebody holds it, or a
\* crash or a rolled back write is to blame.
THEOREM JobsAreNotLostSilently == Spec => []NoSilentLoss
BY ProgressInvariant, PTL DEF Progress

\* The jobs table tells the truth about what the function did.
THEOREM RowsAreTruthful == Spec => []TruthfulRow
BY ProgressInvariant, PTL DEF Progress

\* list_pending() shows a started job only if its RUNNING write was rolled back.
THEOREM RecoveryIsSafe == Spec => []RecoveryRepeatsNothing
BY ProgressInvariant, PTL DEF Progress

-------------------------------------------------------------------------------
(* The refinement.  Every step is a step of JobService or leaves the status  *)
(* and the starts of every job alone; and no step touches a lost job.        *)

\* The status column, as a client of the service sees it.
Status == [j \in Jobs |-> rows[j].status]

\* What each action does to the jobs: at most one job changes, and it has a
\* holder or is new.
LEMMA OneJobMoves ==
    ASSUME Placement, Progress, Next
    PROVE  \/ rows' = rows /\ starts' = starts
           \/ \E j \in Jobs :
                /\ Held(j) \/ caller[j] = "new"
                /\ \A k \in Jobs : k # j => rows'[k] = rows[k] /\ starts'[k] = starts[k]
                /\ rows'[j] # rows[j] \/ starts'[j] # starts[j]
                /\ \/ Service!Accept(j) \/ Service!MarkRunning(j) \/ Service!Run(j)
                   \/ Service!Complete(j) \/ Service!Fail(j)
<1> DEFINE Touches(j) == /\ Held(j) \/ caller[j] = "new"
                         /\ \A k \in Jobs : k # j => rows'[k] = rows[k] /\ starts'[k] = starts[k]
                         /\ rows'[j] # rows[j] \/ starts'[j] # starts[j]
<1>0. /\ TypeOK /\ IdleIsFree /\ SinglePlace
      /\ OutsideAgrees /\ WorkerAgrees /\ CalledOnce
  BY DEF Placement, Progress
<1> USE <1>0, JobQueueAssumption
<1>1. ASSUME NEW j \in Jobs, NEW to,
             TypeOK', \A k \in Jobs : k # j => rows'[k] = rows[k],
             rows'[j].status = to
      PROVE  Status' = [Status EXCEPT ![j] = to]
  BY <1>1 DEF Status, TypeOK
<1>2. TypeOK'
  BY PlacementStep DEF Placement
<1>3. CASE \E j \in Jobs : CreateJob(j)
  <2>1. PICK j \in Jobs, o \in DBOutcomes :
          /\ caller[j] = "new" /\ starts' = starts
          /\ rows' = IF Committed(o) THEN [rows EXCEPT ![j] = NewRow] ELSE rows
    BY <1>3 DEF CreateJob
  <2>2. CASE Committed(o)
    <3>1. rows[j] = NoRow /\ rows'[j] = NewRow /\ \A k \in Jobs : k # j => rows'[k] = rows[k]
      BY <2>1, <2>2 DEF OutsideAgrees, TypeOK
    <3>2. Touches(j)
      BY <2>1, <3>1, RowColumns
    <3>3. Service!Accept(j)
      BY <1>1, <1>2, <2>1, <3>1, RowColumns DEF Service!Accept, Service!Move, Status
    <3>4. QED BY <3>2, <3>3
  <2>3. CASE ~Committed(o)
    BY <2>1, <2>3
  <2>4. QED BY <2>2, <2>3
<1>4. CASE \E w \in Workers : MarkRunning(w)
  <2>1. PICK w \in Workers, o \in DBOutcomes :
          /\ at[w] = "taken" /\ starts' = starts
          /\ UpdateJobStatus(task[w], "RUNNING", "NULL", "NULL", o)
    BY <1>4 DEF MarkRunning
  <2>2. PICK j \in Jobs : j = task[w] /\ Held(j) /\ rows[j] = NewRow
    BY <2>1 DEF TypeOK, IdleIsFree, WorkerAgrees, Held, Working
  <2>3. /\ \A k \in Jobs : k # j => rows'[k] = rows[k]
        /\ Committed(o) => rows'[j].status = "RUNNING"
        /\ ~Committed(o) => rows' = rows
    BY <2>1, <2>2, UpdateType DEF UpdateJobStatus
  <2>4. CASE Committed(o)
    <3>1. Touches(j)
      BY <2>1, <2>2, <2>3, <2>4, RowColumns
    <3>2. Service!MarkRunning(j)
      BY <1>1, <1>2, <2>1, <2>2, <2>3, <2>4, RowColumns DEF Service!MarkRunning, Service!Move, Status
    <3>3. QED BY <3>1, <3>2
  <2>5. QED BY <2>1, <2>3, <2>4
<1>5. CASE \E w \in Workers : StartTask(w)
  <2>1. PICK w \in Workers : at[w] = "marked" /\ rows' = rows
                             /\ starts' = [starts EXCEPT ![task[w]] = @ + 1]
    BY <1>5 DEF StartTask
  <2>2. PICK j \in Jobs : j = task[w] /\ Held(j) /\ rows[j] \in {NewRow, RunningRow} /\ starts[j] = 0
    BY <2>1 DEF TypeOK, IdleIsFree, WorkerAgrees, Held, Working
  <2>3. Touches(j)
    BY <2>1, <2>2 DEF TypeOK
  <2>4. Service!Run(j)
    BY <2>1, <2>2, RowColumns DEF Service!Run, Service!Unfinished, TypeOK
  <2>5. QED BY <2>3, <2>4
<1>6. CASE \E w \in Workers : RecordOutcome(w)
  <2>1. PICK w \in Workers, o \in DBOutcomes :
          at[w] \in {"returned", "raised"} /\ starts' = starts /\ FinalWrite(w, o)
    BY <1>6 DEF RecordOutcome
  <2>2. PICK j \in Jobs : j = task[w] /\ Held(j) /\ rows[j] \in {NewRow, RunningRow} /\ starts[j] = 1
    BY <2>1 DEF TypeOK, IdleIsFree, WorkerAgrees, Held, Working
  <2>3. PICK to \in {"COMPLETED", "FAILED"} :
          /\ \A k \in Jobs : k # j => rows'[k] = rows[k]
          /\ Committed(o) => rows'[j].status = to
          /\ ~Committed(o) => rows' = rows
    <3>1. CASE at[w] = "returned"
      <4>1. UpdateJobStatus(j, "COMPLETED", "text", "NULL", o)
        BY <2>1, <2>2, <3>1 DEF FinalWrite
      <4>2. QED BY <2>2, <4>1, UpdateType DEF UpdateJobStatus
    <3>2. CASE at[w] # "returned"
      <4>1. UpdateJobStatus(j, "FAILED", "NULL", "text", o)
        BY <2>1, <2>2, <3>2 DEF FinalWrite
      <4>2. QED BY <2>2, <4>1, UpdateType DEF UpdateJobStatus
    <3>3. QED BY <3>1, <3>2
  <2>4. CASE Committed(o)
    <3>1. Touches(j)
      BY <2>1, <2>2, <2>3, <2>4, RowColumns
    <3>2. Status' = [Status EXCEPT ![j] = to] /\ Status[j] \in {"PENDING", "RUNNING"}
      BY <1>1, <1>2, <2>2, <2>3, <2>4, RowColumns DEF Status
    <3>3. Service!Move(j, Service!Unfinished, to)
      BY <2>1, <3>2 DEF Service!Move, Service!Unfinished, Status
    <3>4. Service!Complete(j) \/ Service!Fail(j)
      BY <2>2, <2>3, <3>3 DEF Service!Complete, Service!Fail
    <3>5. QED BY <3>1, <3>4
  <2>5. QED BY <2>1, <2>3, <2>4
<1>7. CASE \/ \E j \in Jobs : Schedule(j)
           \/ \E w \in Workers : Take(w) \/ EndTask(w)
           \/ Crash
  BY <1>7 DEF Schedule, Take, EndTask, Crash
<1>8. QED
  BY <1>3, <1>4, <1>5, <1>6, <1>7 DEF Next, WorkerStep

\* The row and the call counter of a job the process lost hold of never change
\* again: no later submission, worker or restart picks it up.
THEOREM LostJobsStay == Spec => LostStaysLost
<1>1. ASSUME Placement, Progress, [Next]_vars
      PROVE  [LostUntouched]_vars
  <2>1. ASSUME Next, NEW j \in lost PROVE rows'[j] = rows[j] /\ starts'[j] = starts[j]
    <3>1. j \in Jobs /\ ~Held(j) /\ caller[j] # "new"
      BY <1>1, <2>1 DEF Placement, Progress, TypeOK, LostIsFree
    <3>2. QED BY <1>1, <2>1, <3>1, OneJobMoves
  <2>2. QED BY <1>1, <2>1 DEF LostUntouched
<1>2. QED BY <1>1, ProgressInvariant, PTL DEF Spec, LostStaysLost

\* The default queue keeps the promise of JobService with no retry at all: the
\* life of a job is PENDING -> RUNNING -> COMPLETED | FAILED, whatever fails.
THEOREM QueueImplementsService == Spec => ImplementsService
<1>1. Init => Service!Init
  BY DEF Init, Service!Init, NoRow
<1>2. ASSUME Placement, Progress, [Next]_vars PROVE [Service!Next]_(Service!vars)
  <2>1. CASE UNCHANGED vars
    BY <2>1 DEF vars, Service!vars
  <2>2. CASE Next
    <3>1. CASE rows' = rows /\ starts' = starts
      BY <3>1 DEF Service!vars
    <3>2. CASE ~(rows' = rows /\ starts' = starts)
      BY <1>2, <2>2, <3>2, OneJobMoves DEF Service!Next
    <3>3. QED BY <3>1, <3>2
  <2>3. QED BY <1>2, <2>1, <2>2
<1>3. QED BY <1>1, <1>2, ProgressInvariant, PTL DEF Spec, ImplementsService, Service!Spec
===============================================================================
