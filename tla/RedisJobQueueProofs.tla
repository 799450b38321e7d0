-------------------------- MODULE RedisJobQueueProofs --------------------------
(***************************************************************************)
(* Proofs about RedisJobQueue, for any jobs, any number of replicas, any   *)
(* retry limit and any faults.  Placement says where jobs are; Progress    *)
(* says how the hash, the retry counter in it and the number of attempts   *)
(* agree with the step the consumer of a job is at.  The last two parts    *)
(* assume that Redis loses no reply: then an error means that nothing was  *)
(* done, and the queue refines JobService.                                 *)
(***************************************************************************)
EXTENDS RedisJobQueue, QueueFacts

\* A consumer has a job exactly when it is not idle.
IdleIsFree == \A p \in Procs : at[p] = "idle" <=> job[p] = NoJob

Placement == TypeOK /\ IdleIsFree /\ SinglePlace

\* A job nobody was told to run yet is as submit() left it.
OutsideAgrees ==
    \A j \in Jobs :
      /\ caller[j] = "new" => hash[j] = NoHash
      /\ Submitting(j) => hash[j] = NewHash
      /\ caller[j] \in {"new", "created"} => retries[j] = 0
      /\ caller[j] \in {"new", "created", "died"} => starts[j] = 0

\* A job in the list is PENDING and its attempts are counted.
QueueAgrees ==
    \A j \in Jobs : Queued(j) => /\ hash[j].status = "PENDING"
                                 /\ retries[j] = starts[j]
                                 /\ hash[j].error \in {"", "attempt"}

\* The hash, the counter and the attempts of the job consumer p executes.
WorkerAgrees(p) ==
      /\ hash[job[p]].error \in {"", "attempt"}
      /\ at[p] \in {"popped", "resolved", "unresolved", "requeued"} => hash[job[p]].status = "PENDING"
      /\ at[p] \in {"marked", "running", "returned"} => hash[job[p]].status = "RUNNING"
      /\ at[p] = "failing" => hash[job[p]].status \in {"RUNNING", "COMPLETED"}
      /\ at[p] \notin {"popped", "requeued"} => retries[job[p]] = tries[p]
      /\ starts[job[p]] = IF at[p] \in {"running", "returned", "failing"}
                          THEN retries[job[p]] + 1 ELSE retries[job[p]]
      /\ at[p] = "returned" => job[p] \in succeeded
WorkersAgree == \A p \in Procs : at[p] # "idle" => WorkerAgrees(p)

\* A lost job and a FAILED job have no holder any more.
LostIsFree == \A j \in lost : ~Held(j) /\ caller[j] \notin {"new", "created"}
FailedIsFree ==
    \A j \in Jobs : /\ hash[j].status = "FAILED" => ~Held(j)
                    /\ hash[j].status = "FAILED" <=> hash[j].error \in {"exhausted", "unregistered"}

Progress == /\ OutsideAgrees /\ QueueAgrees /\ WorkersAgree /\ LostIsFree /\ FailedIsFree
            /\ AttemptBudget /\ NoSilentLoss /\ TruthfulHash

-------------------------------------------------------------------------------
\* What _execute and submit write is a record of the right type.
LEMMA NewFields ==
    /\ NoHash \in Hashes /\ NoHash.status = "ABSENT" /\ NoHash.error = ""
    /\ NewHash \in Hashes /\ NewHash.status = "PENDING" /\ NewHash.error = ""
BY DEF NoHash, NewHash, Hashes

\* The fields of the records _execute writes.
LEMMA WrittenFields ==
    ASSUME NEW h \in Hashes
    PROVE  /\ Running(h) \in Hashes
           /\ Running(h).status = "RUNNING"
           /\ Running(h).result = h.result /\ Running(h).error = h.error
           /\ Completed(h) \in Hashes
           /\ Completed(h).status = "COMPLETED"
           /\ Completed(h).result = "text" /\ Completed(h).error = h.error
           /\ Retried(h) \in Hashes
           /\ Retried(h).status = "PENDING"
           /\ Retried(h).result = h.result /\ Retried(h).error = "attempt"
           /\ \A why \in {"exhausted", "unregistered"} :
                /\ Failed(h, why) \in Hashes
                /\ Failed(h, why).status = "FAILED"
                /\ Failed(h, why).result = h.result /\ Failed(h, why).error = why
BY DEF Running, Completed, Retried, Failed, Hashes

\* HSET changes one hash, or nothing.
LEMMA HSetEffect ==
    ASSUME TypeOK, NEW j \in Jobs, NEW h \in Hashes, NEW o, HSet(j, h, o)
    PROVE  /\ hash' \in [Jobs -> Hashes]
           /\ \A k \in Jobs : k # j => hash'[k] = hash[k]
           /\ hash'[j] = IF Applied(o) THEN h ELSE hash[j]
BY DEF HSet, TypeOK

\* The same for the retry counter.
LEMMA HSetRetriesEffect ==
    ASSUME TypeOK, NEW j \in Jobs, NEW n \in 0..MaxRetries, NEW o, HSetRetries(j, n, o)
    PROVE  /\ retries' \in [Jobs -> 0..MaxRetries]
           /\ \A k \in Jobs : k # j => retries'[k] = retries[k]
           /\ retries'[j] = IF Applied(o) THEN n ELSE retries[j]
BY DEF HSetRetries, TypeOK

-------------------------------------------------------------------------------
\* The part of the state a consumer writes, but for where it stands.
DataTyped == /\ hash \in [Jobs -> Hashes]
             /\ retries \in [Jobs -> 0..MaxRetries]
             /\ tries \in [Procs -> 0..MaxRetries]
             /\ starts \in [Jobs -> Nat]
             /\ succeeded \subseteq Jobs
             /\ lost \subseteq Jobs
Steps == {"popped", "resolved", "unresolved", "marked", "running", "returned", "failing", "requeued"}

\* Initially every job is outside and every worker idle.
LEMMA PlacementInit == Init => Placement
<1> SUFFICES ASSUME Init PROVE Placement
  OBVIOUS
<1> USE RedisAssumption DEF Init
<1>1. TypeOK
  <2>1. hash \in [Jobs -> Hashes]
    BY NewFields
  <2>2. /\ retries \in [Jobs -> 0..MaxRetries] /\ tries \in [Procs -> 0..MaxRetries]
        /\ starts \in [Jobs -> Nat] /\ pending \in Seq(Jobs)
    OBVIOUS
  <2>3. QED BY <2>1, <2>2 DEF TypeOK
<1>2. IdleIsFree
  BY DEF IdleIsFree
<1>3. SinglePlace
  BY DEF SinglePlace, Queued, Working, Contains, IsInjective
<1>4. QED BY <1>1, <1>2, <1>3 DEF Placement

\* A step of a consumer that leaves the list and the submit() calls alone.
LEMMA PlacementConsumer ==
    ASSUME Placement, NEW p \in Procs, at[p] # "idle",
           UNCHANGED <<pending, registry, caller, home>>, DataTyped',
           Release(p) \/ \E step \in Steps : Goto(p, step)
    PROVE  Placement'
<1>1. TypeOK /\ IdleIsFree /\ SinglePlace
  BY DEF Placement
<1>2. \A q \in Procs : q # p => at'[q] = at[q] /\ job'[q] = job[q]
  BY <1>1 DEF Release, Goto, TypeOK
<1>3. \/ at'[p] = "idle" /\ job'[p] = NoJob
      \/ at'[p] \in Steps /\ at'[p] # "idle" /\ job'[p] = job[p]
  BY <1>1 DEF Release, Goto, TypeOK, Steps
<1>4. TypeOK'
  BY <1>1 DEF TypeOK, DataTyped, Release, Goto, Steps
<1>5. IdleIsFree'
  BY <1>1, <1>2, <1>3 DEF IdleIsFree
<1>6. SinglePlace'
  <2>1. \A q \in Procs : job'[q] = job[q] \/ job'[q] = NoJob
    BY <1>2, <1>3
  <2>2. \A k \in Jobs : Working(k)' => Working(k)
    BY <2>1, RedisAssumption DEF Working
  <2>3. \A q, r \in Procs : job'[q] = job'[r] /\ job'[q] # NoJob => q = r
    BY <1>1, <2>1 DEF SinglePlace
  <2>4. QED BY <1>1, <2>2, <2>3 DEF SinglePlace, Queued
<1>7. QED BY <1>4, <1>5, <1>6 DEF Placement

\* Every step keeps the types and leaves each job in one place.
LEMMA PlacementStep == Placement /\ [Next]_vars => Placement'
<1> SUFFICES ASSUME Placement, [Next]_vars PROVE Placement'
  OBVIOUS
<1>0. TypeOK /\ IdleIsFree /\ SinglePlace
  BY DEF Placement
<1> USE RedisAssumption, <1>0
<1>a. \A p \in Procs : at[p] # "idle" => job[p] \in Jobs
  BY DEF TypeOK, IdleIsFree
<1>1. ASSUME NEW j \in Jobs, CreateHash(j) PROVE Placement'
  <2>1. PICK o \in Replies : HSet(j, NewHash, o)
    BY <1>1 DEF CreateHash
  <2>2. hash' \in [Jobs -> Hashes]
    BY <2>1, HSetEffect, NewFields
  <2>3. retries' \in [Jobs -> 0..MaxRetries]
    BY <1>1, HSetRetriesEffect DEF CreateHash
  <2>4. \E c \in {"error", "created"} : caller' = [caller EXCEPT ![j] = c]
    BY <1>1 DEF CreateHash
  <2>5. TypeOK'
    <3>1. caller' \in [Jobs -> {"new", "created", "returned", "error", "died"}]
      BY <2>4 DEF TypeOK
    <3>2. registry' \subseteq Procs
      BY <1>1 DEF CreateHash, TypeOK
    <3>3. UNCHANGED <<pending, home, at, job, tries, starts, succeeded, lost>>
      BY <1>1 DEF CreateHash, ghosts
    <3>4. QED BY <2>2, <2>3, <3>1, <3>2, <3>3 DEF TypeOK
  <2>6. caller[j] = "new" /\ \A k \in Jobs : k # j => caller'[k] = caller[k]
    BY <1>1, <2>4 DEF CreateHash, TypeOK
  <2>7. SinglePlace'
    BY <1>1, <2>6 DEF CreateHash, SinglePlace, Queued, Working
  <2>8. IdleIsFree'
    <3>1. UNCHANGED <<at, job>>
      BY <1>1 DEF CreateHash
    <3>2. QED BY <3>1 DEF IdleIsFree
  <2>9. QED BY <2>5, <2>7, <2>8 DEF Placement
<1>2. ASSUME NEW j \in Jobs, Push(j) PROVE Placement'
  <2>1. PICK o \in Replies :
          /\ RPush(j, o)
          /\ caller' = [caller EXCEPT ![j] = IF Raised(o) THEN "error" ELSE "returned"]
    BY <1>2 DEF Push
  <2>2. ~Queued(j) /\ ~Working(j) /\ pending \in Seq(Jobs)
    BY <1>2 DEF Push, Submitting, SinglePlace, TypeOK
  <2>3. /\ pending' \in Seq(Jobs) /\ IsInjective(pending')
        /\ \A k : Contains(pending', k) => Contains(pending, k) \/ k = j
    <3>1. CASE Applied(o)
      BY <2>1, <2>2, <3>1, AppendHas, AppendNoRepeats DEF RPush, Queued, SinglePlace
    <3>2. CASE ~Applied(o)
      BY <2>1, <2>2, <3>2 DEF RPush, SinglePlace
    <3>3. QED BY <3>1, <3>2
  <2>4. TypeOK'
    BY <1>2, <2>1, <2>3 DEF Push, TypeOK, ghosts, record
  <2>5. SinglePlace'
    BY <1>2, <2>1, <2>2, <2>3 DEF Push, SinglePlace, Queued, Working, TypeOK
  <2>6. QED BY <1>2, <2>4, <2>5 DEF Push, Placement, IdleIsFree
<1>3. ASSUME NEW p \in Procs, Pop(p) PROVE Placement'
  <2> DEFINE j == Head(pending)
  <2>1. /\ j \in Jobs /\ Contains(pending, j)
        /\ pending' \in Seq(Jobs) /\ IsInjective(pending')
        /\ \A k : Contains(pending', k) <=> Contains(pending, k) /\ k # j
    BY <1>3, TailHas DEF Pop, TypeOK, SinglePlace
  <2>2. ~Working(j) /\ caller[j] \in {"returned", "error"}
    BY <2>1 DEF SinglePlace, Queued
  <2>3. TypeOK'
    <3>1. /\ at' \in [Procs -> Steps \cup {"idle"}] /\ job' \in [Procs -> Jobs \cup {NoJob}]
          /\ lost' \subseteq Jobs
      <4>1. CASE at' = [at EXCEPT ![p] = "popped"] /\ job' = [job EXCEPT ![p] = j] /\ UNCHANGED lost
        BY <2>1, <4>1 DEF Steps, TypeOK
      <4>2. CASE Lose(j) /\ UNCHANGED <<at, job>>
        BY <2>1, <4>2 DEF Lose, Steps, TypeOK
      <4>3. QED BY <1>3, <4>1, <4>2 DEF Pop
    <3>2. QED
      BY <1>3, <2>1, <3>1 DEF Pop, TypeOK, Steps, ghosts, client, record
  <2>4. CASE UNCHANGED <<at, job>>
    BY <1>3, <2>1, <2>3, <2>4 DEF Pop, Placement, IdleIsFree, SinglePlace, Queued, Working, client
  <2>5. CASE at' = [at EXCEPT ![p] = "popped"] /\ job' = [job EXCEPT ![p] = j]
    <3>1. \A q \in Procs : /\ job'[q] = IF q = p THEN j ELSE job[q]
                           /\ at'[q] = IF q = p THEN "popped" ELSE at[q]
      BY <2>5 DEF TypeOK
    <3>2. IdleIsFree'
      BY <2>1, <3>1 DEF IdleIsFree
    <3>3. SinglePlace'
      BY <1>3, <2>1, <2>2, <3>1 DEF Pop, SinglePlace, Queued, Working, client
    <3>4. QED BY <2>3, <3>2, <3>3 DEF Placement
  <2>6. QED BY <1>3, <2>4, <2>5 DEF Pop
<1>4. ASSUME NEW p \in Procs, Load(p) PROVE Placement'
  <2>1. job[p] \in Jobs
    BY <1>4, <1>a DEF Load
  <2>2. DataTyped'
    BY <1>4, <2>1 DEF Load, DataTyped, TypeOK, Lose, RetryCount, ghosts, record
  <2>3. Release(p) \/ \E step \in Steps : Goto(p, step)
    BY <1>4 DEF Load, Steps
  <2>4. QED BY <1>4, <2>2, <2>3, PlacementConsumer DEF Load, client
<1>5. ASSUME NEW p \in Procs, FailUnresolved(p) PROVE Placement'
  <2>1. job[p] \in Jobs
    BY <1>5, <1>a DEF FailUnresolved
  <2>2. Failed(hash[job[p]], "unregistered") \in Hashes
    BY <2>1, WrittenFields DEF TypeOK
  <2>3. hash' \in [Jobs -> Hashes]
    BY <1>5, <2>1, <2>2, HSetEffect DEF FailUnresolved
  <2>4. DataTyped'
    BY <1>5, <2>1, <2>3 DEF FailUnresolved, DataTyped, TypeOK, Lose, LoseIf, ghosts
  <2>5. Release(p) \/ \E step \in Steps : Goto(p, step)
    BY <1>5 DEF FailUnresolved, Steps
  <2>6. QED BY <1>5, <2>4, <2>5, PlacementConsumer DEF FailUnresolved, client
<1>6. ASSUME NEW p \in Procs, MarkRunning(p) PROVE Placement'
  <2>1. job[p] \in Jobs
    BY <1>6, <1>a DEF MarkRunning
  <2>2. Running(hash[job[p]]) \in Hashes
    BY <2>1, WrittenFields DEF TypeOK
  <2>3. hash' \in [Jobs -> Hashes]
    BY <1>6, <2>1, <2>2, HSetEffect DEF MarkRunning
  <2>4. DataTyped'
    BY <1>6, <2>1, <2>3 DEF MarkRunning, DataTyped, TypeOK, Lose, LoseIf, ghosts
  <2>5. Release(p) \/ \E step \in Steps : Goto(p, step)
    BY <1>6 DEF MarkRunning, Steps
  <2>6. QED BY <1>6, <2>4, <2>5, PlacementConsumer DEF MarkRunning, client
<1>7. ASSUME NEW p \in Procs, StartTask(p) PROVE Placement'
  <2>1. job[p] \in Jobs
    BY <1>7, <1>a DEF StartTask
  <2>2. DataTyped'
    BY <1>7, <2>1 DEF StartTask, DataTyped, TypeOK, Lose, RetryCount, ghosts, record
  <2>3. Release(p) \/ \E step \in Steps : Goto(p, step)
    BY <1>7 DEF StartTask, Steps
  <2>4. QED BY <1>7, <2>2, <2>3, PlacementConsumer DEF StartTask, client
<1>8. ASSUME NEW p \in Procs, EndTask(p) PROVE Placement'
  <2>1. job[p] \in Jobs
    BY <1>8, <1>a DEF EndTask
  <2>2. DataTyped'
    BY <1>8, <2>1 DEF EndTask, DataTyped, TypeOK, Lose, RetryCount, ghosts, record
  <2>3. Release(p) \/ \E step \in Steps : Goto(p, step)
    BY <1>8 DEF EndTask, Steps
  <2>4. QED BY <1>8, <2>2, <2>3, PlacementConsumer DEF EndTask, client
<1>9. ASSUME NEW p \in Procs, WriteCompleted(p) PROVE Placement'
  <2>1. job[p] \in Jobs
    BY <1>9, <1>a DEF WriteCompleted
  <2>2. Completed(hash[job[p]]) \in Hashes
    BY <2>1, WrittenFields DEF TypeOK
  <2>3. hash' \in [Jobs -> Hashes]
    BY <1>9, <2>1, <2>2, HSetEffect DEF WriteCompleted
  <2>4. DataTyped'
    BY <1>9, <2>1, <2>3 DEF WriteCompleted, DataTyped, TypeOK, Lose, LoseIf, ghosts
  <2>5. Release(p) \/ \E step \in Steps : Goto(p, step)
    BY <1>9 DEF WriteCompleted, Steps
  <2>6. QED BY <1>9, <2>4, <2>5, PlacementConsumer DEF WriteCompleted, client
<1>10. ASSUME NEW p \in Procs, Requeue(p) PROVE Placement'
  <2>1. job[p] \in Jobs
    BY <1>10, <1>a DEF Requeue
  <2>2. Retried(hash[job[p]]) \in Hashes
    BY <2>1, WrittenFields DEF TypeOK
  <2>3. hash' \in [Jobs -> Hashes]
    BY <1>10, <2>1, <2>2, HSetEffect DEF Requeue
  <2>a. tries[p] + 1 \in 0..MaxRetries
    BY <1>10 DEF Requeue, Exhausted, TypeOK
  <2>b. retries' \in [Jobs -> 0..MaxRetries]
    BY <1>10, <2>1, <2>a, HSetRetriesEffect DEF Requeue
  <2>4. DataTyped'
    BY <1>10, <2>1, <2>3, <2>b DEF Requeue, DataTyped, TypeOK, Lose, LoseIf, ghosts
  <2>5. Release(p) \/ \E step \in Steps : Goto(p, step)
    BY <1>10 DEF Requeue, Steps
  <2>6. QED BY <1>10, <2>4, <2>5, PlacementConsumer DEF Requeue, client
<1>11. ASSUME NEW p \in Procs, Repush(p) PROVE Placement'
  <2> DEFINE j == job[p]
  <2>1. PICK o \in Replies : RPush(j, o) /\ LoseIf(~Applied(o), j)
    BY <1>11 DEF Repush
  <2>2. /\ j \in Jobs /\ ~Queued(j) /\ pending \in Seq(Jobs)
        /\ caller[j] \in {"returned", "error"}
        /\ \A q \in Procs : q # p => job[q] # j
    BY <1>11, <1>a DEF Repush, SinglePlace, Working, TypeOK
  <2>3. /\ pending' \in Seq(Jobs) /\ IsInjective(pending')
        /\ \A k : Contains(pending', k) => Contains(pending, k) \/ k = j
    <3>1. CASE Applied(o)
      BY <2>1, <2>2, <3>1, AppendHas, AppendNoRepeats DEF RPush, Queued, SinglePlace
    <3>2. CASE ~Applied(o)
      BY <2>1, <2>2, <3>2 DEF RPush, SinglePlace
    <3>3. QED BY <3>1, <3>2
  <2>4. \A q \in Procs : /\ job'[q] = IF q = p THEN NoJob ELSE job[q]
                         /\ at'[q] = IF q = p THEN "idle" ELSE at[q]
    BY <1>11 DEF Repush, Release, TypeOK
  <2>5. TypeOK'
    BY <1>11, <2>1, <2>2, <2>3 DEF Repush, Release, LoseIf, TypeOK, client, ghosts, record
  <2>6. IdleIsFree'
    BY <2>4 DEF IdleIsFree
  <2>7. SinglePlace'
    BY <1>11, <2>2, <2>3, <2>4 DEF Repush, SinglePlace, Queued, Working, client
  <2>8. QED BY <2>5, <2>6, <2>7 DEF Placement
<1>12. ASSUME NEW p \in Procs, GiveUp(p) PROVE Placement'
  <2>1. job[p] \in Jobs
    BY <1>12, <1>a DEF GiveUp
  <2>2. Failed(hash[job[p]], "exhausted") \in Hashes
    BY <2>1, WrittenFields DEF TypeOK
  <2>3. hash' \in [Jobs -> Hashes]
    BY <1>12, <2>1, <2>2, HSetEffect DEF GiveUp
  <2>4. DataTyped'
    BY <1>12, <2>1, <2>3 DEF GiveUp, DataTyped, TypeOK, Lose, LoseIf, ghosts
  <2>5. Release(p) \/ \E step \in Steps : Goto(p, step)
    BY <1>12 DEF GiveUp, Steps
  <2>6. QED BY <1>12, <2>4, <2>5, PlacementConsumer DEF GiveUp, client
<1>13. ASSUME NEW p \in Procs, Crash(p) PROVE Placement'
  <2>1. TypeOK'
    BY <1>13 DEF Crash, Release, TypeOK, ghosts, record
  <2>2. \A q \in Procs : /\ job'[q] = IF q = p THEN NoJob ELSE job[q]
                         /\ at'[q] = IF q = p THEN "idle" ELSE at[q]
    BY <1>13 DEF Crash, Release, TypeOK
  <2>3. IdleIsFree'
    BY <2>2 DEF IdleIsFree
  <2>4. SinglePlace'
    BY <1>13, <2>2 DEF Crash, SinglePlace, Queued, Working, Submitting, TypeOK
  <2>5. QED BY <2>1, <2>3, <2>4 DEF Placement
<1>14. ASSUME UNCHANGED vars PROVE Placement'
  BY <1>14 DEF vars, record, client, ghosts, Placement, TypeOK, IdleIsFree, SinglePlace, Queued, Working
<1>15. QED
  BY <1>1, <1>2, <1>3, <1>4, <1>5, <1>6, <1>7, <1>8, <1>9, <1>10, <1>11, <1>12, <1>13, <1>14
  DEF Next, Execute

\* In every reachable state the types hold and each job is in one place.
THEOREM PlacementInvariant == Spec => []Placement
BY PlacementInit, PlacementStep, PTL DEF Spec

\* The variables keep their types; so the retry counter never passes MaxRetries.
THEOREM TypeCorrect == Spec => []TypeOK
BY PlacementInvariant, PTL DEF Placement

\* Every job is in one place: no two replicas ever execute the same job, and no
\* job is in the list while one of them executes it.
THEOREM JobsInOnePlace == Spec => []SinglePlace
BY PlacementInvariant, PTL DEF Placement

-------------------------------------------------------------------------------
\* get_result() answers with the result of a COMPLETED job only.
LEMMA ResultGiven ==
    ASSUME NEW j
    PROVE  GetResult(j) = "text" <=> (hash[j].status = "COMPLETED" /\ hash[j].result = "text")
BY DEF GetResult

\* Initially nothing ran, and every record is that of a job nobody submitted.
LEMMA ProgressInit == Init => Progress
<1> SUFFICES ASSUME Init PROVE Progress
  OBVIOUS
<1>1. \A j \in Jobs : /\ hash[j] = NoHash /\ caller[j] = "new"
                      /\ hash[j].status = "ABSENT" /\ hash[j].error = ""
  BY DEF Init, NoHash
<1>a. \A j \in Jobs : retries[j] = 0 /\ starts[j] = 0
  BY DEF Init
<1>2. \A j \in Jobs : ~Held(j)
  <2> SUFFICES ASSUME NEW j \in Jobs PROVE ~Submitting(j) /\ ~Queued(j) /\ ~Working(j)
    BY DEF Held
  <2>1. ~Submitting(j)
    BY <1>1 DEF Submitting
  <2>2. ~Queued(j)
    BY DEF Init, Queued, Contains
  <2>3. ~Working(j)
    BY RedisAssumption DEF Init, Working
  <2>4. QED BY <2>1, <2>2, <2>3
<1>3. OutsideAgrees /\ QueueAgrees
  BY <1>1, <1>a, <1>2 DEF OutsideAgrees, QueueAgrees, Submitting, Held
<1>4. WorkersAgree /\ LostIsFree
  BY DEF Init, WorkersAgree, LostIsFree
<1>5. FailedIsFree
  BY <1>1 DEF FailedIsFree
<1>6. AttemptBudget
  BY <1>a, RedisAssumption DEF AttemptBudget
<1>7. NoSilentLoss /\ TruthfulHash
  BY <1>1, ResultGiven DEF NoSilentLoss, TruthfulHash, Unfinished
<1>8. QED BY <1>3, <1>4, <1>5, <1>6, <1>7 DEF Progress

\* The record of job j is consistent by itself.
RecordAgrees(j) ==
    /\ hash[j].status = "FAILED" <=> hash[j].error \in {"exhausted", "unregistered"}
    /\ hash[j].error = "exhausted" => starts[j] = MaxRetries + 1
    /\ hash[j].error = "unregistered" => starts[j] = retries[j]
    /\ hash[j].status = "COMPLETED" => hash[j].result = "text" /\ j \in succeeded
    /\ starts[j] <= MaxRetries + 1

\* Progress makes every record consistent.
LEMMA RecordsAgree ==
    ASSUME Progress, NEW j \in Jobs
    PROVE  RecordAgrees(j)
BY ResultGiven DEF Progress, RecordAgrees, FailedIsFree, TruthfulHash, AttemptBudget

\* A consumer's step on its job j: nothing else moves, and what it leaves behind
\* agrees, whether it keeps the job or lets it go.
LEMMA ProgressConsumer ==
    ASSUME Placement, Progress, Placement',
           NEW p \in Procs, NEW j \in Jobs, at[p] # "idle", job[p] = j,
           UNCHANGED <<pending, caller>>,
           \A k \in Jobs : k # j => /\ hash'[k] = hash[k] /\ retries'[k] = retries[k]
                                    /\ starts'[k] = starts[k],
           \A q \in Procs : q # p => /\ at'[q] = at[q] /\ job'[q] = job[q]
                                     /\ tries'[q] = tries[q],
           succeeded \subseteq succeeded', lost \subseteq lost', lost' \subseteq lost \cup {j},
           RecordAgrees(j)',
           \/ /\ at'[p] = "idle" /\ job'[p] = NoJob
              /\ Unfinished(j)' => j \in lost'
           \/ /\ at'[p] # "idle" /\ job'[p] = j /\ WorkerAgrees(p)'
              /\ j \notin lost' /\ hash'[j].status # "FAILED"
    PROVE  Progress'
<1>1. SinglePlace /\ TypeOK /\ IdleIsFree /\ TypeOK' /\ IdleIsFree' /\ SinglePlace'
  BY DEF Placement
<1>2. /\ ~Queued(j) /\ caller[j] \in {"returned", "error"}
      /\ \A q \in Procs : q # p => job[q] # j
  BY <1>1, RedisAssumption DEF SinglePlace, Working
<1>3. \A k \in Jobs : Queued(k)' <=> Queued(k)
  BY DEF Queued
<1>4. \A k \in Jobs : Submitting(k)' <=> Submitting(k)
  BY DEF Submitting
<1>5. \A k \in Jobs : k # j => (Working(k)' <=> Working(k))
  <2>1. NoJob \notin Jobs
    BY RedisAssumption
  <2>2. \A q \in Procs, k \in Jobs : k # j => (job'[q] = k <=> job[q] = k)
    BY <2>1
  <2>3. QED BY <2>2 DEF Working
<1>6. Working(j)' <=> at'[p] # "idle"
  <2>1. \A q \in Procs : q # p => job'[q] # j
    BY <1>2
  <2>2. QED BY <2>1, RedisAssumption DEF Working
<1>7. \A k \in Jobs : k # j => (Held(k)' <=> Held(k))
  BY <1>3, <1>4, <1>5 DEF Held
<1>8. Held(j)' <=> at'[p] # "idle"
  BY <1>2, <1>3, <1>4, <1>6 DEF Held, Submitting
<1>9. OutsideAgrees'
  <2> SUFFICES ASSUME NEW k \in Jobs, caller'[k] \in {"new", "created", "died"}
               PROVE  /\ caller'[k] = "new" => hash'[k] = NoHash
                      /\ Submitting(k)' => hash'[k] = NewHash
                      /\ caller'[k] \in {"new", "created"} => retries'[k] = 0
                      /\ starts'[k] = 0
    BY DEF OutsideAgrees, Submitting
  <2>1. k # j
    BY <1>2
  <2>2. QED BY <2>1, <1>4 DEF Progress, OutsideAgrees
<1>10. QueueAgrees'
  <2> SUFFICES ASSUME NEW k \in Jobs, Queued(k)'
               PROVE  /\ hash'[k].status = "PENDING"
                      /\ retries'[k] = starts'[k]
                      /\ hash'[k].error \in {"", "attempt"}
    BY DEF QueueAgrees
  <2>1. Queued(k) /\ k # j
    BY <1>2, <1>3
  <2>2. hash'[k] = hash[k] /\ retries'[k] = retries[k] /\ starts'[k] = starts[k]
    BY <2>1
  <2>3. QED BY <2>1, <2>2 DEF Progress, QueueAgrees
<1>11. WorkersAgree'
  <2> SUFFICES ASSUME NEW q \in Procs, at'[q] # "idle" PROVE WorkerAgrees(q)'
    BY DEF WorkersAgree
  <2>1. CASE q = p
    BY <2>1
  <2>2. CASE q # p
    <3>1. at[q] # "idle" /\ job[q] \in Jobs /\ job[q] # j
      BY <1>1, <1>2, <2>2 DEF IdleIsFree, TypeOK
    <3>2. WorkerAgrees(q)
      BY <3>1 DEF Progress, WorkersAgree
    <3>3. /\ hash'[job'[q]] = hash[job[q]] /\ retries'[job'[q]] = retries[job[q]]
          /\ starts'[job'[q]] = starts[job[q]] /\ at'[q] = at[q] /\ tries'[q] = tries[q]
          /\ job[q] \in succeeded => job'[q] \in succeeded'
      BY <2>2, <3>1
    <3>4. QED BY <3>2, <3>3 DEF WorkerAgrees
  <2>3. QED BY <2>1, <2>2
<1>12. LostIsFree'
  BY <1>1, <1>2, <1>7, <1>8 DEF Progress, LostIsFree, TypeOK
<1>13. \A k \in Jobs : RecordAgrees(k)'
  <2> SUFFICES ASSUME NEW k \in Jobs, k # j PROVE RecordAgrees(k)'
    OBVIOUS
  <2>1. RecordAgrees(k)
    BY RecordsAgree
  <2>2. QED BY <2>1 DEF RecordAgrees
<1>14. FailedIsFree'
  BY <1>7, <1>8, <1>13 DEF Progress, FailedIsFree, RecordAgrees
<1>15. AttemptBudget'
  BY <1>13 DEF AttemptBudget, RecordAgrees
<1>16. NoSilentLoss'
  <2> SUFFICES ASSUME NEW k \in Jobs, Unfinished(k)'
               PROVE  Held(k)' \/ k \in lost' \/ (caller'[k] = "error" /\ starts'[k] = 0)
    BY DEF NoSilentLoss
  <2>1. CASE k = j
    BY <1>8, <2>1
  <2>2. CASE k # j
    BY <1>7, <2>2 DEF Progress, NoSilentLoss, Unfinished
  <2>3. QED BY <2>1, <2>2
<1>17. TruthfulHash'
  <2>1. \A k \in Jobs : GetResult(k)' = "text" <=> (hash'[k].status = "COMPLETED" /\ hash'[k].result = "text")
    BY DEF GetResult
  <2>2. QED BY <1>13, <2>1 DEF TruthfulHash, RecordAgrees
<1>18. QED
  BY <1>9, <1>10, <1>11, <1>12, <1>14, <1>15, <1>16, <1>17 DEF Progress

-------------------------------------------------------------------------------
\* What Progress says of the job a consumer executes.
LEMMA ConsumerAgrees ==
    ASSUME Placement, Progress, NEW p \in Procs, at[p] # "idle"
    PROVE  /\ job[p] \in Jobs /\ hash[job[p]] \in Hashes
           /\ WorkerAgrees(p) /\ RecordAgrees(job[p])
           /\ job[p] \notin lost /\ hash[job[p]].status # "FAILED"
           /\ retries[job[p]] \in 0..MaxRetries /\ tries[p] \in 0..MaxRetries
           /\ starts[job[p]] \in Nat /\ MaxRetries \in Nat
<1>1. TypeOK /\ IdleIsFree
  BY DEF Placement
<1>2. job[p] \in Jobs
  BY <1>1 DEF TypeOK, IdleIsFree
<1>3. Held(job[p])
  BY <1>2 DEF Held, Working
<1>4. WorkerAgrees(p)
  BY DEF Progress, WorkersAgree
<1>5. RecordAgrees(job[p])
  BY <1>2, RecordsAgree
<1>6. job[p] \notin lost /\ hash[job[p]].status # "FAILED"
  BY <1>2, <1>3 DEF Progress, LostIsFree, FailedIsFree
<1>7. QED BY <1>1, <1>2, <1>4, <1>5, <1>6, RedisAssumption DEF TypeOK

\* Where a consumer stands after a step of its own.
LEMMA ConsumerMoves ==
    ASSUME TypeOK, NEW p \in Procs, NEW step
    PROVE  /\ Release(p) => /\ at'[p] = "idle" /\ job'[p] = NoJob
                            /\ \A q \in Procs : q # p => at'[q] = at[q] /\ job'[q] = job[q]
           /\ Goto(p, step) => /\ at'[p] = step /\ job'[p] = job[p]
                               /\ \A q \in Procs : q # p => at'[q] = at[q] /\ job'[q] = job[q]
BY DEF TypeOK, Release, Goto

\* HGETALL and the lookup write nothing; the consumer keeps the job or loses it.
LEMMA ProgressLoad ==
    ASSUME Placement, Progress, Placement', NEW p \in Procs, NEW j \in Jobs, job[p] = j, Load(p)
    PROVE  Progress'
<1>1. at[p] = "popped" /\ UNCHANGED <<hash, retries, pending, caller, starts, succeeded>>
  BY DEF Load, client, ghosts, record
<1>2. WorkerAgrees(p) /\ RecordAgrees(j) /\ j \notin lost /\ hash[j].status # "FAILED"
  BY <1>1, ConsumerAgrees
<1>3. RecordAgrees(j)'
  BY <1>1, <1>2 DEF RecordAgrees
<1>4. TypeOK
  BY DEF Placement
<1>5. \/ Release(p) /\ Lose(j) /\ UNCHANGED tries
      \/ \E step \in {"resolved", "unresolved"} :
           /\ Goto(p, step)
           /\ tries' = [tries EXCEPT ![p] = retries[j]]
           /\ UNCHANGED lost
  BY DEF Load, Goto, Release, Lose, RetryCount
<1>6. CASE Release(p) /\ Lose(j) /\ UNCHANGED tries
  <2>1. /\ at'[p] = "idle" /\ job'[p] = NoJob /\ j \in lost'
        /\ \A q \in Procs : q # p => at'[q] = at[q] /\ job'[q] = job[q] /\ tries'[q] = tries[q]
        /\ lost \subseteq lost' /\ lost' \subseteq lost \cup {j}
    BY <1>4, <1>6, ConsumerMoves DEF Lose
  <2>2. QED BY <1>1, <1>2, <1>3, <2>1, ProgressConsumer
<1>7. ASSUME NEW step \in {"resolved", "unresolved"},
             Goto(p, step), tries' = [tries EXCEPT ![p] = retries[j]], UNCHANGED lost
      PROVE  Progress'
  <2>1. /\ at'[p] = step /\ job'[p] = j
        /\ \A q \in Procs : q # p => at'[q] = at[q] /\ job'[q] = job[q]
    BY <1>4, <1>7, ConsumerMoves
  <2>2. tries'[p] = retries[j] /\ \A q \in Procs : q # p => tries'[q] = tries[q]
    BY <1>4, <1>7 DEF TypeOK
  <2>3. WorkerAgrees(p)'
    BY <1>1, <1>2, <2>1, <2>2 DEF WorkerAgrees
  <2>4. QED BY <1>1, <1>2, <1>3, <1>7, <2>1, <2>2, <2>3, ProgressConsumer
<1>8. QED BY <1>5, <1>6, <1>7

\* A job without a function becomes FAILED, or is lost, and has no holder.
LEMMA ProgressFailUnresolved ==
    ASSUME Placement, Progress, Placement', NEW p \in Procs, NEW j \in Jobs, job[p] = j,
           FailUnresolved(p)
    PROVE  Progress'
<1>1. at[p] = "unresolved" /\ UNCHANGED <<retries, pending, caller, tries, starts, succeeded>>
  BY DEF FailUnresolved, client, ghosts
<1>2. /\ WorkerAgrees(p) /\ RecordAgrees(j) /\ hash[j] \in Hashes
      /\ retries[j] \in 0..MaxRetries /\ tries[p] \in 0..MaxRetries /\ starts[j] \in Nat
  BY <1>1, ConsumerAgrees
<1>3. TypeOK
  BY DEF Placement
<1>4. PICK o \in Replies : HSet(j, Failed(hash[j], "unregistered"), o) /\ LoseIf(~Applied(o), j)
  BY DEF FailUnresolved
<1>5. /\ hash'[j] = IF Applied(o) THEN Failed(hash[j], "unregistered") ELSE hash[j]
      /\ \A k \in Jobs : k # j => hash'[k] = hash[k]
  BY <1>2, <1>3, <1>4, WrittenFields, HSetEffect
<1>6. /\ at'[p] = "idle" /\ job'[p] = NoJob
      /\ \A q \in Procs : q # p => at'[q] = at[q] /\ job'[q] = job[q]
  BY <1>3, ConsumerMoves DEF FailUnresolved
<1>7. lost \subseteq lost' /\ lost' \subseteq lost \cup {j} /\ (~Applied(o) => j \in lost')
  BY <1>4 DEF LoseIf
<1>8. RecordAgrees(j)' /\ (Unfinished(j)' => j \in lost')
  <2>1. CASE Applied(o)
    <3>1. hash'[j].status = "FAILED" /\ hash'[j].error = "unregistered"
      BY <1>2, <1>5, <2>1, WrittenFields
    <3>2. starts'[j] = retries'[j]
      BY <1>1, <1>2 DEF WorkerAgrees
    <3>3. QED BY <1>1, <1>2, <3>1, <3>2 DEF RecordAgrees, Unfinished
  <2>2. CASE ~Applied(o)
    BY <1>1, <1>2, <1>5, <1>7, <2>2 DEF RecordAgrees
  <2>3. QED BY <2>1, <2>2
<1>9. QED BY <1>1, <1>5, <1>6, <1>7, <1>8, ProgressConsumer

\* The last attempt failed: as many starts as MaxRetries + 1.
LEMMA ProgressGiveUp ==
    ASSUME Placement, Progress, Placement', NEW p \in Procs, NEW j \in Jobs, job[p] = j,
           GiveUp(p)
    PROVE  Progress'
<1>1. at[p] = "failing" /\ UNCHANGED <<retries, pending, caller, tries, starts, succeeded>>
  BY DEF GiveUp, client, ghosts
<1>2. /\ WorkerAgrees(p) /\ RecordAgrees(j) /\ hash[j] \in Hashes
      /\ retries[j] \in 0..MaxRetries /\ tries[p] \in 0..MaxRetries /\ starts[j] \in Nat
  BY <1>1, ConsumerAgrees
<1>3. TypeOK
  BY DEF Placement
<1>4. PICK o \in Replies : HSet(j, Failed(hash[j], "exhausted"), o) /\ LoseIf(~Applied(o), j)
  BY DEF GiveUp
<1>5. /\ hash'[j] = IF Applied(o) THEN Failed(hash[j], "exhausted") ELSE hash[j]
      /\ \A k \in Jobs : k # j => hash'[k] = hash[k]
  BY <1>2, <1>3, <1>4, WrittenFields, HSetEffect
<1>6. /\ at'[p] = "idle" /\ job'[p] = NoJob
      /\ \A q \in Procs : q # p => at'[q] = at[q] /\ job'[q] = job[q]
  BY <1>3, ConsumerMoves DEF GiveUp
<1>7. lost \subseteq lost' /\ lost' \subseteq lost \cup {j} /\ (~Applied(o) => j \in lost')
  BY <1>4 DEF LoseIf
<1>8. RecordAgrees(j)' /\ (Unfinished(j)' => j \in lost')
  <2>1. CASE Applied(o)
    <3>1. hash'[j].status = "FAILED" /\ hash'[j].error = "exhausted"
      BY <1>2, <1>5, <2>1, WrittenFields
    <3>2. tries[p] = retries[j] /\ starts[j] = retries[j] + 1 /\ tries[p] >= MaxRetries
      BY <1>1, <1>2 DEF WorkerAgrees, GiveUp, Exhausted
    <3>3. starts[j] = MaxRetries + 1
      BY <1>2, <3>2, RedisAssumption
    <3>4. QED BY <1>1, <3>1, <3>3, RedisAssumption DEF RecordAgrees, Unfinished
  <2>2. CASE ~Applied(o)
    BY <1>1, <1>2, <1>5, <1>7, <2>2 DEF RecordAgrees
  <2>3. QED BY <2>1, <2>2
<1>9. QED BY <1>1, <1>5, <1>6, <1>7, <1>8, ProgressConsumer

\* The start is counted before the counter in the hash follows.
LEMMA ProgressStartTask ==
    ASSUME Placement, Progress, Placement', NEW p \in Procs, NEW j \in Jobs, job[p] = j,
           StartTask(p)
    PROVE  Progress'
<1>1. at[p] = "marked" /\ UNCHANGED <<hash, retries, pending, caller, tries, succeeded, lost>>
  BY DEF StartTask, client, ghosts, record
<1>2. /\ WorkerAgrees(p) /\ RecordAgrees(j) /\ hash[j] \in Hashes /\ j \notin lost
      /\ retries[j] \in 0..MaxRetries /\ tries[p] \in 0..MaxRetries /\ starts[j] \in Nat
      /\ hash[j].status # "FAILED"
  BY <1>1, ConsumerAgrees
<1>3. TypeOK
  BY DEF Placement
<1>4. /\ at'[p] = "running" /\ job'[p] = j
      /\ \A q \in Procs : q # p => at'[q] = at[q] /\ job'[q] = job[q]
  BY <1>3, ConsumerMoves DEF StartTask
<1>5. starts'[j] = starts[j] + 1 /\ \A k \in Jobs : k # j => starts'[k] = starts[k]
  BY <1>3 DEF StartTask, TypeOK
<1>6. starts[j] = retries[j]
  BY <1>1, <1>2 DEF WorkerAgrees
<1>7. hash[j].status = "RUNNING" /\ hash[j].error \in {"", "attempt"}
  BY <1>1, <1>2 DEF WorkerAgrees
<1>8. RecordAgrees(j)'
  <2>1. starts'[j] <= MaxRetries + 1
    BY <1>2, <1>5, <1>6, RedisAssumption
  <2>2. QED BY <1>1, <1>7, <2>1 DEF RecordAgrees
<1>9. WorkerAgrees(p)'
  BY <1>1, <1>2, <1>4, <1>5, <1>6, <1>7 DEF WorkerAgrees
<1>10. QED BY <1>1, <1>2, <1>4, <1>5, <1>8, <1>9, ProgressConsumer

\* The function ends; what it returned is remembered before it is written.
LEMMA ProgressEndTask ==
    ASSUME Placement, Progress, Placement', NEW p \in Procs, NEW j \in Jobs, job[p] = j,
           EndTask(p)
    PROVE  Progress'
<1>1. at[p] = "running" /\ UNCHANGED <<hash, retries, pending, caller, tries, starts, lost>>
  BY DEF EndTask, client, ghosts, record
<1>2. /\ WorkerAgrees(p) /\ RecordAgrees(j) /\ hash[j] \in Hashes /\ j \notin lost
      /\ retries[j] \in 0..MaxRetries /\ tries[p] \in 0..MaxRetries /\ starts[j] \in Nat
      /\ hash[j].status # "FAILED"
  BY <1>1, ConsumerAgrees
<1>3. TypeOK
  BY DEF Placement
<1>4. PICK step \in {"returned", "failing"} : Goto(p, step)
  BY DEF EndTask
<1>5. succeeded \subseteq succeeded' /\ (step = "returned" => j \in succeeded')
  BY <1>1, <1>4, <1>3 DEF EndTask, Goto, TypeOK
<1>6. /\ at'[p] = step /\ job'[p] = j
      /\ \A q \in Procs : q # p => at'[q] = at[q] /\ job'[q] = job[q]
  BY <1>3, <1>4, ConsumerMoves
<1>7. RecordAgrees(j)'
  BY <1>1, <1>2, <1>5 DEF RecordAgrees
<1>8. WorkerAgrees(p)'
  BY <1>1, <1>2, <1>5, <1>6 DEF WorkerAgrees
<1>9. QED BY <1>1, <1>2, <1>5, <1>6, <1>7, <1>8, ProgressConsumer

\* RUNNING is written, or the exception loses the job.
LEMMA ProgressMarkRunning ==
    ASSUME Placement, Progress, Placement', NEW p \in Procs, NEW j \in Jobs, job[p] = j,
           MarkRunning(p)
    PROVE  Progress'
<1>1. at[p] = "resolved" /\ UNCHANGED <<retries, pending, caller, tries, starts, succeeded>>
  BY DEF MarkRunning, client, ghosts
<1>2. /\ WorkerAgrees(p) /\ RecordAgrees(j) /\ hash[j] \in Hashes /\ j \notin lost
      /\ retries[j] \in 0..MaxRetries /\ tries[p] \in 0..MaxRetries /\ starts[j] \in Nat
  BY <1>1, ConsumerAgrees
<1>3. TypeOK
  BY DEF Placement
<1>4. PICK o \in Replies :
        /\ HSet(j, Running(hash[j]), o)
        /\ IF Raised(o) THEN Release(p) /\ Lose(j)
                        ELSE Goto(p, "marked") /\ UNCHANGED lost
  BY DEF MarkRunning
<1>5. /\ hash'[j] = IF Applied(o) THEN Running(hash[j]) ELSE hash[j]
      /\ \A k \in Jobs : k # j => hash'[k] = hash[k]
  BY <1>2, <1>3, <1>4, WrittenFields, HSetEffect
<1>6. o = "ok" <=> ~Raised(o)
  BY DEF Raised
<1>7. ~Raised(o) => Applied(o)
  BY DEF Raised, Applied
<1>8. /\ hash[j].status = "PENDING" /\ hash[j].error \in {"", "attempt"}
      /\ hash'[j].status \in {"PENDING", "RUNNING"} /\ hash'[j].error = hash[j].error
  <2>1. hash[j].status = "PENDING" /\ hash[j].error \in {"", "attempt"}
    BY <1>1, <1>2 DEF WorkerAgrees
  <2>2. Running(hash[j]).status = "RUNNING" /\ Running(hash[j]).error = hash[j].error
    BY <1>2, WrittenFields
  <2>3. QED BY <2>1, <2>2, <1>5
<1>9. RecordAgrees(j)'
  BY <1>1, <1>2, <1>8 DEF RecordAgrees
<1>10. CASE Raised(o)
  <2>1. Release(p) /\ lost' = lost \cup {j}
    BY <1>4, <1>10 DEF Lose
  <2>2. /\ at'[p] = "idle" /\ job'[p] = NoJob
        /\ \A q \in Procs : q # p => at'[q] = at[q] /\ job'[q] = job[q]
    BY <1>3, <2>1, ConsumerMoves
  <2>3. QED BY <1>1, <1>5, <1>9, <2>1, <2>2, ProgressConsumer
<1>11. CASE ~Raised(o)
  <2>1. Goto(p, "marked") /\ UNCHANGED lost
    BY <1>4, <1>11
  <2>2. /\ at'[p] = "marked" /\ job'[p] = j
        /\ \A q \in Procs : q # p => at'[q] = at[q] /\ job'[q] = job[q]
    BY <1>3, <2>1, ConsumerMoves
  <2>3. hash'[j].status = "RUNNING"
    BY <1>2, <1>5, <1>7, <1>11, WrittenFields
  <2>4. WorkerAgrees(p)'
    BY <1>1, <1>2, <1>8, <1>9, <2>2, <2>3 DEF WorkerAgrees
  <2>5. QED BY <1>1, <1>2, <1>5, <1>9, <2>1, <2>2, <2>3, <2>4, ProgressConsumer
<1>12. QED BY <1>10, <1>11

\* COMPLETED is written only after the function returned.
LEMMA ProgressWriteCompleted ==
    ASSUME Placement, Progress, Placement', NEW p \in Procs, NEW j \in Jobs, job[p] = j,
           WriteCompleted(p)
    PROVE  Progress'
<1>1. at[p] = "returned" /\ UNCHANGED <<retries, pending, caller, tries, starts, succeeded, lost>>
  BY DEF WriteCompleted, client, ghosts
<1>2. /\ WorkerAgrees(p) /\ RecordAgrees(j) /\ hash[j] \in Hashes /\ j \notin lost
      /\ retries[j] \in 0..MaxRetries /\ tries[p] \in 0..MaxRetries /\ starts[j] \in Nat
  BY <1>1, ConsumerAgrees
<1>3. TypeOK
  BY DEF Placement
<1>4. PICK o \in Replies :
        /\ HSet(j, Completed(hash[j]), o)
        /\ IF Raised(o) THEN Goto(p, "failing") ELSE Release(p)
  BY DEF WriteCompleted
<1>5. /\ hash'[j] = IF Applied(o) THEN Completed(hash[j]) ELSE hash[j]
      /\ \A k \in Jobs : k # j => hash'[k] = hash[k]
  BY <1>2, <1>3, <1>4, WrittenFields, HSetEffect
<1>6. o = "ok" <=> ~Raised(o)
  BY DEF Raised
<1>7. ~Raised(o) => Applied(o)
  BY DEF Raised, Applied
<1>8. /\ hash[j].status = "RUNNING" /\ hash[j].error \in {"", "attempt"} /\ j \in succeeded
      /\ hash'[j].status \in {"RUNNING", "COMPLETED"} /\ hash'[j].error = hash[j].error
      /\ hash'[j].status = "COMPLETED" => hash'[j].result = "text"
      /\ ~Raised(o) => hash'[j].status = "COMPLETED"
  <2>1. hash[j].status = "RUNNING" /\ hash[j].error \in {"", "attempt"} /\ j \in succeeded
    BY <1>1, <1>2 DEF WorkerAgrees
  <2>2. /\ Completed(hash[j]).status = "COMPLETED"
        /\ Completed(hash[j]).result = "text" /\ Completed(hash[j]).error = hash[j].error
    BY <1>2, WrittenFields
  <2>3. QED BY <2>1, <2>2, <1>5, <1>7
<1>9. RecordAgrees(j)'
  BY <1>1, <1>2, <1>8 DEF RecordAgrees
<1>10. CASE ~Raised(o)
  <2>1. /\ at'[p] = "idle" /\ job'[p] = NoJob
        /\ \A q \in Procs : q # p => at'[q] = at[q] /\ job'[q] = job[q]
    BY <1>3, <1>4, <1>10, ConsumerMoves
  <2>2. ~Unfinished(j)'
    BY <1>8, <1>10 DEF Unfinished
  <2>3. QED BY <1>1, <1>5, <1>9, <2>1, <2>2, ProgressConsumer
<1>11. CASE Raised(o)
  <2>1. /\ at'[p] = "failing" /\ job'[p] = j
        /\ \A q \in Procs : q # p => at'[q] = at[q] /\ job'[q] = job[q]
    BY <1>3, <1>4, <1>11, ConsumerMoves
  <2>2. WorkerAgrees(p)'
    BY <1>1, <1>2, <1>8, <2>1 DEF WorkerAgrees
  <2>3. QED BY <1>1, <1>2, <1>5, <1>8, <1>9, <2>1, <2>2, ProgressConsumer
<1>12. QED BY <1>10, <1>11

\* The counter written is the number of starts.
LEMMA ProgressRequeue ==
    ASSUME Placement, Progress, Placement', NEW p \in Procs, NEW j \in Jobs, job[p] = j,
           Requeue(p)
    PROVE  Progress'
<1>1. at[p] = "failing" /\ UNCHANGED <<pending, caller, tries, starts, succeeded>>
  BY DEF Requeue, client, ghosts
<1>2. /\ WorkerAgrees(p) /\ RecordAgrees(j) /\ hash[j] \in Hashes /\ j \notin lost
      /\ retries[j] \in 0..MaxRetries /\ tries[p] \in 0..MaxRetries /\ starts[j] \in Nat
  BY <1>1, ConsumerAgrees
<1>3. TypeOK
  BY DEF Placement
<1>4. PICK o \in Replies :
        /\ HSet(j, Retried(hash[j]), o)
        /\ HSetRetries(j, tries[p] + 1, o)
        /\ IF Raised(o) THEN Release(p) /\ Lose(j)
                        ELSE Goto(p, "requeued") /\ UNCHANGED lost
  BY DEF Requeue
<1>5. /\ hash'[j] = IF Applied(o) THEN Retried(hash[j]) ELSE hash[j]
      /\ \A k \in Jobs : k # j => hash'[k] = hash[k]
  BY <1>2, <1>3, <1>4, WrittenFields, HSetEffect
<1>6. o = "ok" <=> ~Raised(o)
  BY DEF Raised
<1>7. ~Raised(o) => Applied(o)
  BY DEF Raised, Applied
<1>a. tries[p] = retries[j] /\ starts[j] = retries[j] + 1 /\ tries[p] + 1 \in 0..MaxRetries
  <2>1. tries[p] = retries[j] /\ starts[j] = retries[j] + 1
    BY <1>1, <1>2 DEF WorkerAgrees
  <2>2. ~(tries[p] >= MaxRetries)
    BY DEF Requeue, Exhausted
  <2>3. QED BY <1>2, <2>1, <2>2, RedisAssumption
<1>b. /\ retries'[j] = IF Applied(o) THEN tries[p] + 1 ELSE retries[j]
      /\ \A k \in Jobs : k # j => retries'[k] = retries[k]
  BY <1>3, <1>4, <1>a, HSetRetriesEffect
<1>8. /\ hash[j].status \in {"RUNNING", "COMPLETED"} /\ hash[j].error \in {"", "attempt"}
      /\ hash'[j].status = IF Applied(o) THEN "PENDING" ELSE hash[j].status
      /\ hash'[j].error \in {"", "attempt"} /\ hash'[j].result = hash[j].result
  <2>1. hash[j].status \in {"RUNNING", "COMPLETED"} /\ hash[j].error \in {"", "attempt"}
    BY <1>1, <1>2 DEF WorkerAgrees
  <2>2. /\ Retried(hash[j]).status = "PENDING"
        /\ Retried(hash[j]).result = hash[j].result /\ Retried(hash[j]).error = "attempt"
    BY <1>2, WrittenFields
  <2>3. QED BY <2>1, <2>2, <1>5
<1>9. RecordAgrees(j)'
  BY <1>1, <1>2, <1>8 DEF RecordAgrees
<1>c. ~Raised(o) => starts'[j] = retries'[j]
  BY <1>1, <1>7, <1>a, <1>b
<1>10. CASE Raised(o)
  <2>1. Release(p) /\ lost' = lost \cup {j}
    BY <1>4, <1>10 DEF Lose
  <2>2. /\ at'[p] = "idle" /\ job'[p] = NoJob
        /\ \A q \in Procs : q # p => at'[q] = at[q] /\ job'[q] = job[q]
    BY <1>3, <2>1, ConsumerMoves
  <2>3. QED BY <1>1, <1>5, <1>9, <2>1, <2>2, ProgressConsumer, <1>b
<1>11. CASE ~Raised(o)
  <2>1. Goto(p, "requeued") /\ UNCHANGED lost
    BY <1>4, <1>11
  <2>2. /\ at'[p] = "requeued" /\ job'[p] = j
        /\ \A q \in Procs : q # p => at'[q] = at[q] /\ job'[q] = job[q]
    BY <1>3, <2>1, ConsumerMoves
  <2>3. hash'[j].status = "PENDING"
    BY <1>2, <1>5, <1>7, <1>11, WrittenFields
  <2>4. WorkerAgrees(p)'
    BY <1>1, <1>2, <1>8, <1>9, <2>2, <2>3, <1>c, <1>11 DEF WorkerAgrees
  <2>5. QED BY <1>1, <1>2, <1>5, <1>9, <2>1, <2>2, <2>3, <2>4, ProgressConsumer, <1>b
<1>12. QED BY <1>10, <1>11

\* A step that hands jobs on, or drops them, and writes no record.
LEMMA ProgressHandover ==
    ASSUME Placement, Progress, Placement',
           UNCHANGED <<hash, retries, starts, succeeded>>, lost \subseteq lost',
           \A k \in Jobs : \/ caller'[k] = caller[k]
                           \/ caller[k] = "created" /\ caller'[k] \in {"returned", "error", "died"},
           \A k \in Jobs : Queued(k)' => /\ hash[k].status = "PENDING"
                                         /\ retries[k] = starts[k]
                                         /\ hash[k].error \in {"", "attempt"},
           \A q \in Procs : at'[q] # "idle" => WorkerAgrees(q)',
           \A k \in Jobs : Held(k)' => Held(k),
           \A k \in Jobs : Held(k) /\ Unfinished(k) =>
                             \/ Held(k)' \/ k \in lost'
                             \/ caller'[k] = "error" /\ starts[k] = 0,
           \A k \in lost' : ~Held(k)' /\ caller'[k] \notin {"new", "created"}
    PROVE  Progress'
<1>1. OutsideAgrees'
  <2> SUFFICES ASSUME NEW k \in Jobs
               PROVE  /\ caller'[k] = "new" => hash[k] = NoHash
                      /\ caller'[k] = "created" => hash[k] = NewHash
                      /\ caller'[k] \in {"new", "created"} => retries[k] = 0
                      /\ caller'[k] \in {"new", "created", "died"} => starts[k] = 0
    BY DEF OutsideAgrees, Submitting, NoHash, NewHash
  <2>1. /\ caller[k] = "new" => hash[k] = NoHash
        /\ caller[k] = "created" => hash[k] = NewHash
        /\ caller[k] \in {"new", "created"} => retries[k] = 0
        /\ caller[k] \in {"new", "created", "died"} => starts[k] = 0
    BY DEF Progress, OutsideAgrees, Submitting
  <2>2. QED BY <2>1
<1>2. QueueAgrees'
  BY DEF QueueAgrees
<1>3. WorkersAgree'
  BY DEF WorkersAgree
<1>4. LostIsFree'
  BY DEF LostIsFree
<1>5. FailedIsFree'
  BY DEF Progress, FailedIsFree
<1>6. AttemptBudget' /\ TruthfulHash'
  BY DEF Progress, AttemptBudget, TruthfulHash, GetResult
<1>7. NoSilentLoss'
  <2> SUFFICES ASSUME NEW k \in Jobs, Unfinished(k)
               PROVE  Held(k)' \/ k \in lost' \/ (caller'[k] = "error" /\ starts[k] = 0)
    BY DEF NoSilentLoss, Unfinished
  <2>1. Held(k) \/ k \in lost \/ (caller[k] = "error" /\ starts[k] = 0)
    BY DEF Progress, NoSilentLoss
  <2>2. QED BY <2>1
<1>8. QED BY <1>1, <1>2, <1>3, <1>4, <1>5, <1>6, <1>7 DEF Progress

\* Consumers that do not move keep agreeing when no record is written.
LEMMA WorkerUntouched ==
    ASSUME Placement, Progress, NEW q \in Procs, at'[q] # "idle",
           UNCHANGED <<hash, retries, starts, succeeded>>,
           at'[q] = at[q], job'[q] = job[q], tries'[q] = tries[q]
    PROVE  WorkerAgrees(q)'
<1>1. WorkerAgrees(q)
  BY DEF Progress, WorkersAgree
<1>2. QED BY <1>1 DEF WorkerAgrees

\* submit() hands its job to the list, or stops with an error.
LEMMA ProgressPush ==
    ASSUME Placement, Progress, Placement', NEW j \in Jobs, Push(j)
    PROVE  Progress'
<1>1. /\ caller[j] = "created" /\ Submitting(j)
      /\ UNCHANGED <<hash, retries, starts, succeeded, at, job, tries, lost>>
  BY DEF Push, Submitting, record, ghosts
<1>2. TypeOK /\ SinglePlace
  BY DEF Placement
<1>3. PICK o \in Replies :
        /\ RPush(j, o)
        /\ caller' = [caller EXCEPT ![j] = IF Raised(o) THEN "error" ELSE "returned"]
  BY DEF Push
<1>4. /\ caller'[j] = IF Raised(o) THEN "error" ELSE "returned"
      /\ \A k \in Jobs : k # j => caller'[k] = caller[k]
  BY <1>2, <1>3 DEF TypeOK
<1>5. \A k \in Jobs : Queued(k)' <=> Queued(k) \/ (k = j /\ Applied(o))
  <2>1. CASE Applied(o)
    BY <1>2, <1>3, <2>1, AppendHas DEF RPush, Queued, TypeOK
  <2>2. CASE ~Applied(o)
    BY <1>3, <2>2 DEF RPush, Queued
  <2>3. QED BY <2>1, <2>2
<1>6. hash[j] = NewHash /\ retries[j] = 0 /\ starts[j] = 0
  BY <1>1 DEF Progress, OutsideAgrees
<1>7. hash[j].status = "PENDING" /\ hash[j].error = ""
  BY <1>6 DEF NewHash, NoHash
<1>8. ~Raised(o) => Applied(o)
  BY DEF Raised, Applied
<1>9. \A k \in Jobs : Working(k)' <=> Working(k)
  BY <1>1 DEF Working
<1>10. \A k \in Jobs : k # j => (Held(k)' <=> Held(k))
  BY <1>4, <1>5, <1>9 DEF Held, Submitting
<1>11. Held(j)
  BY <1>1 DEF Held
<1>12. Applied(o) => Held(j)'
  BY <1>5 DEF Held
<1>13. j \notin lost
  BY <1>11 DEF Progress, LostIsFree
<1>14. \A k \in Jobs : Queued(k)' => /\ hash[k].status = "PENDING"
                                     /\ retries[k] = starts[k]
                                     /\ hash[k].error \in {"", "attempt"}
  BY <1>5, <1>6, <1>7 DEF Progress, QueueAgrees
<1>15. \A q \in Procs : at'[q] # "idle" => WorkerAgrees(q)'
  BY <1>1, WorkerUntouched
<1>16. \A k \in Jobs : \/ caller'[k] = caller[k]
                       \/ caller[k] = "created" /\ caller'[k] \in {"returned", "error", "died"}
  BY <1>1, <1>4
<1>17. \A k \in Jobs : Held(k) /\ Unfinished(k) =>
                         \/ Held(k)' \/ k \in lost'
                         \/ caller'[k] = "error" /\ starts[k] = 0
  BY <1>4, <1>6, <1>8, <1>10, <1>12
<1>18. \A k \in lost' : ~Held(k)' /\ caller'[k] \notin {"new", "created"}
  BY <1>1, <1>2, <1>4, <1>10, <1>13 DEF Progress, LostIsFree, TypeOK
<1>19. \A k \in Jobs : Held(k)' => Held(k)
  BY <1>10, <1>11
<1>20. lost \subseteq lost'
  BY <1>1
<1>21. QED
  BY <1>1, <1>14, <1>15, <1>16, <1>17, <1>18, <1>19, <1>20, ProgressHandover

\* A job leaves the list for a consumer, or is lost with the reply.
LEMMA ProgressPop ==
    ASSUME Placement, Progress, Placement', NEW p \in Procs, Pop(p)
    PROVE  Progress'
<1>1. /\ at[p] = "idle" /\ pending # << >> /\ pending' = Tail(pending)
      /\ UNCHANGED <<hash, retries, caller, tries, starts, succeeded>>
  BY DEF Pop, client, ghosts, record
<1>2. TypeOK /\ SinglePlace /\ IdleIsFree
  BY DEF Placement
<1>3. PICK j \in Jobs : /\ j = Head(pending) /\ Contains(pending, j)
                        /\ \A k : Contains(pending', k) <=> Contains(pending, k) /\ k # j
  BY <1>1, <1>2, TailHas DEF TypeOK, SinglePlace
<1>4. Queued(j) /\ ~Working(j) /\ caller[j] \in {"returned", "error"} /\ Held(j)
  BY <1>2, <1>3 DEF SinglePlace, Queued, Held
<1>5. \A k \in Jobs : Queued(k)' <=> Queued(k) /\ k # j
  BY <1>3 DEF Queued
<1>6. j \notin lost
  BY <1>4 DEF Progress, LostIsFree
<1>7. /\ hash[j].status = "PENDING" /\ retries[j] = starts[j]
      /\ hash[j].error \in {"", "attempt"}
  BY <1>4 DEF Progress, QueueAgrees
<1>8. \A k \in Jobs : Queued(k)' => /\ hash[k].status = "PENDING"
                                    /\ retries[k] = starts[k]
                                    /\ hash[k].error \in {"", "attempt"}
  BY <1>5 DEF Progress, QueueAgrees
<1>9. NoJob \notin Jobs /\ job[p] = NoJob
  BY <1>1, <1>2, RedisAssumption DEF IdleIsFree
<1>10. CASE at' = [at EXCEPT ![p] = "popped"] /\ job' = [job EXCEPT ![p] = j] /\ UNCHANGED lost
  <2>1. /\ at'[p] = "popped" /\ job'[p] = j
        /\ \A q \in Procs : q # p => at'[q] = at[q] /\ job'[q] = job[q]
    BY <1>2, <1>10 DEF TypeOK
  <2>2. \A k \in Jobs : Working(k)' <=> Working(k) \/ k = j
    BY <1>9, <2>1 DEF Working
  <2>3. \A k \in Jobs : Held(k)' <=> Held(k)
    BY <1>1, <1>4, <1>5, <2>2 DEF Held, Submitting
  <2>4. WorkerAgrees(p)'
    BY <1>1, <1>7, <2>1 DEF WorkerAgrees
  <2>5. \A q \in Procs : at'[q] # "idle" => WorkerAgrees(q)'
    BY <1>1, <2>1, <2>4, WorkerUntouched
  <2>6. \A k \in lost' : ~Held(k)' /\ caller'[k] \notin {"new", "created"}
    BY <1>1, <1>2, <1>10, <2>3 DEF Progress, LostIsFree, TypeOK
  <2>7. QED
    BY <1>1, <1>8, <1>10, <2>3, <2>5, <2>6, ProgressHandover
<1>11. CASE lost' = lost \cup {j} /\ UNCHANGED <<at, job>>
  <2>1. \A k \in Jobs : Working(k)' <=> Working(k)
    BY <1>11 DEF Working
  <2>2. \A k \in Jobs : Held(k)' <=> Held(k) /\ k # j
    BY <1>1, <1>4, <1>5, <2>1 DEF Held, Submitting
  <2>3. \A q \in Procs : at'[q] # "idle" => WorkerAgrees(q)'
    BY <1>1, <1>11, WorkerUntouched
  <2>4. \A k \in lost' : ~Held(k)' /\ caller'[k] \notin {"new", "created"}
    BY <1>1, <1>2, <1>4, <1>11, <2>2 DEF Progress, LostIsFree, TypeOK
  <2>5. QED
    BY <1>1, <1>8, <1>11, <2>2, <2>3, <2>4, ProgressHandover
<1>12. QED
  BY <1>3, <1>10, <1>11 DEF Pop, Lose

\* A retried job leaves its consumer for the list, or is lost.
LEMMA ProgressRepush ==
    ASSUME Placement, Progress, Placement', NEW p \in Procs, NEW j \in Jobs, job[p] = j,
           Repush(p)
    PROVE  Progress'
<1>1. at[p] = "requeued" /\ UNCHANGED <<hash, retries, caller, tries, starts, succeeded>>
  BY DEF Repush, client, ghosts, record
<1>2. TypeOK /\ SinglePlace /\ IdleIsFree
  BY DEF Placement
<1>3. WorkerAgrees(p) /\ j \notin lost
  BY <1>1, ConsumerAgrees
<1>4. /\ hash[j].status = "PENDING" /\ retries[j] = starts[j]
      /\ hash[j].error \in {"", "attempt"}
  BY <1>1, <1>3 DEF WorkerAgrees
<1>5. /\ ~Queued(j) /\ caller[j] \in {"returned", "error"} /\ Held(j)
      /\ \A q \in Procs : q # p => job[q] # j
  BY <1>2, RedisAssumption DEF SinglePlace, Working, Held
<1>6. PICK o \in Replies : RPush(j, o) /\ LoseIf(~Applied(o), j)
  BY DEF Repush
<1>7. \A k \in Jobs : Queued(k)' <=> Queued(k) \/ (k = j /\ Applied(o))
  <2>1. CASE Applied(o)
    BY <1>2, <1>6, <2>1, AppendHas DEF RPush, Queued, TypeOK
  <2>2. CASE ~Applied(o)
    BY <1>6, <2>2 DEF RPush, Queued
  <2>3. QED BY <2>1, <2>2
<1>8. /\ at'[p] = "idle" /\ job'[p] = NoJob
      /\ \A q \in Procs : q # p => at'[q] = at[q] /\ job'[q] = job[q]
  BY <1>2, ConsumerMoves DEF Repush
<1>9. \A k \in Jobs : Working(k)' <=> Working(k) /\ k # j
  <2>1. NoJob \notin Jobs
    BY RedisAssumption
  <2>2. QED BY <1>5, <1>8, <2>1 DEF Working
<1>10. \A k \in Jobs : k # j => (Held(k)' <=> Held(k))
  BY <1>1, <1>7, <1>9 DEF Held, Submitting
<1>11. Held(j)' <=> Applied(o)
  BY <1>1, <1>5, <1>7, <1>9 DEF Held, Submitting
<1>12. \A k \in Jobs : Queued(k)' => /\ hash[k].status = "PENDING"
                                     /\ retries[k] = starts[k]
                                     /\ hash[k].error \in {"", "attempt"}
  BY <1>4, <1>7 DEF Progress, QueueAgrees
<1>13. \A q \in Procs : at'[q] # "idle" => WorkerAgrees(q)'
  BY <1>1, <1>8, WorkerUntouched
<1>14. lost \subseteq lost' /\ lost' = IF Applied(o) THEN lost ELSE lost \cup {j}
  BY <1>6 DEF LoseIf
<1>15. \A k \in lost' : ~Held(k)' /\ caller'[k] \notin {"new", "created"}
  BY <1>1, <1>2, <1>3, <1>5, <1>10, <1>11, <1>14 DEF Progress, LostIsFree, TypeOK
<1>16. \A k \in Jobs : Held(k)' => Held(k)
  BY <1>5, <1>10
<1>17. \A k \in Jobs : Held(k) => Held(k)' \/ k \in lost'
  BY <1>10, <1>11, <1>14
<1>18. QED
  BY <1>1, <1>12, <1>13, <1>14, <1>15, <1>16, <1>17, ProgressHandover

\* A crash takes away what the process held, and nothing else.
LEMMA ProgressCrash ==
    ASSUME Placement, Progress, Placement', NEW p \in Procs, Crash(p)
    PROVE  Progress'
<1>1. UNCHANGED <<hash, retries, pending, tries, starts, succeeded>>
  BY DEF Crash, ghosts, record
<1>2. TypeOK /\ SinglePlace /\ IdleIsFree
  BY DEF Placement
<1>3. \A k \in Jobs : caller'[k] = IF Submitting(k) /\ home[k] = p THEN "died" ELSE caller[k]
  BY DEF Crash
<1>4. lost' = lost \cup {k \in Jobs : \/ Submitting(k) /\ home[k] = p
                                      \/ job[p] = k /\ Unfinished(k)}
  BY DEF Crash
<1>5. /\ at'[p] = "idle" /\ job'[p] = NoJob
      /\ \A q \in Procs : q # p => at'[q] = at[q] /\ job'[q] = job[q]
  BY <1>2, ConsumerMoves DEF Crash
<1>6. \A k \in Jobs : /\ Queued(k)' <=> Queued(k)
                      /\ Submitting(k)' <=> Submitting(k) /\ home[k] # p
  BY <1>1, <1>3 DEF Queued, Submitting
<1>7. \A k \in Jobs : Working(k)' <=> Working(k) /\ job[p] # k
  <2>1. NoJob \notin Jobs
    BY RedisAssumption
  <2>2. \A k \in Jobs : job[p] = k => \A q \in Procs : q # p => job[q] # k
    BY <1>2, <2>1 DEF SinglePlace
  <2>3. QED BY <1>5, <2>1, <2>2 DEF Working
<1>8. \A k \in Jobs : Queued(k)' => /\ hash[k].status = "PENDING"
                                    /\ retries[k] = starts[k]
                                    /\ hash[k].error \in {"", "attempt"}
  BY <1>6 DEF Progress, QueueAgrees
<1>9. \A q \in Procs : at'[q] # "idle" => WorkerAgrees(q)'
  BY <1>1, <1>5, WorkerUntouched
<1>10. \A k \in Jobs : Held(k)' => Held(k)
  BY <1>6, <1>7 DEF Held
<1>11. \A k \in Jobs : Held(k) /\ Unfinished(k) => Held(k)' \/ k \in lost'
  BY <1>4, <1>6, <1>7 DEF Held
<1>12. \A k \in Jobs : \/ caller'[k] = caller[k]
                       \/ caller[k] = "created" /\ caller'[k] \in {"returned", "error", "died"}
  BY <1>3 DEF Submitting
<1>13. \A k \in lost' : ~Held(k)' /\ caller'[k] \notin {"new", "created"}
  <2> SUFFICES ASSUME NEW k \in lost' PROVE ~Held(k)' /\ caller'[k] \notin {"new", "created"}
    OBVIOUS
  <2>1. k \in Jobs
    BY <1>2, <1>4 DEF TypeOK
  <2>2. CASE k \in lost
    <3>1. ~Held(k) /\ caller[k] \notin {"new", "created"}
      BY <2>2 DEF Progress, LostIsFree
    <3>2. QED BY <1>3, <1>10, <2>1, <3>1
  <2>3. CASE Submitting(k) /\ home[k] = p
    <3>1. ~Queued(k) /\ ~Working(k)
      BY <1>2, <2>1, <2>3 DEF SinglePlace, Submitting
    <3>2. QED BY <1>3, <1>6, <1>7, <2>1, <2>3, <3>1 DEF Held
  <2>4. CASE job[p] = k
    <3>1. Working(k)
      BY <2>4 DEF Working
    <3>2. ~Queued(k) /\ caller[k] \in {"returned", "error"}
      BY <1>2, <2>1, <3>1 DEF SinglePlace
    <3>3. ~Submitting(k)
      BY <3>2 DEF Submitting
    <3>4. QED BY <1>3, <1>6, <1>7, <2>1, <2>4, <3>2, <3>3 DEF Held
  <2>5. QED BY <1>4, <2>2, <2>3, <2>4
<1>14. lost \subseteq lost'
  BY <1>4
<1>15. QED
  BY <1>1, <1>8, <1>9, <1>10, <1>11, <1>12, <1>13, <1>14, ProgressHandover

\* The first command of submit() writes a new record.
LEMMA ProgressCreateHash ==
    ASSUME Placement, Progress, Placement', NEW j \in Jobs, CreateHash(j)
    PROVE  Progress'
<1>1. /\ caller[j] = "new"
      /\ UNCHANGED <<pending, at, job, tries, starts, succeeded, lost>>
  BY DEF CreateHash, ghosts
<1>2. TypeOK /\ SinglePlace /\ IdleIsFree
  BY DEF Placement
<1>3. PICK o \in Replies :
        /\ HSet(j, NewHash, o) /\ HSetRetries(j, 0, o)
        /\ caller' = [caller EXCEPT ![j] = IF Raised(o) THEN "error" ELSE "created"]
  BY DEF CreateHash
<1>4. /\ caller'[j] = IF Raised(o) THEN "error" ELSE "created"
      /\ \A k \in Jobs : k # j => caller'[k] = caller[k]
  BY <1>2, <1>3 DEF TypeOK
<1>5. /\ hash[j] = NoHash /\ retries[j] = 0 /\ starts[j] = 0
  BY <1>1 DEF Progress, OutsideAgrees
<1>6. /\ hash'[j] = IF Applied(o) THEN NewHash ELSE NoHash
      /\ \A k \in Jobs : k # j => hash'[k] = hash[k]
  BY <1>2, <1>3, <1>5, NewFields, HSetEffect
<1>7. retries'[j] = 0 /\ \A k \in Jobs : k # j => retries'[k] = retries[k]
  BY <1>2, <1>3, <1>5, RedisAssumption DEF HSetRetries, TypeOK
<1>8. /\ hash'[j].status \in {"ABSENT", "PENDING"} /\ hash'[j].error = ""
  BY <1>6, NewFields
<1>9. ~Raised(o) => Applied(o)
  BY DEF Raised, Applied
<1>10. ~Queued(j) /\ ~Working(j) /\ j \notin lost
  BY <1>1, <1>2 DEF SinglePlace, Progress, LostIsFree
<1>11. \A k \in Jobs : /\ Queued(k)' <=> Queued(k)
                       /\ Working(k)' <=> Working(k)
                       /\ k # j => (Submitting(k)' <=> Submitting(k))
  BY <1>1, <1>4 DEF Queued, Working, Submitting
<1>12. \A k \in Jobs : k # j => (Held(k)' <=> Held(k))
  BY <1>11 DEF Held
<1>13. Held(j)' <=> ~Raised(o)
  BY <1>4, <1>10, <1>11 DEF Held, Submitting
<1>14. OutsideAgrees'
  <2> SUFFICES ASSUME NEW k \in Jobs
               PROVE  /\ caller'[k] = "new" => hash'[k] = NoHash
                      /\ caller'[k] = "created" => hash'[k] = NewHash
                      /\ caller'[k] \in {"new", "created"} => retries'[k] = 0
                      /\ caller'[k] \in {"new", "created", "died"} => starts'[k] = 0
    BY DEF OutsideAgrees, Submitting
  <2>1. CASE k = j
    BY <1>1, <1>4, <1>5, <1>6, <1>7, <1>9, <2>1
  <2>2. CASE k # j
    BY <1>1, <1>4, <1>6, <1>7, <2>2 DEF Progress, OutsideAgrees, Submitting
  <2>3. QED BY <2>1, <2>2
<1>15. QueueAgrees'
  <2> SUFFICES ASSUME NEW k \in Jobs, Queued(k)'
               PROVE  /\ hash'[k].status = "PENDING"
                      /\ retries'[k] = starts'[k]
                      /\ hash'[k].error \in {"", "attempt"}
    BY DEF QueueAgrees
  <2>1. Queued(k) /\ k # j
    BY <1>10, <1>11
  <2>2. hash'[k] = hash[k] /\ retries'[k] = retries[k] /\ starts'[k] = starts[k]
    BY <1>1, <1>6, <1>7, <2>1
  <2>3. QED BY <2>1, <2>2 DEF Progress, QueueAgrees
<1>16. WorkersAgree'
  <2> SUFFICES ASSUME NEW q \in Procs, at'[q] # "idle" PROVE WorkerAgrees(q)'
    BY DEF WorkersAgree
  <2>1. WorkerAgrees(q) /\ job[q] \in Jobs /\ job[q] # j
    BY <1>1, <1>2, <1>10, ConsumerAgrees DEF Working
  <2>2. /\ hash'[job'[q]] = hash[job[q]] /\ retries'[job'[q]] = retries[job[q]]
        /\ starts'[job'[q]] = starts[job[q]] /\ at'[q] = at[q] /\ tries'[q] = tries[q]
        /\ job'[q] = job[q] /\ succeeded' = succeeded
    BY <1>1, <1>6, <1>7, <2>1
  <2>3. QED BY <2>1, <2>2 DEF WorkerAgrees
<1>17. LostIsFree'
  BY <1>1, <1>2, <1>4, <1>10, <1>12 DEF Progress, LostIsFree, TypeOK
<1>18. \A k \in Jobs : RecordAgrees(k)'
  <2>1. ASSUME NEW k \in Jobs, k # j PROVE RecordAgrees(k)'
    <3>1. RecordAgrees(k)
      BY RecordsAgree
    <3>2. QED BY <1>1, <1>6, <1>7, <2>1, <3>1 DEF RecordAgrees
  <2>2. RecordAgrees(j)'
    <3>1. starts'[j] <= MaxRetries + 1
      BY <1>1, <1>5, RedisAssumption
    <3>2. QED BY <1>8, <3>1 DEF RecordAgrees
  <2>3. QED BY <2>1, <2>2
<1>19. FailedIsFree'
  BY <1>8, <1>6, <1>12, <1>18 DEF Progress, FailedIsFree, RecordAgrees
<1>20. AttemptBudget'
  BY <1>18 DEF AttemptBudget, RecordAgrees
<1>21. NoSilentLoss'
  <2> SUFFICES ASSUME NEW k \in Jobs, Unfinished(k)'
               PROVE  Held(k)' \/ k \in lost' \/ (caller'[k] = "error" /\ starts'[k] = 0)
    BY DEF NoSilentLoss
  <2>1. CASE k = j
    BY <1>1, <1>4, <1>5, <1>13, <2>1
  <2>2. CASE k # j
    <3>1. Unfinished(k)
      BY <1>6, <2>2 DEF Unfinished
    <3>2. QED BY <1>1, <1>4, <1>12, <2>2, <3>1 DEF Progress, NoSilentLoss
  <2>3. QED BY <2>1, <2>2
<1>22. TruthfulHash'
  <2>1. \A k \in Jobs : GetResult(k)' = "text" <=> (hash'[k].status = "COMPLETED" /\ hash'[k].result = "text")
    BY DEF GetResult
  <2>2. QED BY <1>18, <2>1 DEF TruthfulHash, RecordAgrees
<1>23. QED
  BY <1>14, <1>15, <1>16, <1>17, <1>19, <1>20, <1>21, <1>22 DEF Progress

\* Every step keeps records, counters and holders in agreement.
LEMMA ProgressStep == Placement /\ Placement' /\ Progress /\ [Next]_vars => Progress'
<1> SUFFICES ASSUME Placement, Placement', Progress, [Next]_vars PROVE Progress'
  OBVIOUS
<1>1. \A p \in Procs : at[p] # "idle" => job[p] \in Jobs
  BY ConsumerAgrees
<1>2. ASSUME NEW j \in Jobs, CreateHash(j) PROVE Progress'
  BY <1>2, ProgressCreateHash
<1>3. ASSUME NEW j \in Jobs, Push(j) PROVE Progress'
  BY <1>3, ProgressPush
<1>4. ASSUME NEW p \in Procs, Pop(p) PROVE Progress'
  BY <1>4, ProgressPop
<1>5. ASSUME NEW p \in Procs, Execute(p) PROVE Progress'
  <2>1. job[p] \in Jobs
    BY <1>1, <1>5 DEF Execute, Load, FailUnresolved, MarkRunning, StartTask, EndTask,
                      WriteCompleted, Requeue, Repush, GiveUp
  <2>2. QED
    BY <1>5, <2>1, ProgressLoad, ProgressFailUnresolved, ProgressMarkRunning, ProgressStartTask,
       ProgressEndTask, ProgressWriteCompleted, ProgressRequeue, ProgressRepush, ProgressGiveUp
    DEF Execute
<1>6. ASSUME NEW p \in Procs, Crash(p) PROVE Progress'
  BY <1>6, ProgressCrash
<1>7. CASE UNCHANGED vars
  <2>1. UNCHANGED <<hash, retries, pending, caller, at, job, tries, starts, succeeded, lost>>
    BY <1>7 DEF vars, record, client, ghosts
  <2>2. \A q \in Procs : at'[q] # "idle" => WorkerAgrees(q)'
    BY <2>1, WorkerUntouched
  <2>3. \A k \in Jobs : /\ Held(k)' <=> Held(k)
                        /\ Queued(k)' <=> Queued(k)
    BY <2>1 DEF Held, Submitting, Queued, Working
  <2>4. \A k \in Jobs : Queued(k) => /\ hash[k].status = "PENDING"
                                     /\ retries[k] = starts[k]
                                     /\ hash[k].error \in {"", "attempt"}
    BY DEF Progress, QueueAgrees
  <2>5. \A k \in lost' : ~Held(k)' /\ caller'[k] \notin {"new", "created"}
    BY <2>1, <2>3 DEF Progress, LostIsFree, Placement, TypeOK
  <2>6. QED BY <2>1, <2>2, <2>3, <2>4, <2>5, ProgressHandover
<1>8. QED
  BY <1>2, <1>3, <1>4, <1>5, <1>6, <1>7 DEF Next

\* In every reachable state the record of a job agrees with where its holder stands.
THEOREM ProgressInvariant == Spec => []Progress
<1>1. Spec => []Placement
  BY PlacementInvariant
<1>2. QED BY <1>1, ProgressInit, ProgressStep, PTL DEF Spec

\* The function of a job is called MaxRetries + 1 times at most, over all
\* replicas, crashes and lost replies.
THEOREM AttemptsStayInBudget == Spec => []AttemptBudget
BY ProgressInvariant, PTL DEF Progress

\* A job that waits in the list has been attempted as often as its counter says.
THEOREM AttemptsAreCounted == Spec => []AttemptsCounted
<1>1. Progress => AttemptsCounted
  BY DEF Progress, QueueAgrees, AttemptsCounted
<1>2. QED BY <1>1, ProgressInvariant, PTL

\* An unfinished job has a holder, or a fault is to blame.
THEOREM JobsAreNotLostSilently == Spec => []NoSilentLoss
BY ProgressInvariant, PTL DEF Progress

\* COMPLETED follows a run that returned, "exhausted" follows every attempt, and
\* "unregistered" stands in for one.
THEOREM HashesAreTruthful == Spec => []TruthfulHash
BY ProgressInvariant, PTL DEF Progress

-------------------------------------------------------------------------------
\* A step on job j leaves the records of all others alone.
Touches(j) == \A k \in Jobs : k # j => /\ hash'[k] = hash[k]
                                       /\ retries'[k] = retries[k]
                                       /\ starts'[k] = starts[k]

\* Only the consumer of a job writes its record, once submit() created it.
LEMMA ConsumerTouches ==
    ASSUME Placement, Progress, NEW p \in Procs, at[p] # "idle", Execute(p)
    PROVE  Touches(job[p])
<1> DEFINE j == job[p]
<1>1. TypeOK /\ j \in Jobs /\ hash[j] \in Hashes
  BY ConsumerAgrees DEF Placement
<1>2. \A o : \A h \in Hashes : HSet(j, h, o) => \A k \in Jobs : k # j => hash'[k] = hash[k]
  BY <1>1, HSetEffect
<1>3. /\ Running(hash[j]) \in Hashes /\ Completed(hash[j]) \in Hashes /\ Retried(hash[j]) \in Hashes
      /\ Failed(hash[j], "unregistered") \in Hashes /\ Failed(hash[j], "exhausted") \in Hashes
  BY <1>1, WrittenFields
<1>4. CASE Load(p) \/ EndTask(p) \/ Repush(p)
  BY <1>4 DEF Load, EndTask, Repush, Touches, record, ghosts
<1>5. CASE FailUnresolved(p)
  BY <1>2, <1>3, <1>5 DEF FailUnresolved, Touches, ghosts
<1>6. CASE MarkRunning(p)
  BY <1>2, <1>3, <1>6 DEF MarkRunning, Touches, ghosts
<1>7. CASE StartTask(p)
  BY <1>1, <1>7 DEF StartTask, Touches, TypeOK, record
<1>8. CASE WriteCompleted(p)
  BY <1>2, <1>3, <1>8 DEF WriteCompleted, Touches, ghosts
<1>9. CASE Requeue(p)
  <2>1. \A k \in Jobs : k # j => hash'[k] = hash[k]
    BY <1>2, <1>3, <1>9 DEF Requeue
  <2>2. \A k \in Jobs : k # j => retries'[k] = retries[k]
    BY <1>1, <1>9 DEF Requeue, HSetRetries, TypeOK
  <2>3. UNCHANGED starts
    BY <1>9 DEF Requeue, ghosts
  <2>4. QED BY <2>1, <2>2, <2>3 DEF Touches
<1>10. CASE GiveUp(p)
  BY <1>2, <1>3, <1>10 DEF GiveUp, Touches, ghosts
<1>11. QED BY <1>4, <1>5, <1>6, <1>7, <1>8, <1>9, <1>10 DEF Execute

\* No step changes the record of a FAILED job.
LEMMA FailedStep == Placement /\ Progress /\ [Next]_vars => FailedUntouched
<1> SUFFICES ASSUME Placement, Progress, [Next]_vars, NEW j \in Jobs, hash[j].status = "FAILED"
             PROVE  hash'[j] = hash[j] /\ retries'[j] = retries[j] /\ starts'[j] = starts[j]
  BY DEF FailedUntouched
<1>1. TypeOK /\ ~Held(j)
  BY DEF Placement, Progress, FailedIsFree
<1>2. caller[j] # "new"
  BY NewFields DEF Progress, OutsideAgrees
<1>3. ASSUME NEW k \in Jobs, CreateHash(k) PROVE Touches(k)
  <2>1. PICK o \in Replies : HSet(k, NewHash, o) /\ HSetRetries(k, 0, o)
    BY <1>3 DEF CreateHash
  <2>2. \A i \in Jobs : i # k => hash'[i] = hash[i]
    BY <1>1, <2>1, NewFields, HSetEffect
  <2>3. \A i \in Jobs : i # k => retries'[i] = retries[i]
    BY <1>1, <2>1 DEF HSetRetries, TypeOK
  <2>4. UNCHANGED starts
    BY <1>3 DEF CreateHash, ghosts
  <2>5. QED BY <2>2, <2>3, <2>4 DEF Touches
<1>4. ASSUME NEW k \in Jobs, CreateHash(k) PROVE j # k
  BY <1>2, <1>4 DEF CreateHash
<1>5. ASSUME NEW p \in Procs, Execute(p)
      PROVE  hash'[j] = hash[j] /\ retries'[j] = retries[j] /\ starts'[j] = starts[j]
  <2>1. at[p] # "idle"
    BY <1>5 DEF Execute, Load, FailUnresolved, MarkRunning, StartTask, EndTask,
                WriteCompleted, Requeue, Repush, GiveUp
  <2>2. j # job[p]
    BY <1>1 DEF Held, Working
  <2>3. QED BY <1>5, <2>1, <2>2, ConsumerTouches DEF Touches
<1>6. ASSUME \/ \E k \in Jobs : Push(k)
             \/ \E p \in Procs : Pop(p) \/ Crash(p)
             \/ UNCHANGED vars
      PROVE  UNCHANGED <<hash, retries, starts>>
  BY <1>6 DEF Push, Pop, Crash, vars, record, ghosts
<1>7. QED
  BY <1>3, <1>4, <1>5, <1>6 DEF Next, Touches

\* FAILED is for good: no process changes the record, or runs the job, again.
THEOREM FailedStaysFailed == Spec => FailedForGood
<1>1. Spec => []Placement /\ []Progress
  BY PlacementInvariant, ProgressInvariant
<1>2. Spec => [][FailedUntouched]_vars
  BY <1>1, FailedStep, PTL DEF Spec
<1>3. QED BY <1>2 DEF FailedForGood
-------------------------------------------------------------------------------
(* A Redis that loses no reply.  A command that raised had no effect then, which is *)
(* what the caller of submit() and the try of _execute go by.                       *)

RepliesArrive == "lostReply" \notin Faults

\* An error means that nothing was done.
LEMMA ErrorsAreRefusals ==
    ASSUME RepliesArrive, NEW o \in Replies
    PROVE  Raised(o) <=> ~Applied(o)
BY DEF RepliesArrive, Replies, Raised, Applied

\* A job whose submit() ended in an error never reached the list.
ErrorIsOut == \A j \in Jobs : caller[j] = "error" => ~Queued(j) /\ ~Working(j) /\ starts[j] = 0

\* A consumer holds what it held before its step, or nothing, or what it popped.
LEMMA ConsumersHold ==
    ASSUME Placement, Next
    PROVE  \A q \in Procs : \/ job'[q] \in {job[q], NoJob}
                            \/ Pop(q) /\ job'[q] = Head(pending)
<1> SUFFICES ASSUME NEW q \in Procs
             PROVE  job'[q] \in {job[q], NoJob} \/ (Pop(q) /\ job'[q] = Head(pending))
  OBVIOUS
<1>1. TypeOK
  BY DEF Placement
<1>2. ASSUME NEW p \in Procs, UNCHANGED job \/ Release(p) PROVE job'[q] \in {job[q], NoJob}
  BY <1>1, <1>2 DEF Release, TypeOK
<1>3. ASSUME NEW p \in Procs, Execute(p) PROVE UNCHANGED job \/ Release(p)
  BY <1>3 DEF Execute, Load, FailUnresolved, MarkRunning, StartTask, EndTask, WriteCompleted,
              Requeue, Repush, GiveUp, Goto
<1>4. ASSUME NEW p \in Procs, Pop(p)
      PROVE  job'[q] = job[q] \/ (q = p /\ job'[q] = Head(pending))
  BY <1>1, <1>4 DEF Pop, TypeOK
<1>5. ASSUME NEW p \in Procs, Crash(p) PROVE Release(p)
  BY <1>5 DEF Crash
<1>6. ASSUME NEW j \in Jobs, CreateHash(j) \/ Push(j) PROVE UNCHANGED job
  BY <1>6 DEF CreateHash, Push
<1> QED BY <1>2, <1>3, <1>4, <1>5, <1>6 DEF Next

\* Nobody is told of an error and has the job run after all.
LEMMA ErrorStep ==
    ASSUME RepliesArrive, Placement, Progress, ErrorIsOut, [Next]_vars
    PROVE  ErrorIsOut'
<1> SUFFICES ASSUME NEW j \in Jobs, caller'[j] = "error"
             PROVE  ~Queued(j)' /\ ~Working(j)' /\ starts'[j] = 0
  BY DEF ErrorIsOut
<1> USE RedisAssumption
<1>1. TypeOK /\ SinglePlace /\ OutsideAgrees
  BY DEF Placement, Progress
<1>2. caller[j] = "error" => ~Queued(j) /\ ~Working(j) /\ starts[j] = 0
  BY DEF ErrorIsOut
<1>3. CASE UNCHANGED vars
  BY <1>2, <1>3 DEF vars, Queued, Working, client, ghosts
<1>4. ASSUME NEW k \in Jobs, CreateHash(k) PROVE ~Queued(j)' /\ ~Working(j)' /\ starts'[j] = 0
  <2>1. caller[k] = "new" /\ (j # k => caller[j] = "error")
    BY <1>1, <1>4 DEF CreateHash, TypeOK
  <2>2. ~Queued(j) /\ ~Working(j) /\ starts[j] = 0
    BY <1>1, <1>2, <2>1 DEF SinglePlace, OutsideAgrees
  <2> QED BY <1>4, <2>2 DEF CreateHash, Queued, Working, ghosts
<1>5. ASSUME NEW k \in Jobs, Push(k) PROVE ~Queued(j)' /\ ~Working(j)' /\ starts'[j] = 0
  <2>1. PICK o \in Replies :
          /\ RPush(k, o)
          /\ caller' = [caller EXCEPT ![k] = IF Raised(o) THEN "error" ELSE "returned"]
    BY <1>5 DEF Push
  <2>2. caller[k] = "created" /\ UNCHANGED <<job, starts>> /\ pending \in Seq(Jobs)
    BY <1>1, <1>5 DEF Push, Submitting, ghosts, TypeOK
  <2>3. ~Queued(j) /\ ~Working(j) /\ starts[j] = 0
    BY <1>1, <1>2, <2>1, <2>2 DEF SinglePlace, OutsideAgrees, TypeOK
  <2>4. j # k \/ Raised(o)
    BY <1>1, <2>1 DEF TypeOK
  <2>5. pending' = pending \/ (j # k /\ pending' = Append(pending, k))
    BY <2>1, <2>4, ErrorsAreRefusals DEF RPush
  <2>6. ~Queued(j)'
    <3>1. \A y : Contains(Append(pending, k), y) <=> Contains(pending, y) \/ y = k
      BY <2>2, AppendHas
    <3> QED BY <2>3, <2>5, <3>1 DEF Queued
  <2> QED BY <2>2, <2>3, <2>6 DEF Working
<1>6. ASSUME NEW p \in Procs, Pop(p) \/ Execute(p) \/ Crash(p)
      PROVE  ~Queued(j)' /\ ~Working(j)' /\ starts'[j] = 0
  <2>1. caller[j] = "error"
    BY <1>1, <1>6 DEF Pop, Execute, Load, FailUnresolved, MarkRunning, StartTask, EndTask,
                      WriteCompleted, Requeue, Repush, GiveUp, Crash, client, TypeOK
  <2>2. ~Queued(j) /\ ~Working(j) /\ starts[j] = 0
    BY <1>2, <2>1
  <2>3. ~Working(j)'
    <3>1. Next
      BY <1>6 DEF Next
    <3>2. \A q \in Procs : Pop(q) => Head(pending) # j
      BY <1>1, <2>2, TailHas DEF Pop, TypeOK, SinglePlace, Queued
    <3> QED BY <2>2, <3>1, <3>2, ConsumersHold DEF Working
  <2>4. ~Queued(j)'
    <3>1. CASE Pop(p)
      BY <1>1, <2>2, <3>1, TailHas DEF Pop, TypeOK, SinglePlace, Queued
    <3>2. CASE Repush(p)
      <4>1. job[p] \in Jobs /\ job[p] # j
        BY <2>2, <3>2, ConsumerAgrees DEF Repush, Working
      <4>2. pending' = pending \/ pending' = Append(pending, job[p])
        BY <3>2 DEF Repush, RPush
      <4>3. \A y : Contains(Append(pending, job[p]), y) <=> Contains(pending, y) \/ y = job[p]
        BY <1>1, <4>1, AppendHas DEF TypeOK
      <4> QED BY <2>2, <4>1, <4>2, <4>3 DEF Queued
    <3>3. CASE Execute(p) /\ ~Repush(p)
      BY <2>2, <3>3 DEF Execute, Load, FailUnresolved, MarkRunning, StartTask, EndTask,
                        WriteCompleted, Requeue, GiveUp, Queued
    <3>4. CASE Crash(p)
      BY <2>2, <3>4 DEF Crash, Queued
    <3> QED BY <1>6, <3>1, <3>2, <3>3, <3>4
  <2>5. starts'[j] = 0
    <3>1. CASE Execute(p)
      <4>1. at[p] # "idle"
        BY <3>1 DEF Execute, Load, FailUnresolved, MarkRunning, StartTask, EndTask,
                    WriteCompleted, Requeue, Repush, GiveUp
      <4> QED BY <2>2, <3>1, <4>1, ConsumerTouches DEF Touches, Working
    <3>2. CASE Pop(p) \/ Crash(p)
      BY <2>2, <3>2 DEF Pop, Crash, ghosts
    <3> QED BY <1>6, <3>1, <3>2
  <2> QED BY <2>3, <2>4, <2>5
<1> QED BY <1>3, <1>4, <1>5, <1>6 DEF Next

\* While Redis loses no reply, a submit() that answered with an error, or died, leaves no
\* job that is run, by any replica, ever (redis_queue.py, submit).
THEOREM ErrorsNeverRun == ASSUME RepliesArrive PROVE Spec => []ErrorNeverRuns
<1>1. Init => ErrorIsOut
  BY DEF Init, ErrorIsOut
<1>2. ErrorIsOut /\ Progress => ErrorNeverRuns
  BY DEF ErrorIsOut, Progress, OutsideAgrees, ErrorNeverRuns
<1>3. Placement /\ Progress /\ ErrorIsOut /\ [Next]_vars => ErrorIsOut'
  BY ErrorStep
<1>4. Spec => []Placement /\ []Progress
  BY PlacementInvariant, ProgressInvariant
<1> QED BY <1>1, <1>2, <1>3, <1>4, PTL DEF Spec
-------------------------------------------------------------------------------
(* The refinement: what a step does to the hash of its job is a step of JobService. *)

\* The status field, as a client of the service sees it.
Status == [j \in Jobs |-> hash[j].status]

\* An attempt that failed left the hash as MarkRunning() wrote it: a COMPLETED that raised
\* was not applied.  (With lost replies it may have been: see the run redis_succeeded.)
FailingRuns == \A p \in Procs : at[p] = "failing" => hash[job[p]].status = "RUNNING"

\* A write to one hash moves one status.
LEMMA HashMoves ==
    ASSUME TypeOK, NEW j \in Jobs, NEW h \in Hashes, NEW o, HSet(j, h, o), Applied(o),
           UNCHANGED starts, NEW from, hash[j].status \in from
    PROVE  Service!Move(j, from, h.status)
<1>1. \A k \in Jobs : hash'[k] = IF k = j THEN h ELSE hash[k]
  BY HSetEffect
<1>2. Status' = [Status EXCEPT ![j] = h.status]
  BY <1>1 DEF Status
<1>3. Status[j] \in from
  BY DEF Status
<1> QED BY <1>2, <1>3 DEF Service!Move, Status

\* Each step of a consumer is what JobService allows at that point of the job's life.
LEMMA ExecuteServes ==
    ASSUME Placement, Progress, FailingRuns, NEW p \in Procs, Execute(p),
           NEW j, j = job[p], NEW h, h = hash[j]
    PROVE  [Service!Next]_(Service!vars)
<1>1. at[p] # "idle"
  BY DEF Execute, Load, FailUnresolved, MarkRunning, StartTask, EndTask, WriteCompleted,
         Requeue, Repush, GiveUp
<1>2. /\ TypeOK /\ j \in Jobs /\ h \in Hashes /\ WorkerAgrees(p)
      /\ retries[j] \in 0..MaxRetries /\ tries[p] \in 0..MaxRetries
      /\ starts[j] \in Nat /\ MaxRetries \in Nat
  BY <1>1, ConsumerAgrees DEF Placement
<1>3. /\ Running(h) \in Hashes /\ Running(h).status = "RUNNING"
      /\ Completed(h) \in Hashes /\ Completed(h).status = "COMPLETED"
      /\ Retried(h) \in Hashes /\ Retried(h).status = "PENDING"
      /\ \A why \in {"exhausted", "unregistered"} :
           Failed(h, why) \in Hashes /\ Failed(h, why).status = "FAILED"
  BY <1>2, WrittenFields
<1>4. CASE Load(p) \/ EndTask(p) \/ Repush(p)
  BY <1>4 DEF Load, EndTask, Repush, record, ghosts, Service!vars
<1>5. CASE FailUnresolved(p)
  <2>1. PICK o \in Replies : HSet(j, Failed(h, "unregistered"), o) /\ UNCHANGED starts
    BY <1>5 DEF FailUnresolved, ghosts
  <2>2. h.status \in Service!Unfinished
    BY <1>2, <1>5 DEF FailUnresolved, WorkerAgrees, Service!Unfinished
  <2>3. Applied(o) => Service!Fail(j)
    BY <1>2, <1>3, <2>1, <2>2, HashMoves DEF Service!Fail
  <2>4. ~Applied(o) => UNCHANGED Service!vars
    BY <2>1 DEF HSet, Service!vars
  <2> QED BY <1>2, <2>3, <2>4 DEF Service!Next
<1>6. CASE MarkRunning(p)
  <2>1. PICK o \in Replies : HSet(j, Running(h), o) /\ UNCHANGED starts
    BY <1>6 DEF MarkRunning, ghosts
  <2>2. h.status \in {"PENDING"}
    BY <1>2, <1>6 DEF MarkRunning, WorkerAgrees
  <2>3. Applied(o) => Service!MarkRunning(j)
    BY <1>2, <1>3, <2>1, <2>2, HashMoves DEF Service!MarkRunning
  <2>4. ~Applied(o) => UNCHANGED Service!vars
    BY <2>1 DEF HSet, Service!vars
  <2> QED BY <1>2, <2>3, <2>4 DEF Service!Next
<1>7. CASE StartTask(p)
  <2>0. at[p] = "marked"
    BY <1>7 DEF StartTask
  <2>1. h.status = "RUNNING" /\ starts[j] = retries[j]
    BY <1>2, <2>0 DEF WorkerAgrees
  <2>2. starts' = [starts EXCEPT ![j] = @ + 1] /\ UNCHANGED hash
    BY <1>7 DEF StartTask, record
  <2>3. Service!Run(j)
    BY <1>2, <2>1, <2>2 DEF Service!Run, Service!Unfinished
  <2> QED BY <1>2, <2>3 DEF Service!Next
<1>8. CASE WriteCompleted(p)
  <2>1. PICK o \in Replies : HSet(j, Completed(h), o) /\ UNCHANGED starts
    BY <1>8 DEF WriteCompleted, ghosts
  <2>0. at[p] = "returned"
    BY <1>8 DEF WriteCompleted
  <2>2. h.status \in Service!Unfinished /\ starts[j] = retries[j] + 1
    BY <1>2, <2>0 DEF WorkerAgrees, Service!Unfinished
  <2>3. Applied(o) => Service!Complete(j)
    BY <1>2, <1>3, <2>1, <2>2, HashMoves DEF Service!Complete
  <2>4. ~Applied(o) => UNCHANGED Service!vars
    BY <2>1 DEF HSet, Service!vars
  <2> QED BY <1>2, <2>3, <2>4 DEF Service!Next
<1>9. CASE Requeue(p)
  <2>1. PICK o \in Replies : HSet(j, Retried(h), o) /\ UNCHANGED starts
    BY <1>9 DEF Requeue, ghosts
  <2>0. at[p] = "failing" /\ tries[p] < MaxRetries
    BY <1>2, <1>9 DEF Requeue, Exhausted
  <2>2. h.status \in {"RUNNING"} /\ starts[j] = tries[p] + 1
    BY <1>2, <2>0 DEF WorkerAgrees, FailingRuns
  <2>3. Applied(o) => Service!Requeue(j)
    BY <1>2, <1>3, <2>0, <2>1, <2>2, HashMoves DEF Service!Requeue
  <2>4. ~Applied(o) => UNCHANGED Service!vars
    BY <2>1 DEF HSet, Service!vars
  <2> QED BY <1>2, <2>3, <2>4 DEF Service!Next
<1>10. CASE GiveUp(p)
  <2>1. PICK o \in Replies : HSet(j, Failed(h, "exhausted"), o) /\ UNCHANGED starts
    BY <1>10 DEF GiveUp, ghosts
  <2>2. h.status \in Service!Unfinished
    BY <1>10 DEF GiveUp, FailingRuns, Service!Unfinished
  <2>3. Applied(o) => Service!Fail(j)
    BY <1>2, <1>3, <2>1, <2>2, HashMoves DEF Service!Fail
  <2>4. ~Applied(o) => UNCHANGED Service!vars
    BY <2>1 DEF HSet, Service!vars
  <2> QED BY <1>2, <2>3, <2>4 DEF Service!Next
<1> QED BY <1>4, <1>5, <1>6, <1>7, <1>8, <1>9, <1>10 DEF Execute

\* So is each step of the queue.
LEMMA StepServes ==
    ASSUME Placement, Progress, FailingRuns, [Next]_vars
    PROVE  [Service!Next]_(Service!vars)
<1>1. ASSUME NEW j \in Jobs, CreateHash(j) PROVE [Service!Next]_(Service!vars)
  <2>1. PICK o \in Replies : HSet(j, NewHash, o) /\ UNCHANGED starts
    BY <1>1 DEF CreateHash, ghosts
  <2>2. TypeOK /\ hash[j].status \in {"ABSENT"}
    BY <1>1, NewFields DEF CreateHash, Placement, Progress, OutsideAgrees
  <2>3. Applied(o) => Service!Accept(j)
    BY <2>1, <2>2, NewFields, HashMoves DEF Service!Accept
  <2>4. ~Applied(o) => UNCHANGED Service!vars
    BY <2>1 DEF HSet, Service!vars
  <2> QED BY <2>3, <2>4 DEF Service!Next
<1>2. ASSUME \/ \E j \in Jobs : Push(j)
             \/ \E p \in Procs : Pop(p) \/ Crash(p)
             \/ UNCHANGED vars
      PROVE  UNCHANGED Service!vars
  BY <1>2 DEF Push, Pop, Crash, vars, record, ghosts, Service!vars
<1> QED BY <1>1, <1>2, ExecuteServes DEF Next
\* A consumer comes to "failing" with its hash RUNNING, and no one else writes that hash.
LEMMA FailingStep ==
    ASSUME RepliesArrive, Placement, Progress, FailingRuns, [Next]_vars
    PROVE  FailingRuns'
<1> SUFFICES ASSUME NEW p \in Procs, at'[p] = "failing"
             PROVE  hash'[job'[p]].status = "RUNNING"
  BY DEF FailingRuns
<1>1. TypeOK /\ IdleIsFree /\ SinglePlace
  BY DEF Placement
<1>2. ASSUME at[p] = "failing", job'[p] = job[p], hash'[job[p]] = hash[job[p]]
      PROVE  hash'[job'[p]].status = "RUNNING"
  BY <1>2 DEF FailingRuns
<1>3. at[p] # "idle" => job[p] \in Jobs /\ job[p] # NoJob
  BY <1>1 DEF TypeOK, IdleIsFree
<1>4. ASSUME NEW q \in Procs, Execute(q) PROVE hash'[job'[p]].status = "RUNNING"
  <2>1. at[q] # "idle"
    BY <1>4 DEF Execute, Load, FailUnresolved, MarkRunning, StartTask, EndTask, WriteCompleted,
                Requeue, Repush, GiveUp
  <2>2. CASE q # p
    <3>1. at'[p] = at[p] /\ job'[p] = job[p]
      <4>1. Release(q) \/ \E step : Goto(q, step)
        BY <1>4 DEF Execute, Load, FailUnresolved, MarkRunning, StartTask, EndTask,
                    WriteCompleted, Requeue, Repush, GiveUp
      <4> QED BY <1>1, <2>2, <4>1, ConsumerMoves
    <3>2. job[p] \in Jobs /\ job[q] # job[p]
      BY <1>1, <1>3, <2>2, <3>1 DEF SinglePlace
    <3>3. hash'[job[p]] = hash[job[p]]
      BY <1>4, <2>1, <3>2, ConsumerTouches DEF Touches
    <3> QED BY <1>2, <3>1, <3>3
  <2>3. CASE q = p
    <3>1. /\ WorkerAgrees(p) /\ job[p] \in Jobs
      BY <2>1, <2>3, ConsumerAgrees
    <3>2. CASE EndTask(p)
      <4>1. at[p] = "running" /\ UNCHANGED <<hash, job>>
        BY <3>2 DEF EndTask, Goto, record
      <4> QED BY <3>1, <4>1 DEF WorkerAgrees
    <3>3. CASE WriteCompleted(p)
      <4>1. PICK o \in Replies :
              /\ HSet(job[p], Completed(hash[job[p]]), o)
              /\ IF Raised(o) THEN Goto(p, "failing") ELSE Release(p)
        BY <3>3 DEF WriteCompleted
      <4>2. Raised(o) /\ UNCHANGED job
        <5>1. ~Release(p)
          BY <1>1, ConsumerMoves
        <5> QED BY <4>1, <5>1 DEF Goto
      <4>3. UNCHANGED hash
        BY <4>1, <4>2, ErrorsAreRefusals DEF HSet
      <4>4. at[p] = "returned"
        BY <3>3 DEF WriteCompleted
      <4> QED BY <3>1, <4>2, <4>3, <4>4 DEF WorkerAgrees
    <3>4. CASE Execute(p) /\ ~EndTask(p) /\ ~WriteCompleted(p)
      <4>1. \/ Release(p)
            \/ \E step \in {"resolved", "unresolved", "marked", "running", "requeued"} :
                 Goto(p, step)
        BY <3>4 DEF Execute, Load, FailUnresolved, MarkRunning, StartTask, Requeue, Repush, GiveUp
      <4> QED BY <1>1, <4>1, ConsumerMoves
    <3> QED BY <1>4, <2>3, <3>2, <3>3, <3>4
  <2> QED BY <2>2, <2>3
<1>5. ASSUME NEW k \in Jobs, CreateHash(k) PROVE hash'[job'[p]].status = "RUNNING"
  <2>1. UNCHANGED <<at, job>> /\ caller[k] = "new"
    BY <1>5 DEF CreateHash
  <2>2. at[p] = "failing" /\ job[p] \in Jobs /\ job[p] # k
    BY <1>1, <1>3, <2>1 DEF SinglePlace, Working
  <2>3. hash'[job[p]] = hash[job[p]]
    BY <1>1, <1>5, <2>2, NewFields, HSetEffect DEF CreateHash
  <2> QED BY <1>2, <2>1, <2>2, <2>3
<1>6. ASSUME NEW q \in Procs, Pop(q) \/ Crash(q) PROVE hash'[job'[p]].status = "RUNNING"
  <2>1. UNCHANGED hash
    BY <1>6 DEF Pop, Crash, record
  <2>2. at[p] = "failing" /\ job'[p] = job[p]
    BY <1>1, <1>6 DEF Pop, Crash, Release, TypeOK
  <2> QED BY <1>2, <2>1, <2>2
<1>7. ASSUME (\E k \in Jobs : Push(k)) \/ UNCHANGED vars PROVE hash'[job'[p]].status = "RUNNING"
  BY <1>2, <1>7 DEF Push, vars, record
<1> QED BY <1>4, <1>5, <1>6, <1>7 DEF Next

\* While no reply is lost, the queue of the containers keeps the promise of JobService with
\* MaxRetries retries: whatever Redis refuses and whichever replica dies, a finished job
\* is never touched or run again (_execute).
THEOREM QueueImplementsService == ASSUME RepliesArrive PROVE Spec => ImplementsService
<1>1. Init => Service!Init
  <2> SUFFICES ASSUME Init PROVE Service!Init
    OBVIOUS
  <2>1. \A j \in Jobs : hash[j].status = "ABSENT"
    BY NewFields DEF Init
  <2> QED BY <2>1 DEF Init, Service!Init
<1>2. Init => FailingRuns
  BY DEF Init, FailingRuns
<1>3. Placement /\ Progress /\ FailingRuns /\ [Next]_vars => FailingRuns'
  BY FailingStep
<1>4. Placement /\ Progress /\ FailingRuns /\ [Next]_vars => [Service!Next]_(Service!vars)
  BY StepServes
<1>5. Spec => []Placement /\ []Progress
  BY PlacementInvariant, ProgressInvariant
<1> QED BY <1>1, <1>2, <1>3, <1>4, <1>5, PTL DEF Spec, ImplementsService, Service!Spec
===============================================================================
