---------------------------- MODULE RedisJobQueue ----------------------------
(***************************************************************************)
(* redis_queue.py: the queue of the containers.  The record of a job is a  *)
(* Redis hash, waiting jobs are a Redis list, and every API process pops   *)
(* that list from one consumer thread, started on import.  The function of *)
(* a job is found by name in a registry each process fills by submitting.  *)
(*                                                                         *)
(* A Redis command is one step.  It ends "ok", "refused" (no effect) or    *)
(* "lostReply" (it took effect); the last two raise ConnectionError at the *)
(* client.  No two commands are atomic together: the gap between them is   *)
(* where other processes, and crashes, step in.  Redis itself keeps its    *)
(* data (appendonly yes in docker-compose.yml).                            *)
(*                                                                         *)
(* A name with an underscore is a mutant: the next definition with a bug   *)
(* in it, to show that a property can tell the difference.                 *)
(***************************************************************************)
EXTENDS SequencesExt

CONSTANTS Jobs,        \* one element per call of submit()
          Procs,       \* the API processes, each with one consumer thread
          NoJob,       \* what an idle consumer holds
          MaxRetries,  \* REDIS_QUEUE_MAX_RETRIES
          Faults       \* the faults that may happen

ASSUME RedisAssumption == /\ NoJob \notin Jobs
                          /\ MaxRetries \in Nat
                          /\ Faults \subseteq {"refused", "lostReply", "crash"}

VARIABLES hash,       \* hash[j]: the Redis hash job:{j}, but for the field
          retries,    \* retries[j], its retry counter
          pending,    \* the Redis list job_queue:pending
          registry,   \* the processes whose registry knows the scan function
          caller,     \* caller[j]: where the submit() call for j stands
          home,       \* home[j]: the process that call runs in
          at,         \* at[p]: the next step of p's consumer thread
          job,        \* job[p]: the job it executes
          tries,      \* tries[p]: the retry count in the hash when it was read
          starts,     \* how often the function of j was called
          succeeded,  \* jobs whose function returned
          lost        \* jobs whose unfinished record nobody will move any more

client == <<caller, home>>
ghosts == <<starts, succeeded>>
record == <<hash, retries>>
vars == <<record, pending, registry, client, at, job, tries, ghosts, lost>>

-------------------------------------------------------------------------------
NoHash == [status |-> "ABSENT", result |-> "", error |-> ""]

\* Mutant: a status outside VALID_STATUSES.
NewHash_UnknownStatus == [NoHash EXCEPT !.status = "QUEUED"]

NewHash == [NoHash EXCEPT !.status = "PENDING"]

\* How a command can end, and what that means for Redis and for the client.
Replies == {"ok"} \cup (Faults \cap {"refused", "lostReply"})
Applied(o) == o # "refused"
Raised(o) == o # "ok"

\* The HSETs of _execute, as what they make of the hash.
Running(h) == [h EXCEPT !.status = "RUNNING"]
Completed(h) == [h EXCEPT !.status = "COMPLETED", !.result = "text"]
Retried(h) == [h EXCEPT !.status = "PENDING", !.error = "attempt"]

\* Mutant: only the message is written.
Failed_NoStatus(h, why) == [h EXCEPT !.error = why]
Failed(h, why) == [h EXCEPT !.status = "FAILED", !.error = why]

HSet(j, h, o) == hash' = IF Applied(o) THEN [hash EXCEPT ![j] = h] ELSE hash

\* The field "retries" of the same HSET.  Mutant: the retry is not counted.
HSetRetries_Uncounted(j, n, o) == UNCHANGED retries
HSetRetries(j, n, o) ==
    retries' = IF Applied(o) THEN [retries EXCEPT ![j] = n] ELSE retries

\* Mutants: the id is sent again after a lost reply, never sent, sent later.
RPush_Resent(j, o) == pending' = CASE o = "refused"   -> pending
                                   [] o = "lostReply" -> pending \o <<j, j>>
                                   [] OTHER           -> Append(pending, j)
RPush_Dropped(j, o) == UNCHANGED pending
RPush_Buffered(j, o) == pending' = Append(pending, j)

RPush(j, o) == pending' = IF Applied(o) THEN Append(pending, j) ELSE pending

Init == /\ hash = [j \in Jobs |-> NoHash]
        /\ retries = [j \in Jobs |-> 0]
        /\ pending = << >>
        /\ registry = {}
        /\ caller = [j \in Jobs |-> "new"]
        /\ home \in [Jobs -> Procs]
        /\ at = [p \in Procs |-> "idle"]
        /\ job = [p \in Procs |-> NoJob]
        /\ tries = [p \in Procs |-> 0]
        /\ starts = [j \in Jobs |-> 0]
        /\ succeeded = {}
        /\ lost = {}

Finished(j) == hash[j].status \in {"COMPLETED", "FAILED"}
Unfinished(j) == hash[j].status \in {"PENDING", "RUNNING"}

\* Who still holds job j: the submit() call, the list, a consumer.
Submitting(j) == caller[j] = "created"
Queued(j) == Contains(pending, j)
Working(j) == \E p \in Procs : job[p] = j
Held(j) == Submitting(j) \/ Queued(j) \/ Working(j)

-------------------------------------------------------------------------------
(* submit(), in the process home[j] *)

\* Registers the function, then stores the hash.
CreateHash(j) ==
    /\ caller[j] = "new"
    /\ registry' = registry \cup {home[j]}
    /\ \E o \in Replies :
         /\ HSet(j, NewHash, o) /\ HSetRetries(j, 0, o)
         /\ caller' = [caller EXCEPT ![j] = IF Raised(o) THEN "error" ELSE "created"]
    /\ UNCHANGED <<pending, home, at, job, tries, ghosts, lost>>

\* Pushes the id; an error here reaches the client although the hash exists.
Push(j) ==
    /\ Submitting(j)
    /\ \E o \in Replies :
         /\ RPush(j, o)
         /\ caller' = [caller EXCEPT ![j] = IF Raised(o) THEN "error" ELSE "returned"]
    /\ UNCHANGED <<record, registry, home, at, job, tries, ghosts, lost>>

-------------------------------------------------------------------------------
(* The consumer thread: _consume_loop and _execute *)

Goto(p, step) == at' = [at EXCEPT ![p] = step] /\ UNCHANGED job

\* _execute ends, normally or by an exception _consume_loop swallows.
Release(p) == /\ at' = [at EXCEPT ![p] = "idle"]
              /\ job' = [job EXCEPT ![p] = NoJob]

Lose(j) == lost' = lost \cup {j}
LoseIf(gone, j) == lost' = IF gone THEN lost \cup {j} ELSE lost

\* BLPOP.  If its reply is lost the id is gone; if it is refused the loop
\* sleeps and pops again.
Pop(p) ==
    /\ at[p] = "idle"
    /\ pending # << >>
    /\ pending' = Tail(pending)
    /\ \/ /\ at' = [at EXCEPT ![p] = "popped"]
          /\ job' = [job EXCEPT ![p] = Head(pending)]
          /\ UNCHANGED lost
       \/ /\ "lostReply" \in Faults
          /\ Lose(Head(pending))
          /\ UNCHANGED <<at, job>>
    /\ UNCHANGED <<record, registry, client, tries, ghosts>>

\* Mutant: the count of an earlier attempt is not found in the hash.
RetryCount_Zero(j) == 0
RetryCount(j) == retries[j]

\* HGETALL and the registry lookup; an error or an empty hash ends _execute.
Load(p) ==
    /\ at[p] = "popped"
    /\ \E o \in Replies :
         IF Raised(o) \/ hash[job[p]].status = "ABSENT"
         THEN Release(p) /\ Lose(job[p]) /\ UNCHANGED tries
         ELSE /\ tries' = [tries EXCEPT ![p] = RetryCount(job[p])]
              /\ Goto(p, IF p \in registry THEN "resolved" ELSE "unresolved")
              /\ UNCHANGED lost
    /\ UNCHANGED <<record, pending, registry, client, ghosts>>

\* "No task registered": FAILED without an attempt.
FailUnresolved(p) ==
    /\ at[p] = "unresolved"
    /\ \E o \in Replies :
         /\ HSet(job[p], Failed(hash[job[p]], "unregistered"), o)
         /\ LoseIf(~Applied(o), job[p])
    /\ Release(p)
    /\ UNCHANGED <<retries, pending, registry, client, tries, ghosts>>

\* Outside the try: an error leaves _execute, and the popped id is gone.
MarkRunning(p) ==
    /\ at[p] = "resolved"
    /\ \E o \in Replies :
         /\ HSet(job[p], Running(hash[job[p]]), o)
         /\ IF Raised(o) THEN Release(p) /\ Lose(job[p])
                         ELSE Goto(p, "marked") /\ UNCHANGED lost
    /\ UNCHANGED <<retries, pending, registry, client, tries, ghosts>>

StartTask(p) ==
    /\ at[p] = "marked"
    /\ starts' = [starts EXCEPT ![job[p]] = @ + 1]
    /\ Goto(p, "running")
    /\ UNCHANGED <<record, pending, registry, client, tries, succeeded, lost>>

EndTask(p) ==
    /\ at[p] = "running"
    /\ \/ /\ Goto(p, "returned")
          /\ succeeded' = succeeded \cup {job[p]}
       \/ /\ Goto(p, "failing")
          /\ UNCHANGED succeeded
    /\ UNCHANGED <<record, pending, registry, client, tries, starts, lost>>

\* Inside the try: an error of this HSET is handled like one of the function.
WriteCompleted(p) ==
    /\ at[p] = "returned"
    /\ \E o \in Replies :
         /\ HSet(job[p], Completed(hash[job[p]]), o)
         /\ IF Raised(o) THEN Goto(p, "failing") ELSE Release(p)
    /\ UNCHANGED <<retries, pending, registry, client, tries, ghosts, lost>>

\* Mutant: one attempt too few.
Exhausted_Early(p) == tries[p] + 1 >= MaxRetries
Exhausted(p) == tries[p] >= MaxRetries

\* except: back to PENDING, with the count of the copy read at the start.
Requeue(p) ==
    /\ at[p] = "failing"
    /\ ~Exhausted(p)
    /\ \E o \in Replies :
         /\ HSet(job[p], Retried(hash[job[p]]), o)
         /\ HSetRetries(job[p], tries[p] + 1, o)
         /\ IF Raised(o) THEN Release(p) /\ Lose(job[p])
                         ELSE Goto(p, "requeued") /\ UNCHANGED lost
    /\ UNCHANGED <<pending, registry, client, tries, ghosts>>

Repush(p) ==
    /\ at[p] = "requeued"
    /\ \E o \in Replies :
         /\ RPush(job[p], o)
         /\ LoseIf(~Applied(o), job[p])
    /\ Release(p)
    /\ UNCHANGED <<record, registry, client, tries, ghosts>>

\* except, no retries left: FAILED for good.
GiveUp(p) ==
    /\ at[p] = "failing"
    /\ Exhausted(p)
    /\ \E o \in Replies :
         /\ HSet(job[p], Failed(hash[job[p]], "exhausted"), o)
         /\ LoseIf(~Applied(o), job[p])
    /\ Release(p)
    /\ UNCHANGED <<retries, pending, registry, client, tries, ghosts>>

Execute(p) == \/ Load(p) \/ FailUnresolved(p) \/ MarkRunning(p) \/ StartTask(p)
              \/ EndTask(p) \/ WriteCompleted(p)
              \/ Requeue(p) \/ Repush(p) \/ GiveUp(p)

-------------------------------------------------------------------------------
\* Process p dies and is started again: its submit() calls and its consumer's
\* job are gone, its registry is empty; the hashes and the list stay.
Crash(p) ==
    /\ "crash" \in Faults
    /\ registry' = registry \ {p}
    /\ caller' = [j \in Jobs |-> IF Submitting(j) /\ home[j] = p THEN "died" ELSE caller[j]]
    /\ Release(p)
    /\ lost' = lost \cup {j \in Jobs : \/ Submitting(j) /\ home[j] = p
                                       \/ job[p] = j /\ Unfinished(j)}
    /\ UNCHANGED <<record, pending, home, tries, ghosts>>

Next == \/ \E j \in Jobs : CreateHash(j) \/ Push(j)
        \/ \E p \in Procs : Pop(p) \/ Execute(p) \/ Crash(p)

\* The threads run, functions end, and an idle consumer pops when it can:
\* the loop backs off after an error and Redis is reachable again and again.
Fairness == /\ \A j \in Jobs : WF_vars(Push(j))
            /\ \A p \in Procs : WF_vars(Pop(p)) /\ WF_vars(Execute(p))

Spec == Init /\ [][Next]_vars
FairSpec == Spec /\ Fairness
-------------------------------------------------------------------------------
(* What the queue answers. *)

\* get_result(), through get_status(), which turns an empty result into None.
GetResult(j) == IF hash[j].status = "FAILED" THEN "raise"
                ELSE IF hash[j].status = "COMPLETED" THEN hash[j].result
                ELSE "None"

-------------------------------------------------------------------------------
(* Properties *)

Hashes == [status : {"ABSENT", "PENDING", "RUNNING", "COMPLETED", "FAILED"},
           result : {"", "text"},
           error  : {"", "attempt", "exhausted", "unregistered"}]

\* Types of the variables: what is in Redis, and what is in the processes.
TypeOK ==
    /\ hash \in [Jobs -> Hashes]
    /\ retries \in [Jobs -> 0..MaxRetries]
    /\ pending \in Seq(Jobs)
    /\ registry \subseteq Procs
    /\ caller \in [Jobs -> {"new", "created", "returned", "error", "died"}]
    /\ home \in [Jobs -> Procs]
    /\ at \in [Procs -> {"idle", "popped", "resolved", "unresolved", "marked", "running",
                         "returned", "failing", "requeued"}]
    /\ job \in [Procs -> Jobs \cup {NoJob}]
    /\ tries \in [Procs -> 0..MaxRetries]
    /\ starts \in [Jobs -> Nat]
    /\ succeeded \subseteq Jobs
    /\ lost \subseteq Jobs

\* A job is in one place: with its submit() call, once in the list, or with one
\* consumer of one process; so no two replicas run it at the same time.
SinglePlace ==
    /\ IsInjective(pending)
    /\ \A p, q \in Procs : job[p] = job[q] /\ job[p] # NoJob => p = q
    /\ \A j \in Jobs : /\ ~(Queued(j) /\ Working(j))
                       /\ Queued(j) \/ Working(j) => caller[j] \in {"returned", "error"}

\* The retry counter kept in the hash is the number of attempts made, for every
\* job that waits for another one: the counter is rewritten from a copy read
\* before the attempt (_execute), and no fault makes the two drift apart.
AttemptsCounted ==
    \A j \in Jobs : Queued(j) => /\ hash[j].status = "PENDING"
                                 /\ retries[j] = starts[j]

\* The function of a job is called MaxRetries + 1 times at most, over all
\* replicas, crashes and lost replies.
AttemptBudget == \A j \in Jobs : starts[j] <= MaxRetries + 1

\* No silent loss: an unfinished job still has a holder that will move it, or a
\* fault took the holder away, or submit() failed and the job never reached
\* the list.
NoSilentLoss ==
    \A j \in Jobs : Unfinished(j) => \/ Held(j) \/ j \in lost
                                     \/ caller[j] = "error" /\ starts[j] = 0

\* The hash tells the truth: COMPLETED and the result come from a run that
\* returned, "Failed after n attempt(s)" from using up every attempt, and "No task
\* registered" was written in place of an attempt, by a process that had not started
\* one: every earlier attempt, of whichever replica, is in the counter.
TruthfulHash ==
    \A j \in Jobs :
      /\ GetResult(j) = "text" <=> hash[j].status = "COMPLETED"
      /\ hash[j].status = "COMPLETED" => j \in succeeded
      /\ hash[j].status = "FAILED" => hash[j].error \in {"exhausted", "unregistered"}
      /\ hash[j].error = "exhausted" => starts[j] = MaxRetries + 1
      /\ hash[j].error = "unregistered" => starts[j] = retries[j]

\* FAILED is for good: no command sent before, by this or another process,
\* changes the record afterwards or runs the job again (redis_queue.py:42).
FailedUntouched ==
    \A j \in Jobs : hash[j].status = "FAILED" => /\ hash'[j] = hash[j]
                                                 /\ retries'[j] = retries[j]
                                                 /\ starts'[j] = starts[j]
FailedForGood == [][FailedUntouched]_vars

\* Every job that reached the list ends finished for good, unless a fault took
\* it away from the process that held it.
EveryJobSettles == \A j \in Jobs : Queued(j) ~> [](Finished(j) \/ j \in lost)

\* A submit() that ended in an error (500 for the client) leaves no job behind
\* that still runs.  A lost reply of RPUSH breaks this; a refused command must not.
ErrorNeverRuns == \A j \in Jobs : caller[j] \in {"error", "died"} => starts[j] = 0

\* The queue implements the promise of JobService.  With lost replies it does
\* not: a COMPLETED whose reply is lost is retried.
Service == INSTANCE JobService WITH
             status <- [j \in Jobs |-> hash[j].status]
ImplementsService == Service!Spec

\* redis_queue.py:40-42: a job is requeued on an unhandled exception.  One whose
\* function returned is not.
SucceededNotRequeued == \A j \in succeeded : hash[j].status # "PENDING"
===============================================================================
