# A formal model of the AI security co-pilot

This directory holds TLA+ modules that model the program in `../src`, TLC
configurations that check them on small instances, and theorems about them that
TLAPS proves for every instance. The models follow the source line by line; where
a comment or a docstring says something else, a run shows it (see *Disagreements*).

## 1. The system

A Streamlit console and a FastAPI service let an analyst start network scans
(nmap, whois, dig, HTTP headers, subdomains), look at results and write reports.
The part with interesting behaviour is the service: it accepts a scan, answers
with a job id, and runs the scan in the background.

| Part | State it keeps | Operations | Talks to |
|---|---|---|---|
| `job_queue.py` | an executor (queue and 4 threads); nothing else, job state is in the table `jobs` | `submit`, `_run_job`, `get_status`, `get_result`, `list_pending` | `database.py` |
| `redis_queue.py` | Redis hashes `job:{id}` and list `job_queue:pending`; per process a task registry and one consumer thread | `submit`, `_consume_loop`, `_execute`, `get_status`, `get_result`, `list_pending`, `health` | Redis, other replicas through Redis |
| `queue_factory.py` | none; picks one of the two at import | | both |
| `database.py` (and its copy in `backend/`) | tables jobs, users, scan_history, logs, audit_logs | one function per statement, under `_db_lock`, errors swallowed | SQLite or PostgreSQL |
| `backend/api.py` | none of its own | scan, user, login, log, report, chat and health routes; `_run_scan_and_persist` runs on a queue's thread | the queue, `database.py`, `auth.py` |
| `backend/auth.py` | signed tokens held by clients | login, refresh, `get_current_user`, `require_role` | `database.py` |
| `backend/rate_limit.py` | sliding windows per key, in the process | `allow`, middleware | `database.py` for its audit log |
| `backend/health_checks.py` | none | `full_health_report` | `database.py`, the queue |
| Streamlit consoles: `ai_security_test1_copilot_pro.py` (the newest), `ai_security_test_copilot_pro.py`, `ai_security_copilot_pro.py`, `copilot_gui.py`, `copilot_test.py`, `copilot2.py` | session state of a browser tab: conversation, log, timeline, counters, who is signed in | sign-in gate, account form, one route per kind of prompt | scanners, the model, `database.py` |
| `recon_tools.py` | none | five scanners, each with a timeout | the network |
| `copilot.py` and the other command line tools, logging, deployment files | none | | |

What is hard in it:

* **Concurrency.** The executor's threads, the request threads and, with Redis,
  the consumer threads of all API processes work on the same records. The compose
  file starts one API container; Dockerfile.api:3-4 says the services are scaled
  independently, and a redeployed container overlaps with the old one. No Redis
  command sequence is atomic.
* **Failure.** `database.py` swallows every error and answers `None`, `False` or
  `[]`; the callers mostly ignore it. Redis errors are exceptions that leave
  functions halfway. A write may have happened although its caller got an error.
* **Crashes.** The executor's queue dies with the process, its rows do not; the
  Redis registry dies with the process, the list does not; `BLPOP` removes a job
  before it is executed.
* **Retry.** Only the Redis queue retries, from a retry count read before the
  attempt, and its `except` also catches the failure of its own bookkeeping.
* **Several tables, no transaction.** A scan is a jobs row, a history row and audit
  rows; an account is a users row and an audit row or log line. Each is written by a
  call of its own, by different threads or processes.
* **Old knowledge.** A route acts with the role of a token, a refresh with the role it
  has just read, while an administrator changes the account.
* **Streamlit.** A script is stopped where it stands when the user does the next
  thing; the session keeps what was written so far.

What makes each part correct: a job is never executed by two threads or
replicas at a time, nor more often than promised; its record never claims an
outcome the run did not have; a finished job stays finished; a job is not
forgotten unless a fault is to blame; every job that is not taken by a fault
ends. For the API: the audit log and history agree with the jobs, every scan has
a request behind it, what a client is shown of a job never goes back. For
authentication: nobody acts with a role they lost longer ago than a token lives,
and a session ends. For the rate limiter: no window admits more than its limit,
and no answer precedes its row. For accounts: a name has one winner, the trail fits
what the makers were told, a session knows only roles of its operators. For
the consoles: timeline, tables and counters tell what happened, answers stand under
their prompts. `PROJECT.json` lists the hazards behind these, by line.

## 2. Modules

| Module | Models |
|---|---|
| `JobService` | the promise both queues make to a client: the life of a status and how often the scan may be started |
| `JobQueue` | `job_queue.py` with the part of `database.py` it calls |
| `RedisJobQueue` | `redis_queue.py` |
| `ScanPipeline` | the scan routes of `backend/api.py` composed with `JobQueue`, which it extends |
| `Auth` | `backend/auth.py` and the `/auth` routes |
| `WindowLimit` | the promise of a rate limit |
| `RateLimiter` | `backend/rate_limit.py` |
| `Accounts` | the users table, `POST /users`, sign-in and account form of the newest console |
| `ConsoleRoutes` | what each of seven consoles does with a prompt, as data |
| `Console` | a console at work: it executes those routes, step by step |
| `Health` | `backend/health_checks.py` |
| `MC...` | small sets for TLC |
| `QueueFacts` | lemmas on appending to and popping from a sequence |
| `JobQueueProofs`, `RedisJobQueueProofs`, `ScanPipelineProofs`, `AuthProofs`, `RateLimiterProofs`, `AccountsProofs`, `ConsoleProofs` | theorems |

`backend/database.py` is the same file as `database.py`; line numbers of either apply
to both.

### JobService (abstract)

Per job a status and a count of starts. A status only moves along PENDING,
RUNNING, COMPLETED or FAILED; only RUNNING goes back to PENDING, after an attempt
and only while there are retries left; COMPLETED needs a run; nothing finished
moves or runs again.

### JobQueue

`rows` is the jobs table, `caller` the progress of each `submit()` call, `queue`
the executor's work queue, `at`/`task` the program counter and the job of each
thread. Ghost variables `starts`, `outcome`, `unmarked`, `lost` only record
history. Actions, in the order of the code:

| Action | Code |
|---|---|
| `CreateJob`, `Schedule` | the two halves of `submit` (job_queue.py:71-75); a request may be interrupted in between |
| `Take` | a pool thread takes the next job |
| `MarkRunning`, `StartTask`, `EndTask`, `RecordOutcome` | `_run_job`, one action per call (58-64) |
| `Crash` | the process dies and starts again |

A database call is one step because `database.py` holds `_db_lock` and one
transaction. It ends `ok`, `refused` (rolled back, error swallowed) or `lostAck`
(committed, error swallowed). `create_job` maps both errors to `None`;
`update_job_status`'s answer is not looked at by anyone, as in the code.

### RedisJobQueue

`hash` and `retries` together are the Redis hash of a job (one `HSET` writes both
in one step; the numeric field is kept apart because the provers handle a record
of strings and a number separately better than mixed). `pending` is the list,
`registry` the processes whose registry knows the scan function, `caller`/`home`
the submit calls, `at`/`job`/`tries` each consumer thread, `tries` being the
retry count of the hash it read. Ghosts: `starts`, `succeeded`, `lost`.

| Action | Code |
|---|---|
| `CreateHash`, `Push` | the two commands of `submit` (185-199) |
| `Pop` | `BLPOP` (117), with a possibly lost reply |
| `Load` | `HGETALL` and the registry lookup (134-139) |
| `FailUnresolved` | "No task registered" (140-146) |
| `MarkRunning`, `StartTask`, `EndTask`, `WriteCompleted` | 148-157 |
| `Requeue`, `Repush` | the two commands of a retry (161-167) |
| `GiveUp` | FAILED after the last attempt (169-173) |
| `Crash(p)` | an API process dies and restarts |

Every command ends `ok`, `refused` (no effect) or `lostReply` (effect, then
`ConnectionError`). An exception in `_execute` ends it (`Release`) unless the code
is inside the `try`, which is why a failed `WriteCompleted` goes to `failing`.

### ScanPipeline

Extends `JobQueue`; every step of it is a step of the queue or leaves the queue's
variables alone. `told` is the answer to the POST, `phase[w]` where worker `w` stands
inside the scan function, `history` and `audit` the two other tables, `seen` the last
status a polling client was shown; `unsaved` is a ghost, the writes the database
refused.

| Action | Code |
|---|---|
| `Post`, `Enqueue` | `submit` called by `trigger_scan` (api.py:472) |
| `Accept`, `Refuse` | the `scan_created` row and the 202; the 500 (473-482) |
| `RunJobStep`, `Record` | `_run_job` before and after the function |
| `CallTool`, `ToolReturns`, `ToolRaises` | the scanner (432-449) |
| `StoreScan`, `AuditCompleted` | 452-455 |
| `AuditFailed`, `Leave` | the `except` branch with its `raise`; the return (456-461) |
| `Poll` | `scan_job_status` (485-500); an error of the read is a 404 |
| `Die` | `Crash` of the queue, with the requests and functions in work |

### Auth

`role` is the users table, `stage`/`since`/`seen` the one request a client has in
work, the rest its two tokens. `lostAt` (when an account last ceased to have a role)
and `loginAt` are ghosts.

| Action | Code |
|---|---|
| `LoginRead`, `LoginFailed`, `LoginIssue` | `auth_login` (api.py:379-397) over `authenticate_user` (auth.py:147-156) |
| `RefreshStart`, `RefreshRead`, `RefreshIssue` | `auth_refresh` (400-418): decode, read the user, sign |
| `CallStart`, `CallEnd` | a route behind `get_current_user` or `require_role` (auth.py:119-144) |
| `ChangeRole` | external: the administrator at the database; no code does it |
| `Crash`, `Tick` | the process dies, the clock goes on |

Two assumptions are made about the surroundings: a client has one request at a time,
and no request is in work longer than `Handling`. Signatures are sound: a client holds
only tokens that were issued to it.

### RateLimiter

`hits` are the deques; `log`, a ghost, is the same without pruning. `dispatch` is a
coroutine, so no other request runs from its start to `await call_next` (`Dispatch`, with
`Reject` for a full window; rate_limit.py:99-122) and from there to its end (`Respond`,
124-132). But the row is committed before the response leaves (`Send`), and the process
may die in between (`Crash`). `RaiseInside` is the route that raises, whose 500 is made
outside of the middleware (api.py:120-128). `Exempt` is the early return of 101.
The key of the address comes from the connection or from a header; the model
takes it from a set. `WindowLimit` states the promise with the whole history and
without deques.

### Accounts

`role`/`maker` is the users table (`maker` is a ghost, as are `traced`/`untraced`,
`entered` and `torn`), `at`/`told`/`shown` an attempt to create an account, the others
the three session keys and how far a sign-in or sign-out has set them. Lines below are
of `ai_security_test1_copilot_pro.py` unless named.

| Action | Code |
|---|---|
| `CreateDatabase` | `create_database` behind `st.cache_resource` (675 ff., database.py) |
| `RunScript` | the first account, from a script, like the one in `test_hotfix_routes.py` |
| `Insert`, `Reread`, `Audit`, `Answer` | `create_user_endpoint` (api.py:336-351): three transactions, then the 201 |
| `SignIn`, `SetName`, `SetRole` | the login form (739-762) |
| `SignOut`, `ClearName`, `ClearRole` | logout (987-992) |
| `FormInsert`, `FormAnnounce`, `FormLog` | Create Account (994-1008) |
| `Interrupt` | the next click stops the run at its next use of `st`, session keys included |
| `Crash`, `Restart` | the API's process, the console's process |

The log lines of sign-in and sign-out are left out; nothing reads them.

### ConsoleRoutes and Console

The seven consoles differ in their routes, not in how they run them. So a route is
*data*: the set of the runs it can take, each a sequence of steps (`Log`, `Tool`, `Ask`,
`Say`, `Count`, `Remember` ...), chosen by the words and targets of the prompt in the
order of the source's `if`/`elif`. `Console` executes a run: `AddLog`, `AddHistory`,
`Answer`, `CountScans`, `RaiseAlarm`, `Consult` and `GiveUp` are the steps, `Prompt` starts
a run and, where the console is a Streamlit one, may cut the last one short;
`Interrupt` is a click elsewhere, `Raise` an exception nothing catches, `Reload` a new
session. `Persists` are the consoles with a database: there `AddLog` and `AddHistory`
write a row too. The sign-in gate is in `Accounts`; a figure or a table that is only
drawn is no step, except that drawing the risk chart fails on a risk that is a list
(`Drawn`). A run that is overtaken stops at once; that the scanner it was waiting
for may still end on its thread changes nothing.

### Health

The checks of `full_health_report` one after the other, while servers come and go
(`Change`): `CheckDatabase`, `CheckRedis` and `CheckQueue`, with `PING` and `LLEN` of the
Redis queue as two steps.

### Abstractions

Result and message texts are reduced to what the properties distinguish (present
or not, and which branch wrote the message). Time stamps, job ids, targets and
arguments are left out: a job *is* its id, `uuid4` is taken as unique. The
executor's queue and the Redis list are unbounded, as in the code.

## 3. Runs

| Run | Instance | Shows |
|---|---|---|
| `job_queue` | 3 jobs, 2 threads, all faults; 35 700 states | all properties below hold, including liveness and the refinement |
| `redis_queue` | 2 jobs, 2 replicas, 1 retry, all faults; 285 404 states | all safety and liveness properties of the Redis queue |
| `redis_service` | 2 jobs, 2 replicas, 2 retries, refused commands and crashes; 120 354 states | the refinement to `JobService`, and that an error means "nothing runs" |
| `redis_succeeded` | 1 job, 1 replica, refused commands | *violation*: a job that returned is requeued |
| `scan_pipeline` | 2 jobs, 1 worker, all faults; 255 888 states | job row, audit log and history agree; polls are answered |
| `auth` | 1 user, 1 client, access tokens live 2, refresh tokens 3, requests 1, clock to 9; 1 624 688 states | how long a role and a session outlive their end |
| `rate_limit` | 4 requests, 2 addresses, 1 user, limit 2 in a window of 2, clock to 3; 1 242 274 states | windows are exact, no answer precedes its row, the refinement to `WindowLimit` |
| `rate_limit_audit` | 3 requests, routes may raise | *violation*: a request without a row |
| `accounts` | 2 names, 3 attempts, 1 session, all faults; 301 562 states | one winner per name, the trail, who is signed in |
| `accounts_admin` | 2 names, 1 attempt, 1 session, clicks | *violation*: an analyst with the admin role of the operator before |
| `console` | 7 consoles, 2 prompts, all faults; 69 648 states | timeline, counters and conversation tell what happened |
| `health_truth` | all states of the servers | *violation*: a database that is down is "up" |

Properties of `JobQueue`:

* `SinglePlace`: a job is with its submit call, once in the queue, or with one thread.
* `AtMostOnce`: at most one start, and only for a client who got the id and with a row in the table.
* `NoSilentLoss`: an unfinished row has a holder or a fault that explains it.
* `TruthfulRow`: status, result and error are those of the run.
* `RecoveryRepeatsNothing`: what `list_pending` shows was not started, except after
  a rolled back RUNNING write. It is the guarantee a recovery routine would need.
* `LostStaysLost`: the row of a lost job never changes; its client polls for ever.
* `EveryJobSettles`: an accepted job finishes for good or is lost to a fault.
* `ImplementsService`: refinement to `JobService` with `MaxRetries = 0`.

Properties of `RedisJobQueue`: `SinglePlace` and `NoSilentLoss` as above;
`AttemptsCounted` and `AttemptBudget` (the counter in the hash is the number of
attempts, at most `MaxRetries + 1`, although it is rewritten from an old copy);
`TruthfulHash` (COMPLETED follows a run that returned, "Failed after" the last attempt;
"No task registered", which lines 80-85 announce for a process that has not submitted,
stands in place of an attempt, with all earlier ones counted); `FailedForGood` (no late command of any process changes a FAILED
job); `EveryJobSettles`; and, without lost replies, `ErrorNeverRuns` and
`ImplementsService`. With lost replies these two are false, and should be: a
`COMPLETED` whose reply is lost is retried, and a push whose reply is lost runs.

Properties of `ScanPipeline`:

* `TablesAgree`: a job is audited completed or failed, never both; a COMPLETED row has
  its history row and its audit row, a FAILED one its audit row and no history,
  except for writes the database itself refused.
* `ScansAreOwned`: a scan that left a trace is audited, or about to be, as created by
  someone, although the worker may be done before the request thread writes that row.
* `PollsAdvance`: what a poll shows goes from PENDING over RUNNING to an end that
  stays, and no end is shown before it is audited.
* `ScansAreAnswered` (liveness): a client with a 202 who polls sees the end, unless a
  crash or a refused final write took the job.

Properties of `Auth`: `StaleRoleBounded` (a route acts with a role its user has, or
lost no longer ago than an access token and two requests last), `SessionBounded` (a
session ends one refresh token and one access token after the login, however often
it is refreshed), `TokensCarryFreshRoles` (a token never has a role lost before
the request for it, api.py:409-410).

Properties of `RateLimiter`: `WindowRespected` (two calls `MaxRequests` apart are more
than a window apart, wherever the window is laid), `RowPerAnswer` (no answer of the
middleware precedes its row, which names the decision, and no request has two; a
process that dies after the commit leaves a row without an answer, and the route that
raised is `rate_limit_audit`'s), `ImplementsWindowLimit` (pruning loses nothing: each
decision is that of an exact sliding window).

Properties of `Accounts`: `OneWinner` (of all who ask for a name, one is told it made the
account, and it is that one's row, with the role it asked for), `TrailIsExact` (an
attempt that ran to its end left a trace exactly if its account was announced to it and
the database took the trace; the trail runs ahead of the answer only between the audit
row of the API and its 201, and stays ahead if the process dies there),
`OperatorsAreKnown` (name and role of a session belong together; if a click tore the last
sign-in or sign-out, they are still those of operators who gave their password in this
session, but no longer of one: `AdminIsOperator`, in section 4).

Properties of `Console`: `TimelineIsTrue` (session, tables and log agree about every
row, also after refused writes and lost sessions), `CountersAgree` (the dashboard's
counters are those of the runs, and a run that ended has the rows it was counted
for), `AnswersInPlace` (an answer stands under its prompt, one for each; two only
where a header audit's JSON is not an object).

**Bounds.** Mostly the only bounds are the finite sets. Two workers are enough for
any two to race on a job; three jobs on two threads let one wait while two run. One
retry reaches both "requeue" and "give up" with all faults; two retries are used
where fewer faults leave room. In the pipeline the steps of two workers meet only in
the queue, which `job_queue` has covered with two; one worker and two jobs let a
scan wait, run, and be audited at the same time as the other. In `auth` clients share
nothing but the account, and all properties speak of one client. The lives 2 and 3
are different and longer than a request, so that a refresh token can end before, with
and after an access token; `MaxTime` 9 is past the last moment at which
`SessionBounded` lets a token of a login at 0 act (2 + 3 + 2), with room for a login
later. In `rate_limit` four requests overfill a window of two, from two addresses with
one user; a clock to 3 passes a window of 2, ends included. In `accounts` three
attempts let two race and a third retry, on two names. Two prompts are enough
for one console run to overtake another; no property relates more, and the theorems
hold for any number of them. `MaxTime` and
`MaxPrompts` only bound TLC: they occur in no property's meaning, and the theorems
about `Auth`, `RateLimiter` and `Console` hold for every value of them. Symmetry is used in
`rate_limit` and `accounts`, which have no liveness. The constants of the theorems are
arbitrary.

**Fairness.** Each started `submit()` call goes on (a request thread runs), each
thread of the pool and each consumer takes its next step, and functions end: the
scanners run with timeouts of 15 or 30 seconds (`recon_tools.py`). Nothing is assumed
about which outcome a command has, so an unlucky client may be refused every
time. For `Pop`, weak fairness says that an idle consumer with work waiting
eventually gets an answer to a `BLPOP`: `_consume_loop` sleeps and tries again after every
error, so this needs Redis to be reachable again and again. In the pipeline
(`PipelineFairness`) a client that got an id polls on, and it is weakly fair that
a poll changes what it has seen: a database that answers again and again. No fairness
is assumed of new requests or crashes. The other modules state safety only: nothing
in them waits. Deadlock is not checked: with every job finished and nobody calling,
the system rests, as does a limiter or a console whose bounded requests are used up.

## 4. Disagreements between the code and its documentation

* `redis_succeeded`: redis_queue.py:40-42 says a job is requeued "on an unhandled
  exception". The `HSET` of COMPLETED is inside the `try` with the function, so a
  Redis error there requeues a job that succeeded.
* `rate_limit_audit`: rate_limit.py:12-13 says "every non-exempt request gets one row in
  the audit_logs table". The row of an admitted request is written after `await
  call_next` (124), outside of any `try`; a route that raises takes the middleware
  with it and has no row.
* `accounts_admin`: line 736 of `ai_security_test1_copilot_pro.py` says `is_admin` is true
  "if the currently logged-in operator has the admin role". Sign-in (758-760) and logout
  (989-991) assign three session keys one after the other, and Streamlit may stop a script
  at each of them. An administrator logs out and clicks again before the name is cleared;
  an analyst signs in and clicks again before the role is set: the analyst's session has
  the role "admin", and Create Account is open to it.
* `health_truth`: health_checks.py:19-21 says the check confirms the database "is
  actually reachable", 45-46 that the queue check tells whether job state can be read.
  Both go through functions that answer `[]` on every error (database.py:360-362,
  529-531), so both report "up" for a database that is down.

Seen while modelling, without a run of its own:

* `db_ready` of the consoles is true whatever `create_database` did.
* `backend/api.py` uses `os` without importing it inside the `try` that loads the model,
  so the model is never there and the chat route answers 503.

## 5. Proofs

The theorems hold for every value of the constants: any set of jobs, threads, replicas,
users, clients, requests, names, any `MaxRetries`, limit, window or token life, and any
choice of faults. They rest on the named assumptions of the modules, which only say
what kind of value a constant is and that its values are not confused:
`JobQueueAssumption`, `RedisAssumption` (`NoJob` is not a job, `MaxRetries` is a natural
number), `AuthAssumption` (lives are positive), `RateLimiterAssumption` (addresses and
users are different keys; limit and window are natural numbers), `AccountsAssumption`
(`Script` is no attempt, `Nobody` is not anybody), `ConsoleAssumption` (`MaxPrompts` is a natural
number, and the faults are among the four the model knows).

Two theorems have a hypothesis of their own. `ErrorsNeverRun` and `QueueImplementsService`
of the Redis queue assume `RepliesArrive`, that no command is applied and then answered
with an error: with lost replies both properties are false of the code (section 3). The
hypothesis is about the choice of faults only; refused commands and crashes stay, and
the run `redis_service` checks both properties under it.

*The queues.* `SinglePlace` is not inductive alone: that a thread is idle exactly when
it holds no job has to be added (`Placement`). The other properties relate the
record of a job to where its holder stands in the code, so `Progress` says, for
every place a job can be in, what its record, its counter and the number of
starts are:

* with `submit()`: the record is new and nothing ran (`OutsideAgrees`);
* in the list: PENDING, and the counter is the number of starts (`QueueAgrees`);
* with a consumer at step `at[p]`: a status that belongs to the step, and starts is
  the counter, plus one between the start and the rewriting of the counter
  (`WorkerAgrees`);
* lost or FAILED: nobody holds it (`LostIsFree`, `FailedIsFree`).

`AttemptBudget` follows from the last two and the bound of the counter. The
proof of a step has one lemma per action. Two frame lemmas carry
the common part: `ProgressConsumer` for a step of a consumer on its job's
record, and `ProgressHandover` for a step that only passes jobs on.

*The queues implement their service.* A step of a queue is a move of one job's status,
a start, or a stutter of `JobService`. What the proof has to add to `Progress` is
that a move starts where the service allows it. For the Redis queue without lost replies
that is `FailingRuns`: an attempt that failed left RUNNING in the hash, so that
the retry moves RUNNING to PENDING, never COMPLETED. It is the fact
`redis_succeeded` shows to be lost with the reply. `ErrorsNeverRun` is inductive together
with `ErrorIsOut`: a job whose `submit()` failed is in no list and with no consumer.

*The pipeline* (`ScanPipelineProofs`). Every step is a step of `JobQueue` or leaves its
variables alone (`PipelineIsQueue`), so the refinement to `JobService`, `Placement` and `Progress` are inherited from `JobQueueProofs`.
`TablesAgree` says something about final rows only and is not inductive; `Story` adds,
for every place a job can be in, what the audit log and the history hold of it and
which answer its request has given: nothing before the function starts, at
"scanned" still no row, at "stored" a history row or a refusal, and so on to
"returning" and "raising". The phase of the worker is the link between the two parts.
`PollsAdvance` is an action property; a poll may come at any time after the row moved
on, so its proof needs `SeenStory`, that the status last seen is the row's of now or one
the row has left behind, and `StatusForward`, that no step of the queue takes a status
back.

*Authentication* (`AuthProofs`). `StaleRoleBounded` speaks of a request in work; its
role comes from a token, which got it from an earlier request. `IInv` follows that
chain backwards, per client: a request is no older than `Handling` (`RequestAge`); the
role it read was lost after it came in, or not at all (`RequestRole`); the role of a
token was lost after its issue minus `Handling`, or not at all (`TokenRole`); the expiry of
both tokens is bounded by the login (`SessionAge`).

*The rate limiter* (`RateLimiterProofs`). `WindowInv` relates deque and history: the
deque is a suffix of the log (`Suffix`), what was pruned is outdated (`Gone`), the
log is sorted and not in the future (`Sorted`, `Past`), and calls `MaxRequests` apart are
more than a window apart (`Spaced`). `LimiterIsExact`, the refinement, then needs that the
length of the pruned deque is the number of recent calls in the log, counted with
`Cardinality`. `RowPerAnswer` is inductive once it is known that only a decided request
can have lost its row (`Rows`): one still inside will be written for later, and one whose
row is written keeps it whether it is answered or its process dies.

*Accounts* (`AccountsProofs`). `OneWinner` and `TrailIsExact` follow from one story per
attempt (`Stories`): from the successful insert on, the row of the name is the attempt's own,
and its trace, its answer and its place go together, also at "audited", where the trail is
ahead of the answer, and where a request is left that died there; rows never change hands because
an insert needs a free name (`RowsHaveMakers`). `OperatorsAreKnown` needs a case for every
half-done sign-in and sign-out (`AllKeys`), because a role in the session is compared
with the table, which other attempts write meanwhile.

*The consoles* (`ConsoleProofs`). The properties of `Console` speak of runs that are over, or
were cut short anywhere, and say nothing of a run at work, so none is inductive. `IInv`
tells one `Story` per prompt about what the session holds of it *and* what is left of
its run: if the rest still has a row to add, its log line is there or is still to come
before the row; if it was counted, a row is there or still to come, of a serious
risk if it was counted as a threat; one answer
at most is left, two of a header audit; a prompt that is not in
work has nothing left. The routes are data, so the proof has two halves. `EveryRun`
goes through every route of every console and proves its runs `WellFormed`: what comes
before or after what, and what comes once. `StoryMoves` proves that doing the first
step of a well-formed rest and keeping its tail keeps the story, whatever the run
is. It rests on `FirstStep`, how each notion of order (`Has`, `Preceded`, `Followed`, `Once`,
`Twice`) passes from a run to its tail. A click, an exception or a new session ends a run
where it is, which a story allows at every point (`StoryStops`).

| Theorem | Module |
|---|---|
| `TypeCorrect`, `JobsInOnePlace`, `JobsRunAtMostOnce`, `JobsAreNotLostSilently`, `RowsAreTruthful`, `RecoveryIsSafe`, `LostJobsStay`, `QueueImplementsService` | `JobQueueProofs` |
| `TypeCorrect`, `JobsInOnePlace`, `AttemptsStayInBudget`, `AttemptsAreCounted`, `JobsAreNotLostSilently`, `HashesAreTruthful`, `FailedStaysFailed`; with `RepliesArrive`, `ErrorsNeverRun`, `QueueImplementsService` | `RedisJobQueueProofs` |
| `PipelineIsQueue`, `PipelineImplementsService`, `StoryInvariant`, `PipelineTypeCorrect`, `TablesAlwaysAgree`, `ScansAlwaysOwned`, `PollsOnlyAdvance` | `ScanPipelineProofs` |
| `TypeCorrect`, `StaleRolesAreBounded`, `SessionsAreBounded`, `TokensAreFresh` | `AuthProofs` |
| `TypeCorrect`, `WindowsAreRespected`, `EveryAnswerHasItsRow`, `LimiterIsExact` | `RateLimiterProofs` |
| `AccountsInvariant`, `TypeCorrect`, `NamesHaveOneWinner`, `TrailMatchesAnswers`, `RolesComeFromOperators` | `AccountsProofs` |
| `Invariant`, `TypeCorrect`, `TimelineTrue`, `CountersRight`, `AnswersRight` | `ConsoleProofs` |

`FailedStaysFailed` uses that only a job's holder writes its record
(`ConsumerTouches`) and that a FAILED job has none.

*Model-checked only.* The liveness properties, which TLAPS does not prove under fairness:
`EveryJobSettles` of both queues and `ScansAreAnswered`. Every invariant, action
property and refinement a passing run checks is also a theorem.

## 6. Not modelled

* `redis_queue.py`'s `list_pending`: no route and no module calls it.
* The pipeline on the Redis queue: an attempt that is repeated stores another history
  and audit row; `RedisJobQueue` bounds how often.
* The chat route of `backend/api.py`: it has the decisions of the consoles, keeps no
  state, and answers 503 always because of the missing import above.
* `queue_factory.py`: an environment variable decides at import which queue exists; each
  queue is modelled and checked against `JobService`.
* Reports, logs and history routes: reads with constant limits (a report looks among the
  newest 1000 rows, the summary counts 200 at most).
* `update_user_password` and `copilot1.py`: only a test calls the one; the other keeps
  no state at all.
* Loss of data by Redis or the database server, retries the `redis` client may do on its
  own (its version is not pinned in requirements.txt).
* The commands and output of the scanners, texts of messages, figures and layout of
  the pages, request logging, deployment files.

`PROJECT.json` gives the reason per component.

## 7. Plan

Done, in the order of importance: the two queues; the pipeline on the thread pool;
authentication; the rate limiter with its abstract specification; accounts; the consoles;
the health report; and the proofs of all their safety properties.

What is left, the most useful first:

1. Compose the pipeline with `RedisJobQueue`: history rows per attempt, a `scan_created`
   row that races with the consumer of another replica.
2. A lister process for `RedisJobQueue.list_pending`, and the chat route, should the
   code come to use them.
