-------------------------------- MODULE Health --------------------------------
(***************************************************************************)
(* GET /api/v1/system/health: backend/health_checks.py asks the database,  *)
(* Redis and the queue in turn, while they come and go.  It asks through   *)
(* functions of database.py that answer [] where they fail.                *)
(***************************************************************************)
Checks == {"database", "redis", "queue"}

VARIABLES backend,   \* QUEUE_BACKEND; never changes
          up,        \* which of "database" and "redis" can be reached
          check,     \* the check under way; "" when no report is
          pinged,    \* PING was answered, LLEN is next
          report,    \* report[c]: the status found by check c, "" before it
          reached    \* the checks of this report that were answered

vars == <<backend, up, check, pinged, report, reached>>

Init == /\ backend \in {"memory", "redis"}
        /\ up \in SUBSET {"database", "redis"}
        /\ check = "" /\ pinged = FALSE
        /\ report = [c \in Checks |-> ""] /\ reached = {}

\* Servers stop and start.
Change == /\ \E s \in {"database", "redis"} : up' = (up \ {s}) \cup ({s} \ up)
          /\ UNCHANGED <<backend, check, pinged, report, reached>>

Ask == /\ check = ""
       /\ check' = "database"
       /\ report' = [c \in Checks |-> ""] /\ reached' = {}
       /\ UNCHANGED <<backend, up, pinged>>

Found(c, status, answered) ==
    /\ report' = [report EXCEPT ![c] = status]
    /\ reached' = IF answered THEN reached \cup {c} ELSE reached
    /\ check' = CASE c = "database" -> "redis" [] c = "redis" -> "queue" [] c = "queue" -> ""

\* get_logs() and get_pending_jobs(): a list, empty when the database cannot be read.
ReadsRows == IF "database" \in up THEN {"rows", "empty"} ELSE {"empty"}

\* No answer of a read is told from another, and neither function raises.
CheckRows(c) == /\ \E rows \in ReadsRows : Found(c, "up", "database" \in up)
                /\ UNCHANGED <<backend, up, pinged>>

CheckDatabase == check = "database" /\ CheckRows("database")

\* health() of the Redis queue: PING, then LLEN; an error of either is "down".
Ping(c) == /\ ~pinged
           /\ IF "redis" \in up
              THEN pinged' = TRUE /\ UNCHANGED <<report, reached, check>>
              ELSE Found(c, "down", FALSE) /\ UNCHANGED pinged
           /\ UNCHANGED <<backend, up>>

Llen(c) == /\ pinged
           /\ IF "redis" \in up THEN Found(c, "up", TRUE) ELSE Found(c, "down", FALSE)
           /\ pinged' = FALSE
           /\ UNCHANGED <<backend, up>>

RedisHealth(c) == Ping(c) \/ Llen(c)

CheckRedis == /\ check = "redis"
              /\ IF backend = "redis" THEN RedisHealth("redis")
                 ELSE /\ Found("redis", "not_configured", FALSE)
                      /\ UNCHANGED <<backend, up, pinged>>

CheckQueue == /\ check = "queue"
              /\ IF backend = "redis" THEN RedisHealth("queue") ELSE CheckRows("queue")

Next == Change \/ Ask \/ CheckDatabase \/ CheckRedis \/ CheckQueue

Spec == Init /\ [][Next]_vars

\* What the docstrings of check_database() ("actually reachable") and check_queue() ("can
\* we read job state") and the comment on the route promise: what a report calls "up" has
\* answered.  It holds for Redis; for the rows, the functions that read them swallow the
\* error that would have told.
HealthTellsTruth == check = "" => \A c \in Checks : report[c] = "up" => c \in reached
===============================================================================
