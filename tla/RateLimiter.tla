------------------------------ MODULE RateLimiter ------------------------------
(***************************************************************************)
(* backend/rate_limit.py: a middleware before every route.  It charges a   *)
(* sliding window of the client's address and one of the user named in its *)
(* token, answers 429 when one of them is full, and writes one audit row   *)
(* for the request.                                                        *)
(*                                                                         *)
(* dispatch() is a coroutine of one event loop: it is one step up to       *)
(* "await call_next", and one more after it.  Any number of requests may   *)
(* be inside call_next meanwhile.  A row is committed before its answer is *)
(* sent, which is a step of its own.  The windows are in the memory of the *)
(* process and die with it.  MaxTime only ends the runs of TLC.            *)
(***************************************************************************)
EXTENDS Integers, Sequences

CONSTANTS Requests,
          Addresses,    \* what _extract_client_ip() may find
          Usernames,    \* the users of valid tokens
          MaxRequests,  \* RATE_LIMIT_REQUESTS_PER_MINUTE
          Window,       \* RATE_LIMIT_WINDOW_SECONDS
          MaxTime,
          Faults        \* the faults that may happen

\* The prefixes "ip:" and "user:" keep the keys apart.
Keys == Addresses \cup Usernames

ASSUME RateLimiterAssumption ==
    /\ Addresses \cap Usernames = {}
    /\ MaxRequests \in Nat
    /\ Window \in Nat
    /\ Faults \subseteq {"refused", "raise", "crash"}

VARIABLES now,
          hits,       \* hits[k]: the deque of key k
          log,        \* log[k]: every hit of k since the process started
          stage,      \* stage[q]: where request q stands
          audit,      \* audit[q]: the rows written for q
          unwritten   \* requests whose row the database refused

limiter == <<hits, log>>
vars == <<now, limiter, stage, audit, unwritten>>

Init == /\ now = 0
        /\ hits = [k \in Keys |-> << >>]
        /\ log = [k \in Keys |-> << >>]
        /\ stage = [q \in Requests |-> "new"]
        /\ audit = [q \in Requests |-> << >>]
        /\ unwritten = {}

-------------------------------------------------------------------------------
(* allow() *)

\* Mutant: a hit that is exactly Window old is dropped as well.
Outdated_Inclusive(t) == t <= now - Window

Outdated(t) == t < now - Window

\* The while loop removes n hits from the left: all outdated ones before the first
\* that is not.
Removes(k, n) == /\ n <= Len(hits[k])
                 /\ \A i \in 1..n : Outdated(hits[k][i])
                 /\ n < Len(hits[k]) => ~Outdated(hits[k][n + 1])

\* Mutant: rejects one call too late.
Full_OffByOne(left) == left > MaxRequests

Full(left) == left >= MaxRequests

\* Mutant: a rejected call is recorded as well.
Bucket_ChargesRejected(k, n) == Append(SubSeq(hits[k], n + 1, Len(hits[k])), now)

\* The deque after the call: a rejected call is not recorded.
Bucket(k, n) ==
    IF Full(Len(hits[k]) - n)
    THEN SubSeq(hits[k], n + 1, Len(hits[k]))
    ELSE Append(SubSeq(hits[k], n + 1, Len(hits[k])), now)

-------------------------------------------------------------------------------
(* dispatch() *)

\* save_audit_log() swallows its errors.
SaveAuditLog(q, event) ==
    \/ /\ audit' = [audit EXCEPT ![q] = Append(@, event)]
       /\ UNCHANGED unwritten
    \/ /\ "refused" \in Faults
       /\ unwritten' = unwritten \cup {q}
       /\ UNCHANGED audit

\* /health, /system/health and the documentation.
Exempt(q) == /\ stage[q] = "new"
             /\ stage' = [stage EXCEPT ![q] = "exempt"]
             /\ UNCHANGED <<now, limiter, audit, unwritten>>

\* What a request charges: its address, and its user if the token names one.
Charged == {{a} : a \in Addresses} \cup {{a, u} : a \in Addresses, u \in Usernames}

\* Mutant: no return after the row, the request goes on to its route.
Reject_GoesOn(q) == /\ stage' = [stage EXCEPT ![q] = "inside"]
                    /\ SaveAuditLog(q, "rate_limit_exceeded")

\* The row of a rejected request, whose 429 is still to be sent.
Reject(q) == /\ stage' = [stage EXCEPT ![q] = "refusing"]
             /\ SaveAuditLog(q, "rate_limit_exceeded")

\* Both windows are charged, the second also when the first has rejected.
Dispatch(q) ==
    /\ stage[q] = "new"
    /\ \E K \in Charged, n \in [Keys -> 0..MaxRequests] :
         LET passes(k) == ~Full(Len(hits[k]) - n[k]) IN
         /\ \A k \in Keys : IF k \in K THEN Removes(k, n[k]) ELSE n[k] = 0
         /\ hits' = [k \in Keys |-> IF k \in K THEN Bucket(k, n[k]) ELSE hits[k]]
         /\ log' = [k \in Keys |-> IF k \in K /\ passes(k) THEN Append(log[k], now)
                                                           ELSE log[k]]
         /\ IF \A k \in K : passes(k)
            THEN /\ stage' = [stage EXCEPT ![q] = "inside"]
                 /\ UNCHANGED <<audit, unwritten>>
            ELSE Reject(q)
    /\ UNCHANGED now

\* call_next() has answered: the row of an admitted request.
Respond(q) == /\ stage[q] = "inside"
              /\ stage' = [stage EXCEPT ![q] = "responding"]
              /\ SaveAuditLog(q, "api_access")
              /\ UNCHANGED <<now, limiter>>

\* The response that dispatch() returned is sent.
Send(q) == /\ stage[q] \in {"responding", "refusing"}
           /\ stage' = [stage EXCEPT ![q] = IF @ = "responding" THEN "answered" ELSE "rejected"]
           /\ UNCHANGED <<now, limiter, audit, unwritten>>

\* The route raised: the exception passes through dispatch(), and the handler of
\* api.py answers 500 outside of it.
RaiseInside(q) == /\ "raise" \in Faults
                  /\ stage[q] = "inside"
                  /\ stage' = [stage EXCEPT ![q] = "raised"]
                  /\ UNCHANGED <<now, limiter, audit, unwritten>>

-------------------------------------------------------------------------------
\* Requests in work are never answered; one that was to be refused never passed.
Died(st) == IF st \in {"inside", "responding"} THEN "died"
            ELSE IF st = "refusing" THEN "died refused" ELSE st

\* A new process starts with empty windows.
Crash == /\ "crash" \in Faults
         /\ hits' = [k \in Keys |-> << >>]
         /\ log' = [k \in Keys |-> << >>]
         /\ stage' = [q \in Requests |-> Died(stage[q])]
         /\ UNCHANGED <<now, audit, unwritten>>

\* time.monotonic()
Tick == /\ now < MaxTime
        /\ now' = now + 1
        /\ UNCHANGED <<limiter, stage, audit, unwritten>>

RequestStep(q) == Exempt(q) \/ Dispatch(q) \/ Respond(q) \/ Send(q) \/ RaiseInside(q)

Next == \/ \E q \in Requests : RequestStep(q)
        \/ Crash
        \/ Tick

Spec == Init /\ [][Next]_vars

-------------------------------------------------------------------------------
(* Properties *)

\* Types of the windows and the requests; no deque grows beyond the limit, however
\* long a key is not seen (the deques are never deleted).
TypeOK ==
    /\ now \in Nat
    /\ hits \in [Keys -> Seq(Nat)]
    /\ \A k \in Keys : Len(hits[k]) <= MaxRequests
    /\ log \in [Keys -> Seq(Nat)]
    /\ stage \in [Requests -> {"new", "exempt", "inside", "responding", "refusing",
                               "rejected", "answered", "raised", "died", "died refused"}]
    /\ audit \in [Requests -> Seq({"rate_limit_exceeded", "api_access"})]
    /\ unwritten \subseteq Requests

\* No key is admitted more than MaxRequests times in any Window, wherever the window
\* is laid: two calls MaxRequests apart are more than Window apart (allow).
WindowRespected ==
    \A k \in Keys : \A i \in 1..Len(log[k]) :
        i + MaxRequests <= Len(log[k]) => log[k][i + MaxRequests] - log[k][i] > Window

\* The middleware answers no request before its row, and no request has two.  While
\* the answer is sent, and ever after, the audit log has the one row that names what was
\* decided, unless the database refused it; before the decision, and for an exempt
\* request, it has none.  A process that dies after the commit leaves the row of a
\* request it did not answer (dispatch).  A route that raised is answered outside of the
\* middleware: its missing row, which rate_limit.py:12 denies, is EveryRequestAudited's.
RowPerAnswer ==
    \A q \in Requests :
      LET rows(event) == audit[q] = IF q \in unwritten THEN << >> ELSE <<event>>
      IN  /\ stage[q] \in {"new", "exempt", "inside"} => audit[q] = << >>
          /\ stage[q] \in {"responding", "answered"} => rows("api_access")
          /\ stage[q] \in {"refusing", "rejected", "died refused"} => rows("rate_limit_exceeded")
          /\ stage[q] = "died" => audit[q] \in {<< >>, <<"api_access">>}
          /\ Len(audit[q]) <= 1

\* "every non-exempt request gets one row in the audit_logs table"
\* (rate_limit.py:12).
EveryRequestAudited ==
    \A q \in Requests :
        stage[q] \in {"answered", "rejected", "raised"} => Len(audit[q]) = 1

\* The middleware with its pruned deques decides every request as an exact sliding
\* window over the whole history would, and records neither more nor less.
Limit == INSTANCE WindowLimit WITH
           verdict <- [q \in Requests |-> IF stage[q] \in {"new", "exempt"} THEN "none"
                                          ELSE IF stage[q] \in {"refusing", "rejected", "died refused"}
                                          THEN "rejected" ELSE "passed"]
ImplementsWindowLimit == Limit!Spec
===============================================================================
