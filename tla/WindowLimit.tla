------------------------------ MODULE WindowLimit ------------------------------
(***************************************************************************)
(* What a rate limit promises (rate_limit.py:8-10), without saying how: a  *)
(* request names some keys, its address and perhaps its user.  A key is    *)
(* under its limit when fewer than MaxRequests of its calls were admitted  *)
(* in the last Window seconds, both ends included.  Every key under its    *)
(* limit records the call; the request passes when all keys were under.    *)
(***************************************************************************)
EXTENDS Integers, Sequences, FiniteSets

CONSTANTS Requests, Keys, MaxRequests, Window

VARIABLES now,
          log,      \* log[k]: when calls of k were admitted, oldest first
          verdict   \* verdict[q]: what became of request q

vars == <<now, log, verdict>>

Recent(k) == {i \in 1..Len(log[k]) : log[k][i] >= now - Window}
Under(k) == Cardinality(Recent(k)) < MaxRequests

Init == /\ now = 0
        /\ log = [k \in Keys |-> << >>]
        /\ verdict = [q \in Requests |-> "none"]

Decide(q, K) ==
    /\ verdict[q] = "none"
    /\ log' = [k \in Keys |-> IF k \in K /\ Under(k) THEN Append(log[k], now) ELSE log[k]]
    /\ verdict' = [verdict EXCEPT
                     ![q] = IF \A k \in K : Under(k) THEN "passed" ELSE "rejected"]
    /\ UNCHANGED now

Pass == /\ now' = now + 1
        /\ UNCHANGED <<log, verdict>>

\* The counters live in the process (rate_limit.py:16).
Forget == /\ log' = [k \in Keys |-> << >>]
          /\ UNCHANGED <<now, verdict>>

Next == \/ \E q \in Requests, K \in SUBSET Keys : Decide(q, K)
        \/ Pass
        \/ Forget

Spec == Init /\ [][Next]_vars
===============================================================================
