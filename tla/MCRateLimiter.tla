---------------------------- MODULE MCRateLimiter ----------------------------
(* A small instance of RateLimiter for TLC: a limit of two, two addresses and *)
(* one user, who may come from either.                                        *)
EXTENDS RateLimiter, TLC

CONSTANTS q1, q2, q3, q4, a1, a2, u1

FourRequests == {q1, q2, q3, q4}
ThreeRequests == {q1, q2, q3}
TwoAddresses == {a1, a2}
OneUser == {u1}
AllFaults == {"refused", "raise", "crash"}
OnlyRaise == {"raise"}

\* Requests are alike, and the run checks safety properties only.
AnyRequest == Permutations(FourRequests)
===============================================================================
