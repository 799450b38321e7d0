---------------------------- MODULE MCRedisJobQueue ----------------------------
(* Small instances of RedisJobQueue for TLC: two API processes, or one,     *)
(* sharing one list; they overlap when the service is scaled or redeployed.    *)
EXTENDS RedisJobQueue

CONSTANTS j1, j2, p1, p2

OneJob == {j1}
TwoJobs == {j1, j2}
OneProc == {p1}
TwoProcs == {p1, p2}

AllFaults == {"refused", "lostReply", "crash"}
NoLostReply == {"refused", "crash"}
OnlyRefused == {"refused"}
===============================================================================
