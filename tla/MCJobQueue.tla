------------------------------ MODULE MCJobQueue ------------------------------
(* A small instance of JobQueue for TLC: one job more than there are threads, *)
(* so that a job waits while others run.                                      *)
EXTENDS JobQueue

CONSTANTS j1, j2, j3, w1, w2

ThreeJobs == {j1, j2, j3}
TwoWorkers == {w1, w2}
AllFaults == {"refused", "lostAck", "crash"}
===============================================================================
