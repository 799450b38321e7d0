---------------------------- MODULE MCScanPipeline ----------------------------
(* A small instance of ScanPipeline for TLC: two scans on one thread of the   *)
(* pool.  MCJobQueue has more threads; here each scan has its request thread, *)
(* its client and the worker side by side.                                    *)
EXTENDS ScanPipeline

CONSTANTS j1, j2, w1

TwoJobs == {j1, j2}
OneWorker == {w1}
AllFaults == {"refused", "lostAck", "crash"}
===============================================================================
