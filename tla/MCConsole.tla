----------------------------- MODULE MCConsole -----------------------------
(* Console for TLC: all consoles, two prompts, every fault. *)
EXTENDS Console

AllFaults == {"raise", "refused", "reload", "interrupt"}
=============================================================================
