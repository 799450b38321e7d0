-------------------------------- MODULE MCAuth --------------------------------
(* A small instance of Auth for TLC: one client; clients meet only in the     *)
(* roles, which the administrator changes freely.                             *)
EXTENDS Auth

CONSTANTS u1, c1

OneUser == {u1}
OneClient == {c1}
Owner == [c \in OneClient |-> u1]
AllFaults == {"dbError", "crash"}
===============================================================================
