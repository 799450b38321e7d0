------------------------------ MODULE MCAccounts ------------------------------
(* Accounts for TLC: two names, three attempts to fight over them, a session. *)
EXTENDS Accounts, TLC

CONSTANTS n1, n2, a1, a2, a3, s1

TwoNames == {n1, n2}
ThreeAttempts == {a1, a2, a3}
OneAttempt == {a1}
OneSession == {s1}
AllFaults == {"refused", "lostAck", "crash", "interrupt"}
OnlyInterrupt == {"interrupt"}

\* Nothing tells names or attempts apart.
Symmetric == Permutations(TwoNames) \cup Permutations(ThreeAttempts)
===============================================================================
