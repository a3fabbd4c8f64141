---------------------------- MODULE SingleRuntime ----------------------------
(***************************************************************************)
(* What the check of the pid file promises: a runtime starts only when no  *)
(* other one holds the account, and ends before the next one starts.       *)
(***************************************************************************)
CONSTANT Pids
VARIABLE runtimes

Init == runtimes = {}
Start == runtimes = {} /\ \E p \in Pids : runtimes' = {p}
End == runtimes # {} /\ runtimes' = {}

Spec == Init /\ [][Start \/ End]_runtimes
=============================================================================
