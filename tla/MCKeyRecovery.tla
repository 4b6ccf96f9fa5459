----------------------------- MODULE MCKeyRecovery -----------------------------
(* Three launches on one machine, any of which may follow the others. *)
EXTENDS KeyRecovery

CONSTANTS p1, p2, p3, m1

AllOnOne == [p \in Procs |-> m1]
================================================================================
