---------------------------- MODULE MCKeyLifecycle ----------------------------
(* Small instances of KeyLifecycle: three launches, on two machines.         *)
EXTENDS KeyLifecycle

CONSTANTS p1, p2, p3, m1, m2

ThirdApart == [p \in Procs |-> IF p = p3 THEN m2 ELSE m1]
===============================================================================
