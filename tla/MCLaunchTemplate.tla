---------------------------- MODULE MCLaunchTemplate ----------------------------
(* Small instances of LaunchTemplate: launches l1, l2, a create c, updates *)
(* u, u2 and deletes d1, d2.  Two processes of one command are alike, and  *)
(* nothing that is checked tells them apart or is about liveness.          *)
EXTENDS LaunchTemplate, TLC

CONSTANTS l1, l2, c, u, u2, d1, d2

Interchangeable ==
  Permutations({l1, l2}) \cup Permutations({u, u2}) \cup Permutations({d1, d2})
================================================================================
