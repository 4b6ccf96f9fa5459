------------------------------ MODULE SharedGroup ------------------------------
(***************************************************************************)
(* What ensure_default_security_group promises: when a process is told the *)
(* id of the group, that group has the name and lets SSH in at that very   *)
(* moment, whoever created it and whoever meddles with it.                 *)
(***************************************************************************)
CONSTANTS Procs, NoGroup, Theirs

VARIABLES group, sshOpen, sg

vars == <<group, sshOpen, sg>>

Init == /\ group \in {NoGroup, Theirs}
        /\ sshOpen \in BOOLEAN
        /\ group = NoGroup => ~sshOpen
        /\ sg = [p \in Procs |-> NoGroup]

(* A group comes into being without an ingress rule. *)
Create(p) == /\ group = NoGroup
             /\ group' = p /\ sshOpen' = FALSE
             /\ UNCHANGED sg

Ensure(p) == /\ group # NoGroup
             /\ sshOpen' = TRUE
             /\ sg' = [sg EXCEPT ![p] = group]
             /\ UNCHANGED group

(* Someone who is not kleya deletes the group, replaces it or changes its rule. *)
Meddle == /\ group' \in {NoGroup, group, Theirs}
          /\ sshOpen' \in BOOLEAN
          /\ group' = NoGroup => ~sshOpen'
          /\ UNCHANGED sg

Next == \/ \E p \in Procs : Create(p) \/ Ensure(p)
        \/ Meddle

Spec == Init /\ [][Next]_vars
================================================================================
