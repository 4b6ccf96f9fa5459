----------------------------- MODULE SecurityGroup -----------------------------
(***************************************************************************)
(* The steps of ensure_default_security_group, taken by any number of      *)
(* kleya processes against the one group name "kleya-default" of the       *)
(* default VPC: look it up, create it, and open port 22, each an EC2 call  *)
(* of its own.  LaunchTemplate puts them between the steps of a launch.    *)
(*                                                                         *)
(* A process creates at most one group, so the id of the group that        *)
(* process p creates is written p.                                         *)
(***************************************************************************)
CONSTANTS Procs,    \* kleya processes
          NoGroup,  \* no security group under the name
          Theirs    \* a group of that name that kleya did not create

ASSUME GroupAssumption == /\ {NoGroup, Theirs} \cap Procs = {}
                          /\ NoGroup # Theirs

VARIABLES pc,       \* the step each process is at
          group,    \* the group that has the name
          sshOpen,  \* whether that group lets port 22 in
          gid,      \* the id a process has found or created
          sg,       \* the id ensure_default_security_group returned to it
          meddled   \* history: whether a teammate touched the group

groupVars == <<group, sshOpen, gid, sg, meddled>>

GroupSteps == {"describeGroup", "createGroup", "findGroup", "authorize"}

Groups == Procs \cup {NoGroup, Theirs}

GroupTypeOK == /\ group \in Groups
               /\ sshOpen \in BOOLEAN
               /\ group = NoGroup => ~sshOpen
               /\ gid \in [Procs -> Groups]
               /\ sg \in [Procs -> Groups]
               /\ meddled \in BOOLEAN
               /\ \A p \in Procs : pc[p] = "authorize" => gid[p] # NoGroup

Goto(p, from, to) == /\ pc[p] = from
                     /\ pc' = [pc EXCEPT ![p] = to]

GroupInit == /\ group \in {NoGroup, Theirs}
             /\ sshOpen \in BOOLEAN
             /\ group = NoGroup => ~sshOpen
             /\ gid = [p \in Procs |-> NoGroup]
             /\ sg = [p \in Procs |-> NoGroup]
             /\ meddled = FALSE

(* Mutant: a group that is found is returned as it is. *)
DescribeGroup_Trusts(p) ==
  /\ Goto(p, "describeGroup", IF group = NoGroup THEN "createGroup" ELSE "ensured")
  /\ gid' = [gid EXCEPT ![p] = group]
  /\ sg' = [sg EXCEPT ![p] = group]
  /\ UNCHANGED <<group, sshOpen, meddled>>

DescribeGroup(p) ==
  /\ Goto(p, "describeGroup", IF group = NoGroup THEN "createGroup" ELSE "authorize")
  /\ gid' = [gid EXCEPT ![p] = group]
  /\ UNCHANGED <<group, sshOpen, sg, meddled>>

(* Mutant: InvalidGroup.Duplicate is returned as an error. *)
CreateGroup_NoDuplicate(p) ==
  /\ Goto(p, "createGroup", IF group = NoGroup THEN "authorize" ELSE "GroupLost")
  /\ group' = IF group = NoGroup THEN p ELSE group
  /\ gid' = [gid EXCEPT ![p] = group']
  /\ UNCHANGED <<sshOpen, sg, meddled>>

(* CreateSecurityGroup: a new group has no ingress rule; the code goes on  *)
(* with InvalidGroup.Duplicate by looking the group up again.              *)
CreateGroup(p) ==
  \/ /\ group = NoGroup
     /\ Goto(p, "createGroup", "authorize")
     /\ group' = p
     /\ gid' = [gid EXCEPT ![p] = p]
     /\ UNCHANGED <<sshOpen, sg, meddled>>
  \/ /\ group # NoGroup
     /\ Goto(p, "createGroup", "findGroup")
     /\ UNCHANGED groupVars

(* The group EC2 reported as a duplicate may be gone: an Adapter error. *)
FindGroup(p) ==
  /\ Goto(p, "findGroup", IF group = NoGroup THEN "GroupLost" ELSE "authorize")
  /\ gid' = [gid EXCEPT ![p] = group]
  /\ UNCHANGED <<group, sshOpen, sg, meddled>>

(* Mutant: any error of the authorize call is taken for a duplicate rule. *)
Authorize_IgnoresErrors(p) ==
  /\ Goto(p, "authorize", "ensured")
  /\ sshOpen' = (sshOpen \/ gid[p] = group)
  /\ sg' = [sg EXCEPT ![p] = gid[p]]
  /\ UNCHANGED <<group, gid, meddled>>

(* authorize_default_ingress: a rule that is there is success, a group that *)
(* is gone is an Adapter error.                                             *)
Authorize(p) ==
  \/ /\ gid[p] = group
     /\ Goto(p, "authorize", "ensured")
     /\ sshOpen' = TRUE
     /\ sg' = [sg EXCEPT ![p] = gid[p]]
     /\ UNCHANGED <<group, gid, meddled>>
  \/ /\ gid[p] # group
     /\ Goto(p, "authorize", "GroupLost")
     /\ UNCHANGED groupVars

EnsureGroup(p) ==
  DescribeGroup(p) \/ CreateGroup(p) \/ FindGroup(p) \/ Authorize(p)

(* A teammate deletes the group, makes one of their own, or changes its rule. *)
Teammate ==
  /\ \/ group # NoGroup /\ group' = NoGroup /\ sshOpen' = FALSE
     \/ group = NoGroup /\ group' = Theirs /\ sshOpen' \in BOOLEAN
     \/ group # NoGroup /\ sshOpen' = ~sshOpen /\ UNCHANGED group
  /\ meddled' = TRUE
  /\ UNCHANGED <<pc, gid, sg>>

--------------------------------------------------------------------------------
(* While nobody but kleya touches the group, every id that was returned is *)
(* the one group of that name and it lets SSH in, also when the process    *)
(* that created it died before it opened the port: the rule is authorised  *)
(* on every path, not only after a create.                                 *)
EnsuredIsOpen == ~meddled => \A p \in Procs :
  sg[p] # NoGroup => sg[p] = group /\ sshOpen

(* 04-provider-port.md: every ensure_default_* must succeed under          *)
(* concurrent invocations.  Here it does: only a teammate makes the group  *)
(* of a process disappear, never another process.                          *)
EnsureSucceeds == ~meddled => \A p \in Procs : pc[p] # "GroupLost"

Shared == INSTANCE SharedGroup

(* An id is returned only for the group that has the name and is open at   *)
(* that moment, also while a teammate deletes, replaces or changes it.     *)
SharedGroupSpec == Shared!Spec
================================================================================
