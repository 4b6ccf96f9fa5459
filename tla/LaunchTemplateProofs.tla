------------------------- MODULE LaunchTemplateProofs -------------------------
(***************************************************************************)
(* What TLAPS checks about LaunchTemplate, and with it about the steps of  *)
(* SecurityGroup, for every set of launches, creates, updates and deletes. *)
(***************************************************************************)
EXTENDS LaunchTemplate, Integers, TLAPS

(* The steps before a process has created its template. *)
BeforeCreate == GroupSteps \cup {"getTemplate", "ensured", "createTemplate"}

(* Every process takes the steps of its own command. *)
Roles == \A p \in Procs :
  /\ pc[p] \in LaunchSteps \ {"createTemplate"} => p \in Launchers
  /\ pc[p] = "createTemplate" => p \in Launchers \cup Creators
  /\ pc[p] \in UpdateSteps => p \in Updaters
  /\ pc[p] \in DeleteSteps => p \in Deleters

(* A process that has yet to create its template, or to write its version, *)
(* is not the author of anything: ids are never used again.                *)
Fresh == \A p, q \in Procs :
  pc[p] \in BeforeCreate => template # p /\ p \notin versions /\ tid[q] # p

(* What an update or a delete has looked up is a template, and an update   *)
(* that is half done has its version in it, if it is still there.          *)
LookedUp == \A p \in Procs :
  /\ pc[p] \in {"createVersion", "setDefault", "deleteTemplate"}
       => tid[p] # NoTemplate
  /\ pc[p] = "setDefault" /\ tid[p] = template => p \in versions

(* Templates are created by launches and creates, and what an update wrote *)
(* is used only when the update is done.                                   *)
Authors ==
  /\ template \in Launchers \cup Creators \cup {NoTemplate}
  /\ default \in Updaters => pc[default] = "done"

(* A template of a launch names the group that the launch was given. *)
Grouped ==
  /\ \A p \in Procs : pc[p] = "ensured" => sg[p] # NoGroup
  /\ \A p \in Launchers :
       pc[p] = "createTemplate" \/ p \in versions => sg[p] # NoGroup
  /\ \A p \in Launchers : ran[p] \in Launchers => sg[ran[p]] # NoGroup

(* While nobody meddles the group is created once and stays, so every id   *)
(* that a process holds is that of the group.                              *)
OneGroup == ~meddled => \A p \in Procs :
  /\ gid[p] # NoGroup => gid[p] = group
  /\ pc[p] = "findGroup" => group # NoGroup

(* The inductive invariant. *)
TemplateInv == /\ TypeOK
               /\ Roles /\ Fresh /\ LookedUp /\ Authors /\ Grouped /\ OneGroup
               /\ EnsuredIsOpen /\ EnsureSucceeds
               /\ VersionsBelong /\ NoHalfUpdateRuns

(* A step is a stutter, a teammate's, or one of these of some process. *)
LEMMA StepCases ==
  ASSUME [Next]_vars
  PROVE  \/ UNCHANGED vars
         \/ Teammate /\ UNCHANGED templateVars
         \/ \E p \in Procs :
              \/ GetTemplate(p)
              \/ EnsureGroup(p) /\ UNCHANGED templateVars
              \/ GetAgain(p) \/ CreateTemplate(p) \/ RunInstances(p)
              \/ GetForUpdate(p) \/ CreateVersion(p) \/ SetDefault(p)
              \/ GetForDelete(p) \/ DeleteTemplate(p)
              \/ Fails(p)
  BY DEF Next, Launch

(* Nothing is created, looked up or returned at the start. *)
LEMMA TemplateInvInit == Init => TemplateInv
  <1> SUFFICES ASSUME Init PROVE TemplateInv
    OBVIOUS
  <1> USE GroupAssumption, CommandsAssumption DEF Init, GroupInit, Cli
  <1>1. \A p \in Procs :
          /\ pc[p] = First(p)
          /\ \/ p \in Launchers /\ First(p) = "getTemplate"
             \/ p \in Creators /\ First(p) = "createTemplate"
             \/ p \in Updaters /\ First(p) = "getForUpdate"
             \/ p \in Deleters /\ First(p) = "getForDelete"
    BY DEF First
  <1>2. TypeOK
    BY <1>1 DEF TypeOK, GroupTypeOK, Groups, LaunchSteps, UpdateSteps,
                DeleteSteps
  <1>3. Roles
    BY <1>1 DEF Roles, LaunchSteps, GroupSteps, UpdateSteps, DeleteSteps
  <1>4. Fresh /\ LookedUp /\ Authors
    BY <1>1 DEF Fresh, LookedUp, Authors
  <1>5. Grouped /\ OneGroup /\ EnsuredIsOpen /\ EnsureSucceeds
    BY <1>1 DEF Grouped, OneGroup, EnsuredIsOpen, EnsureSucceeds
  <1>6. VersionsBelong /\ NoHalfUpdateRuns
    BY DEF VersionsBelong, NoHalfUpdateRuns
  <1>7. QED
    BY <1>2, <1>3, <1>4, <1>5, <1>6 DEF TemplateInv

(* A step that only moves one process: a look, a refused call, a failure.  *)
LEMMA OnlyMoves ==
  ASSUME TemplateInv, NEW p \in Procs, NEW s,
         pc' = [pc EXCEPT ![p] = s],
         UNCHANGED <<groupVars, templateVars>>,
         pc[p] \notin Ended,
         \/ s \in Ended /\ (s = "GroupLost" => meddled)
         \/ pc[p] \in {"getTemplate", "ensured"} /\ s = "run"
         \/ pc[p] = "getTemplate" /\ s = "describeGroup"
         \/ pc[p] = "ensured" /\ s = "createTemplate"
         \/ pc[p] = "createGroup" /\ s = "findGroup" /\ group # NoGroup
  PROVE  TemplateInv'
  <1> USE DEF TemplateInv, LaunchSteps, GroupSteps, UpdateSteps, DeleteSteps,
              Ended, BeforeCreate, groupVars, templateVars
  <1>1. TypeOK'
    BY DEF TypeOK, GroupTypeOK
  <1>2. Roles'
    BY DEF TypeOK, Roles
  <1>3. (Fresh /\ LookedUp)'
    BY DEF TypeOK, Fresh, LookedUp
  <1>4. (Authors /\ VersionsBelong /\ NoHalfUpdateRuns)'
    BY CommandsAssumption DEF TypeOK, Authors, VersionsBelong, NoHalfUpdateRuns, Cli
  <1>5. (Grouped /\ OneGroup /\ EnsuredIsOpen /\ EnsureSucceeds)'
    BY CommandsAssumption
    DEF TypeOK, GroupTypeOK, Grouped, OneGroup, EnsuredIsOpen, EnsureSucceeds, Cli
  <1>6. QED
    BY <1>1, <1>2, <1>3, <1>4, <1>5

(* A step of ensure_default_security_group that finds, creates or opens.   *)
LEMMA GroupStepsKeepInv ==
  ASSUME TemplateInv, NEW p \in Procs, EnsureGroup(p), UNCHANGED templateVars
  PROVE  TemplateInv'
  <1> USE DEF TemplateInv, LaunchSteps, GroupSteps, UpdateSteps, DeleteSteps,
              Ended, BeforeCreate, templateVars, Goto
  <1>1. CASE DescribeGroup(p)
    <2>1. PICK s \in {"createGroup", "authorize"} :
            pc[p] = "describeGroup" /\ pc' = [pc EXCEPT ![p] = s]
            /\ (s = "authorize" => group # NoGroup)
      BY <1>1 DEF DescribeGroup
    <2> USE <1>1, <2>1 DEF DescribeGroup
    <2>2. TypeOK' /\ Roles'
      BY DEF TypeOK, GroupTypeOK, Roles
    <2>3. (Fresh /\ LookedUp)'
      BY DEF TypeOK, Fresh, LookedUp
    <2>4. (Authors /\ VersionsBelong /\ NoHalfUpdateRuns)'
      BY CommandsAssumption
      DEF TypeOK, Authors, VersionsBelong, NoHalfUpdateRuns, Cli
    <2>5. (Grouped /\ OneGroup /\ EnsuredIsOpen /\ EnsureSucceeds)'
      BY DEF TypeOK, GroupTypeOK, Grouped, OneGroup, EnsuredIsOpen, EnsureSucceeds
    <2>6. QED
      BY <2>2, <2>3, <2>4, <2>5
  <1>2. CASE CreateGroup(p) /\ group = NoGroup
    <2> USE <1>2, GroupAssumption DEF CreateGroup
    <2>1. ~meddled => \A q \in Procs :
            gid[q] = NoGroup /\ sg[q] = NoGroup /\ pc[q] # "findGroup"
      BY DEF OneGroup, EnsuredIsOpen
    <2>2. TypeOK' /\ Roles'
      BY DEF TypeOK, GroupTypeOK, Roles, Groups
    <2>3. (Fresh /\ LookedUp)'
      BY DEF TypeOK, Fresh, LookedUp
    <2>4. (Authors /\ VersionsBelong /\ NoHalfUpdateRuns)'
      BY CommandsAssumption
      DEF TypeOK, Authors, VersionsBelong, NoHalfUpdateRuns, Cli
    <2>5. Grouped' /\ EnsureSucceeds'
      BY CommandsAssumption DEF TypeOK, Grouped, EnsureSucceeds, Cli
    <2>6. OneGroup' /\ EnsuredIsOpen'
      BY <2>1 DEF TypeOK, GroupTypeOK, OneGroup, EnsuredIsOpen
    <2>7. QED
      BY <2>2, <2>3, <2>4, <2>5, <2>6
  <1>3. CASE CreateGroup(p) /\ group # NoGroup
    BY <1>3, OnlyMoves DEF CreateGroup
  <1>4. CASE FindGroup(p)
    <2>1. PICK s \in {"GroupLost", "authorize"} :
            pc[p] = "findGroup" /\ pc' = [pc EXCEPT ![p] = s]
            /\ (s = "authorize" <=> group # NoGroup)
      BY <1>4 DEF FindGroup
    <2> USE <1>4, <2>1 DEF FindGroup
    <2>2. TypeOK' /\ Roles'
      BY DEF TypeOK, GroupTypeOK, Roles
    <2>3. (Fresh /\ LookedUp)'
      BY DEF TypeOK, Fresh, LookedUp
    <2>4. (Authors /\ VersionsBelong /\ NoHalfUpdateRuns)'
      BY CommandsAssumption
      DEF TypeOK, Authors, VersionsBelong, NoHalfUpdateRuns, Cli
    <2>5. (Grouped /\ OneGroup /\ EnsuredIsOpen /\ EnsureSucceeds)'
      BY DEF TypeOK, GroupTypeOK, Grouped, OneGroup, EnsuredIsOpen, EnsureSucceeds
    <2>6. QED
      BY <2>2, <2>3, <2>4, <2>5
  <1>5. CASE Authorize(p) /\ gid[p] = group
    <2> USE <1>5 DEF Authorize
    <2>1. gid[p] # NoGroup
      BY DEF TypeOK, GroupTypeOK
    <2>2. TypeOK' /\ Roles'
      BY <2>1 DEF TypeOK, GroupTypeOK, Roles
    <2>3. (Fresh /\ LookedUp)'
      BY DEF TypeOK, Fresh, LookedUp
    <2>4. (Authors /\ VersionsBelong /\ NoHalfUpdateRuns)'
      BY CommandsAssumption
      DEF TypeOK, Authors, VersionsBelong, NoHalfUpdateRuns, Cli
    <2>5. (Grouped /\ OneGroup /\ EnsuredIsOpen /\ EnsureSucceeds)'
      BY <2>1, CommandsAssumption
      DEF TypeOK, GroupTypeOK, Grouped, OneGroup, EnsuredIsOpen, EnsureSucceeds, Cli
    <2>6. QED
      BY <2>2, <2>3, <2>4, <2>5
  <1>6. CASE Authorize(p) /\ gid[p] # group
    <2>1. gid[p] # NoGroup /\ meddled
      BY <1>6 DEF Authorize, TypeOK, GroupTypeOK, OneGroup
    <2>2. QED
      BY <1>6, <2>1, OnlyMoves DEF Authorize
  <1>7. QED
    BY <1>1, <1>2, <1>3, <1>4, <1>5, <1>6 DEF EnsureGroup

(* Whatever happens to the template leaves the group as it is.             *)
LEMMA GroupUntouched ==
  ASSUME TemplateInv, NEW p \in Procs, NEW s,
         pc' = [pc EXCEPT ![p] = s], UNCHANGED groupVars,
         s \notin GroupSteps \cup {"GroupLost"}
  PROVE  GroupTypeOK' /\ OneGroup' /\ EnsuredIsOpen' /\ EnsureSucceeds'
  <1> USE DEF TemplateInv, TypeOK, GroupTypeOK, GroupSteps, groupVars
  <1>1. GroupTypeOK'
    OBVIOUS
  <1>2. OneGroup' /\ EnsuredIsOpen' /\ EnsureSucceeds'
    BY DEF OneGroup, EnsuredIsOpen, EnsureSucceeds
  <1>3. QED
    BY <1>1, <1>2

(* The name is free: the creator has looked, but may have been overtaken.  *)
LEMMA CreateKeepsInv ==
  ASSUME TemplateInv, NEW p \in Procs, CreateTemplate(p)
  PROVE  TemplateInv'
  <1> USE DEF TemplateInv, LaunchSteps, GroupSteps, UpdateSteps, DeleteSteps,
              Ended, BeforeCreate, groupVars, Goto, CreateTemplate
  <1>1. CASE ~(template = NoTemplate)
    BY <1>1, OnlyMoves DEF templateVars
  <1>2. CASE template = NoTemplate
    <2> USE <1>2
    <2>1. (GroupTypeOK /\ OneGroup /\ EnsuredIsOpen /\ EnsureSucceeds)'
      BY GroupUntouched
    <2>2. TypeOK'
      BY <2>1, CommandsAssumption DEF TypeOK, LookedUp
    <2>3. Roles'
      BY CommandsAssumption DEF TypeOK, Roles, Cli
    <2>4. Fresh'
      BY CommandsAssumption DEF TypeOK, Fresh, Roles, Cli
    <2>5. LookedUp'
      BY CommandsAssumption DEF TypeOK, Fresh, LookedUp
    <2>6. Authors'
      BY CommandsAssumption DEF TypeOK, Authors, Roles, Cli
    <2>7. Grouped'
      BY CommandsAssumption DEF TypeOK, Grouped, Roles, Cli
    <2>8. VersionsBelong' /\ NoHalfUpdateRuns'
      BY CommandsAssumption
      DEF TypeOK, VersionsBelong, NoHalfUpdateRuns, Authors, LookedUp, Roles, Cli
    <2>9. QED
      BY <2>1, <2>2, <2>3, <2>4, <2>5, <2>6, <2>7, <2>8
  <1>3. QED
    BY <1>1, <1>2

(* An instance is launched from the default version.                       *)
LEMMA RunKeepsInv ==
  ASSUME TemplateInv, NEW p \in Procs, RunInstances(p)
  PROVE  TemplateInv'
  <1> USE DEF TemplateInv, LaunchSteps, GroupSteps, UpdateSteps, DeleteSteps,
              Ended, BeforeCreate, groupVars, Goto, RunInstances
  <1>1. CASE ~(template # NoTemplate /\ HasImage(default))
    BY <1>1, OnlyMoves DEF templateVars
  <1>2. CASE template # NoTemplate /\ HasImage(default)
    <2> USE <1>2
    <2>1. (GroupTypeOK /\ OneGroup /\ EnsuredIsOpen /\ EnsureSucceeds)'
      BY GroupUntouched
    <2>2. TypeOK'
      BY <2>1, CommandsAssumption DEF TypeOK, LookedUp
    <2>3. Roles'
      BY CommandsAssumption DEF TypeOK, Roles, Cli
    <2>4. Fresh'
      BY CommandsAssumption DEF TypeOK, Fresh, Roles, Cli
    <2>5. LookedUp'
      BY CommandsAssumption DEF TypeOK, Fresh, LookedUp
    <2>6. Authors'
      BY CommandsAssumption DEF TypeOK, Authors, Roles, Cli
    <2>7. Grouped'
      BY CommandsAssumption DEF TypeOK, Grouped, Roles, Cli
    <2>8. VersionsBelong' /\ NoHalfUpdateRuns'
      BY CommandsAssumption
      DEF TypeOK, VersionsBelong, NoHalfUpdateRuns, Authors, LookedUp, Roles, Cli
    <2>9. QED
      BY <2>1, <2>2, <2>3, <2>4, <2>5, <2>6, <2>7, <2>8
  <1>3. QED
    BY <1>1, <1>2

(* First call of an update, on the template that it looked up.             *)
LEMMA VersionKeepsInv ==
  ASSUME TemplateInv, NEW p \in Procs, CreateVersion(p)
  PROVE  TemplateInv'
  <1> USE DEF TemplateInv, LaunchSteps, GroupSteps, UpdateSteps, DeleteSteps,
              Ended, BeforeCreate, groupVars, Goto, CreateVersion
  <1>1. CASE ~(template = tid[p])
    BY <1>1, OnlyMoves DEF templateVars
  <1>2. CASE template = tid[p]
    <2> USE <1>2
    <2>1. (GroupTypeOK /\ OneGroup /\ EnsuredIsOpen /\ EnsureSucceeds)'
      BY GroupUntouched
    <2>2. TypeOK'
      BY <2>1, CommandsAssumption DEF TypeOK, LookedUp
    <2>3. Roles'
      BY CommandsAssumption DEF TypeOK, Roles, Cli
    <2>4. Fresh'
      BY CommandsAssumption DEF TypeOK, Fresh, Roles, Cli
    <2>5. LookedUp'
      BY CommandsAssumption DEF TypeOK, Fresh, LookedUp
    <2>6. Authors'
      BY CommandsAssumption DEF TypeOK, Authors, Roles, Cli
    <2>7. Grouped'
      BY CommandsAssumption DEF TypeOK, Grouped, Roles, Cli
    <2>8. VersionsBelong' /\ NoHalfUpdateRuns'
      BY CommandsAssumption
      DEF TypeOK, VersionsBelong, NoHalfUpdateRuns, Authors, LookedUp, Roles, Cli
    <2>9. QED
      BY <2>1, <2>2, <2>3, <2>4, <2>5, <2>6, <2>7, <2>8
  <1>3. QED
    BY <1>1, <1>2

(* Second call of an update: its version is in the template by then.       *)
LEMMA DefaultKeepsInv ==
  ASSUME TemplateInv, NEW p \in Procs, SetDefault(p)
  PROVE  TemplateInv'
  <1> USE DEF TemplateInv, LaunchSteps, GroupSteps, UpdateSteps, DeleteSteps,
              Ended, BeforeCreate, groupVars, Goto, SetDefault
  <1>1. CASE ~(template = tid[p])
    BY <1>1, OnlyMoves DEF templateVars
  <1>2. CASE template = tid[p]
    <2> USE <1>2
    <2>1. (GroupTypeOK /\ OneGroup /\ EnsuredIsOpen /\ EnsureSucceeds)'
      BY GroupUntouched
    <2>2. TypeOK'
      BY <2>1, CommandsAssumption DEF TypeOK, LookedUp
    <2>3. Roles'
      BY CommandsAssumption DEF TypeOK, Roles, Cli
    <2>4. Fresh'
      BY CommandsAssumption DEF TypeOK, Fresh, Roles, Cli
    <2>5. LookedUp'
      BY CommandsAssumption DEF TypeOK, Fresh, LookedUp
    <2>6. Authors'
      BY CommandsAssumption DEF TypeOK, Authors, Roles, Cli
    <2>7. Grouped'
      BY CommandsAssumption DEF TypeOK, Grouped, Roles, Cli
    <2>8. VersionsBelong' /\ NoHalfUpdateRuns'
      BY CommandsAssumption
      DEF TypeOK, VersionsBelong, NoHalfUpdateRuns, Authors, LookedUp, Roles, Cli
    <2>9. QED
      BY <2>1, <2>2, <2>3, <2>4, <2>5, <2>6, <2>7, <2>8
  <1>3. QED
    BY <1>1, <1>2

(* A template goes with its versions.                                      *)
LEMMA DeleteKeepsInv ==
  ASSUME TemplateInv, NEW p \in Procs, DeleteTemplate(p)
  PROVE  TemplateInv'
  <1> USE DEF TemplateInv, LaunchSteps, GroupSteps, UpdateSteps, DeleteSteps,
              Ended, BeforeCreate, groupVars, Goto, DeleteTemplate
  <1>1. CASE ~(template = tid[p])
    BY <1>1, OnlyMoves DEF templateVars
  <1>2. CASE template = tid[p]
    <2> USE <1>2
    <2>1. (GroupTypeOK /\ OneGroup /\ EnsuredIsOpen /\ EnsureSucceeds)'
      BY GroupUntouched
    <2>2. TypeOK'
      BY <2>1, CommandsAssumption DEF TypeOK, LookedUp
    <2>3. Roles'
      BY CommandsAssumption DEF TypeOK, Roles, Cli
    <2>4. Fresh'
      BY CommandsAssumption DEF TypeOK, Fresh, Roles, Cli
    <2>5. LookedUp'
      BY CommandsAssumption DEF TypeOK, Fresh, LookedUp
    <2>6. Authors'
      BY CommandsAssumption DEF TypeOK, Authors, Roles, Cli
    <2>7. Grouped'
      BY CommandsAssumption DEF TypeOK, Grouped, Roles, Cli
    <2>8. VersionsBelong' /\ NoHalfUpdateRuns'
      BY CommandsAssumption
      DEF TypeOK, VersionsBelong, NoHalfUpdateRuns, Authors, LookedUp, Roles, Cli
    <2>9. QED
      BY <2>1, <2>2, <2>3, <2>4, <2>5, <2>6, <2>7, <2>8
  <1>3. QED
    BY <1>1, <1>2

(* An update or a delete looks its template up.                            *)
LEMMA LookUpKeepsInv ==
  ASSUME TemplateInv, NEW p \in Procs, GetForUpdate(p) \/ GetForDelete(p)
  PROVE  TemplateInv'
  <1> USE DEF TemplateInv, LaunchSteps, GroupSteps, UpdateSteps, DeleteSteps,
              Ended, BeforeCreate, groupVars, Goto
  <1>0. PICK s \in {"TemplateNotFound", "createVersion", "deleteTemplate"} :
          /\ pc[p] \in {"getForUpdate", "getForDelete"}
          /\ pc' = [pc EXCEPT ![p] = s]
          /\ tid' = [tid EXCEPT ![p] = template]
          /\ s # "TemplateNotFound" => template # NoTemplate
          /\ s = "createVersion" => pc[p] = "getForUpdate"
          /\ s = "deleteTemplate" => pc[p] = "getForDelete"
          /\ UNCHANGED <<groupVars, template, versions, default, ran>>
    BY DEF GetForUpdate, GetForDelete, LookUp
  <1> USE <1>0
  <1>1. (GroupTypeOK /\ OneGroup /\ EnsuredIsOpen /\ EnsureSucceeds)'
    BY GroupUntouched
  <1>2. TypeOK'
    BY <1>1 DEF TypeOK
  <1>3. Roles'
    BY CommandsAssumption DEF TypeOK, Roles, Cli
  <1>4. Fresh'
    BY CommandsAssumption DEF TypeOK, Fresh, Roles, Cli
  <1>5. LookedUp'
    BY CommandsAssumption DEF TypeOK, Fresh, LookedUp
  <1>6. Authors'
    BY CommandsAssumption DEF TypeOK, Authors, Roles, Cli
  <1>7. Grouped'
    BY CommandsAssumption DEF TypeOK, Grouped, Roles, Cli
  <1>8. VersionsBelong' /\ NoHalfUpdateRuns'
    BY CommandsAssumption
    DEF TypeOK, VersionsBelong, NoHalfUpdateRuns, Authors, LookedUp, Roles, Cli
  <1>9. QED
    BY <1>1, <1>2, <1>3, <1>4, <1>5, <1>6, <1>7, <1>8

(* A teammate's step says nothing of the template, and meddles.            *)
LEMMA TeammateKeepsInv ==
  ASSUME TemplateInv, Teammate, UNCHANGED templateVars
  PROVE  TemplateInv'
  <1> USE DEF TemplateInv, Teammate, templateVars
  <1>0. sshOpen' \in BOOLEAN
    BY Zenon DEF TypeOK, GroupTypeOK
  <1>1. TypeOK'
    BY <1>0, GroupAssumption DEF TypeOK, GroupTypeOK, Groups
  <1>2. (Roles /\ Fresh /\ LookedUp /\ Authors)'
    BY DEF Roles, Fresh, LookedUp, Authors
  <1>3. (Grouped /\ OneGroup /\ EnsuredIsOpen /\ EnsureSucceeds)'
    BY DEF Grouped, OneGroup, EnsuredIsOpen, EnsureSucceeds
  <1>4. (VersionsBelong /\ NoHalfUpdateRuns)'
    BY DEF VersionsBelong, NoHalfUpdateRuns
  <1>5. QED
    BY <1>1, <1>2, <1>3, <1>4

(* Every step keeps the invariant. *)
LEMMA TemplateInvStep == TemplateInv /\ [Next]_vars => TemplateInv'
  <1> SUFFICES ASSUME TemplateInv, [Next]_vars PROVE TemplateInv'
    OBVIOUS
  <1>1. CASE UNCHANGED vars
    BY <1>1
    DEF vars, groupVars, templateVars, TemplateInv, TypeOK, GroupTypeOK, Roles,
        Fresh, LookedUp, Authors, Grouped, OneGroup, EnsuredIsOpen,
        EnsureSucceeds, VersionsBelong, NoHalfUpdateRuns
  <1>2. CASE Teammate /\ UNCHANGED templateVars
    BY <1>2, TeammateKeepsInv
  <1>3. ASSUME NEW p \in Procs, GetTemplate(p) PROVE TemplateInv'
    BY <1>3, OnlyMoves DEF GetTemplate, Goto, Ended
  <1>4. ASSUME NEW p \in Procs, EnsureGroup(p), UNCHANGED templateVars
        PROVE  TemplateInv'
    BY <1>4, GroupStepsKeepInv
  <1>5. ASSUME NEW p \in Procs, GetAgain(p) PROVE TemplateInv'
    BY <1>5, OnlyMoves DEF GetAgain, Goto, Ended
  <1>6. ASSUME NEW p \in Procs, Fails(p) PROVE TemplateInv'
    BY <1>6, OnlyMoves
    DEF Fails, Goto, Ended, LaunchSteps, GroupSteps, UpdateSteps, DeleteSteps
  <1>7. QED
    BY <1>1, <1>2, <1>3, <1>4, <1>5, <1>6, StepCases, CreateKeepsInv,
       RunKeepsInv, VersionKeepsInv, DefaultKeepsInv, LookUpKeepsInv,
       DeleteKeepsInv

(* The invariant holds in every reachable state. *)
LEMMA AlwaysTemplateInv == Spec => []TemplateInv
  <1>1. QED
    BY TemplateInvInit, TemplateInvStep, PTL DEF Spec

(* Every variable keeps its type: among others, the default version is one *)
(* of the template that is there, whatever an update was overtaken by.     *)
THEOREM TypeCorrectness == Spec => []TypeOK
  <1>1. TemplateInv => TypeOK
    BY DEF TemplateInv
  <1>2. QED
    BY <1>1, AlwaysTemplateInv, PTL

(* No update writes into a template that took the name after it looked.    *)
THEOREM VersionsAreOwn == Spec => []VersionsBelong
  <1>1. TemplateInv => VersionsBelong
    BY DEF TemplateInv
  <1>2. QED
    BY <1>1, AlwaysTemplateInv, PTL

(* No launch uses the version of an update that did not finish.            *)
THEOREM UpdatesAreWhole == Spec => []NoHalfUpdateRuns
  <1>1. TemplateInv => NoHalfUpdateRuns
    BY DEF TemplateInv
  <1>2. QED
    BY <1>1, AlwaysTemplateInv, PTL

(* Racing launches end with one group, open to SSH, and all return its id. *)
THEOREM EnsuredGroupIsOpen == Spec => []EnsuredIsOpen
  <1>1. TemplateInv => EnsuredIsOpen
    BY DEF TemplateInv
  <1>2. QED
    BY <1>1, AlwaysTemplateInv, PTL

(* ensure_default_security_group never fails because of another process.   *)
THEOREM EnsureNeverFails == Spec => []EnsureSucceeds
  <1>1. TemplateInv => EnsureSucceeds
    BY DEF TemplateInv
  <1>2. QED
    BY <1>1, AlwaysTemplateInv, PTL

(* An instance of a template that a launch created can be reached.         *)
THEOREM InstancesAreReachable == Spec => []LaunchedIsReachable
  <1>1. TemplateInv => LaunchedIsReachable
    BY CommandsAssumption
    DEF TemplateInv, Grouped, EnsuredIsOpen, LaunchedIsReachable, Cli
  <1>2. QED
    BY <1>1, AlwaysTemplateInv, PTL

(* A delete removes the template it looked up and no other.                *)
THEOREM DeletesOnlyWhatItSaw == Spec => DeletesWhatItSaw
  <1> DEFINE Deleted == template # NoTemplate /\ template' = NoTemplate
      Saw == \E p \in Deleters : tid[p] = template
                                 /\ pc[p] = "deleteTemplate" /\ pc'[p] = "done"
  <1>1. TemplateInv /\ [Next]_vars => [Deleted => Saw]_vars
    <2> SUFFICES ASSUME TemplateInv, [Next]_vars, Deleted PROVE Saw
      BY DEF vars
    <2>1. PICK p \in Procs : DeleteTemplate(p)
      BY StepCases, CommandsAssumption
      DEF vars, templateVars, GetTemplate, EnsureGroup, GetAgain,
          CreateTemplate, RunInstances, GetForUpdate, GetForDelete, LookUp,
          CreateVersion, SetDefault, Fails
    <2>2. p \in Deleters /\ pc \in [Procs -> LaunchSteps \cup UpdateSteps
                                              \cup DeleteSteps \cup Ended]
      BY <2>1 DEF DeleteTemplate, Goto, TemplateInv, TypeOK, Roles, DeleteSteps
    <2>3. QED
      BY <2>1, <2>2 DEF DeleteTemplate, Goto, templateVars
  <1>2. QED
    BY <1>1, AlwaysTemplateInv, PTL DEF Spec, DeletesWhatItSaw

(* The four steps implement the promise of SharedGroup.                    *)
THEOREM GroupRefinesShared == Spec => SharedGroupSpec
  <1>1. Init => Shared!Init
    BY DEF Init, GroupInit, Shared!Init
  <1>2. TemplateInv /\ [Next]_vars => [Shared!Next]_(Shared!vars)
    <2> SUFFICES ASSUME TemplateInv, [Next]_vars
                 PROVE  [Shared!Next]_(Shared!vars)
      OBVIOUS
    <2> USE DEF Shared!Next, Shared!vars
    <2>1. CASE UNCHANGED groupVars
      BY <2>1 DEF groupVars
    <2>2. CASE Teammate
      <3>1. sshOpen' \in BOOLEAN /\ UNCHANGED sg
        BY <2>2, Zenon DEF Teammate, TemplateInv, TypeOK, GroupTypeOK
      <3>2. group' \in {NoGroup, group, Theirs} /\ (group' = NoGroup => ~sshOpen')
        BY <2>2, GroupAssumption DEF Teammate
      <3>3. QED
        BY <3>1, <3>2 DEF Shared!Meddle
    <2>3. ASSUME NEW p \in Procs, EnsureGroup(p)
          PROVE  [Shared!Next]_(Shared!vars)
      <3>1. CASE DescribeGroup(p) \/ FindGroup(p)
        BY <3>1 DEF DescribeGroup, FindGroup
      <3>2. CASE CreateGroup(p)
        BY <3>2 DEF CreateGroup, groupVars, TemplateInv, TypeOK, GroupTypeOK,
                    Shared!Create
      <3>3. CASE Authorize(p)
        BY <3>3 DEF Authorize, Goto, groupVars, TemplateInv, TypeOK,
                    GroupTypeOK, Shared!Ensure
      <3>4. QED
        BY <2>3, <3>1, <3>2, <3>3 DEF EnsureGroup
    <2>4. QED
      BY <2>1, <2>2, <2>3, StepCases
      DEF vars, GetTemplate, GetAgain, CreateTemplate, RunInstances,
          GetForUpdate, GetForDelete, LookUp, CreateVersion, SetDefault,
          DeleteTemplate, Fails
  <1>3. QED
    BY <1>1, <1>2, AlwaysTemplateInv, PTL DEF Spec, SharedGroupSpec, Shared!Spec

(* The commands implement the store: each change of what a launch uses is  *)
(* one step, and in between there is nothing to be seen.                   *)
THEOREM TemplateRefinesStore == Spec => StoreSpec
  <1>1. Init => Store!Init
    BY DEF Init, Store!Init
  <1>2. TemplateInv /\ [Next]_vars => [Store!Next]_(Store!vars)
    <2> SUFFICES ASSUME TemplateInv, [Next]_vars
                 PROVE  [Store!Next]_(Store!vars)
      OBVIOUS
    <2> USE DEF Store!Next, Store!vars
    <2>1. CASE UNCHANGED templateVars
      BY <2>1 DEF templateVars
    <2>2. ASSUME NEW p \in Procs, CreateTemplate(p)
          PROVE  [Store!Next]_(Store!vars)
      BY <2>2 DEF CreateTemplate, templateVars, Store!Create
    <2>3. ASSUME NEW p \in Procs, RunInstances(p)
          PROVE  [Store!Next]_(Store!vars)
      <3>1. p \in Launchers /\ (template # NoTemplate => default # NoTemplate)
        BY <2>3, CommandsAssumption
        DEF RunInstances, Goto, TemplateInv, TypeOK, Roles, LaunchSteps
      <3>2. QED
        BY <2>3, <3>1 DEF RunInstances, templateVars, Store!Run
    <2>4. ASSUME NEW p \in Procs,
                 GetForUpdate(p) \/ GetForDelete(p) \/ CreateVersion(p)
          PROVE  [Store!Next]_(Store!vars)
      BY <2>4 DEF GetForUpdate, GetForDelete, LookUp, CreateVersion, templateVars
    <2>5. ASSUME NEW p \in Procs, SetDefault(p)
          PROVE  [Store!Next]_(Store!vars)
      <3>1. p \in Updaters /\ tid[p] # NoTemplate
        BY <2>5
        DEF SetDefault, Goto, TemplateInv, Roles, LookedUp, UpdateSteps
      <3>2. QED
        BY <2>5, <3>1 DEF SetDefault, templateVars, Store!Publish
    <2>6. ASSUME NEW p \in Procs, DeleteTemplate(p)
          PROVE  [Store!Next]_(Store!vars)
      BY <2>6 DEF DeleteTemplate, templateVars, Store!Delete
    <2>7. QED
      BY <2>1, <2>2, <2>3, <2>4, <2>5, <2>6, StepCases
      DEF vars, GetTemplate, GetAgain, Fails
  <1>3. QED
    BY <1>1, <1>2, AlwaysTemplateInv, PTL DEF Spec, StoreSpec, Store!Spec

--------------------------------------------------------------------------------
(* At most one process creates templates. *)
OneCreator == \A p, q \in Launchers \cup Creators : p = q

(* A launch fails with AlreadyExists only because another process has      *)
(* created the template after its two looks: where one process creates     *)
(* templates, however many update, delete and meddle, ensure_template      *)
(* succeeds.  The run template_race shows what a second one does.          *)
THEOREM LoneCreatorSucceeds == ASSUME OneCreator PROVE Spec => []EnsureTemplateSucceeds
  <1>1. Init => EnsureTemplateSucceeds
    BY CommandsAssumption DEF Init, First, EnsureTemplateSucceeds
  <1>2. TemplateInv /\ EnsureTemplateSucceeds /\ [Next]_vars => EnsureTemplateSucceeds'
    <2> SUFFICES ASSUME TemplateInv, EnsureTemplateSucceeds, [Next]_vars,
                        NEW p \in Launchers, pc'[p] = "AlreadyExists"
                 PROVE  FALSE
      BY DEF EnsureTemplateSucceeds
    <2>1. pc[p] # "AlreadyExists" /\ p \in Procs /\ TypeOK
      BY CommandsAssumption DEF EnsureTemplateSucceeds, TemplateInv
    <2>2. ASSUME NEW q \in Procs, NEW from, NEW to, Goto(q, from, to)
          PROVE  q = p /\ to = "AlreadyExists"
      BY <2>1, <2>2 DEF Goto, TypeOK
    <2>3. CreateTemplate(p) /\ template # NoTemplate
      <3>1. \A q \in Procs : ~GetTemplate(q) /\ ~GetAgain(q) /\ ~RunInstances(q) /\ ~Fails(q)
        BY <2>2 DEF GetTemplate, GetAgain, RunInstances, Fails
      <3>2. \A q \in Procs : ~GetForUpdate(q) /\ ~GetForDelete(q)
        BY <2>2 DEF GetForUpdate, GetForDelete, LookUp
      <3>3. \A q \in Procs : ~CreateVersion(q) /\ ~SetDefault(q) /\ ~DeleteTemplate(q)
        BY <2>2 DEF CreateVersion, SetDefault, DeleteTemplate
      <3>4. \A q \in Procs : ~EnsureGroup(q)
        BY <2>2 DEF EnsureGroup, DescribeGroup, CreateGroup, FindGroup, Authorize
      <3>5. PICK q \in Procs : CreateTemplate(q)
        BY <2>1, <3>1, <3>2, <3>3, <3>4, StepCases DEF vars, Teammate
      <3> QED BY <2>2, <3>5 DEF CreateTemplate
    <2>4. pc[p] = "createTemplate" /\ template # p
      BY <2>1, <2>3 DEF CreateTemplate, Goto, TemplateInv, Fresh, BeforeCreate
    <2>5. template \in Launchers \cup Creators
      BY <2>3 DEF TemplateInv, Authors
    <2> QED BY <2>4, <2>5 DEF OneCreator
  <1> QED BY <1>1, <1>2, AlwaysTemplateInv, PTL DEF Spec

(* The default of a template that an update has finished on is a version   *)
(* of a finished update.                                                   *)
UpdatesStay == \A u \in Updaters :
  pc[u] = "done" /\ tid[u] = template /\ template # NoTemplate
    => default \in Updaters /\ pc[default] = "done"

(* An update that has reported success is undone by nobody but a later     *)
(* update or a delete: neither a launch that has found no template nor a   *)
(* create, a half-done update or a crash brings an older version back.     *)
THEOREM NoUpdateIsLost == Spec => []UpdatesStay
  <1>1. Init => UpdatesStay
    BY CommandsAssumption DEF Init, First, UpdatesStay
  <1>2. TemplateInv /\ UpdatesStay /\ [Next]_vars => UpdatesStay'
    <2> SUFFICES ASSUME TemplateInv, UpdatesStay, [Next]_vars,
                        NEW u \in Updaters, pc'[u] = "done", tid'[u] = template',
                        template' # NoTemplate
                 PROVE  default' \in Updaters /\ pc'[default'] = "done"
      BY DEF UpdatesStay
    <2>1. TypeOK /\ u \in Procs /\ TypeOK' /\ Authors'
      BY CommandsAssumption, TemplateInvStep DEF TemplateInv
    <2>2. default' \in Updaters => pc'[default'] = "done"
      BY <2>1 DEF Authors
    <2>3. CASE pc[u] # "done"
      <3>1. ASSUME NEW q \in Procs, NEW from, NEW to, Goto(q, from, to)
            PROVE  q = u /\ to = "done"
        BY <2>1, <2>3, <3>1 DEF Goto, TypeOK
      <3>2. \A q \in Procs : ~GetTemplate(q) /\ ~GetAgain(q) /\ ~Fails(q) /\ ~EnsureGroup(q)
        BY <3>1 DEF GetTemplate, GetAgain, Fails, EnsureGroup, DescribeGroup,
                    CreateGroup, FindGroup, Authorize
      <3>3. \A q \in Procs : ~GetForUpdate(q) /\ ~GetForDelete(q) /\ ~CreateVersion(q)
        BY <3>1 DEF GetForUpdate, GetForDelete, LookUp, CreateVersion
      <3>4. PICK q \in Procs : \/ CreateTemplate(q) \/ RunInstances(q)
                              \/ SetDefault(q) \/ DeleteTemplate(q)
        BY <2>1, <2>3, <3>2, <3>3, StepCases DEF vars, Teammate
      <3>5. q = u
        BY <3>1, <3>4 DEF CreateTemplate, RunInstances, SetDefault, DeleteTemplate
      <3>6. SetDefault(u)
        BY <3>4, <3>5, CommandsAssumption
           DEF CreateTemplate, RunInstances, DeleteTemplate, Goto, TemplateInv, Roles,
               LaunchSteps, DeleteSteps, Cli
      <3>7. default' = u
        BY <2>1, <3>1, <3>6 DEF SetDefault
      <3> QED BY <2>2, <3>7
    <2>4. CASE pc[u] = "done"
      <3>1. CASE tid'[u] = tid[u] /\ template' = template /\ default' = default
        BY <2>2, <2>4, <3>1 DEF UpdatesStay
      <3>2. ASSUME NEW q \in Procs, CreateTemplate(q), template = NoTemplate
            PROVE  FALSE
        BY <2>1, <3>2 DEF CreateTemplate, Goto, TemplateInv, Fresh, BeforeCreate
      <3>3. ASSUME NEW q \in Procs, SetDefault(q), template = tid[q]
            PROVE  default' = q /\ q \in Updaters
        BY <3>3 DEF SetDefault, Goto, TemplateInv, LookedUp, Roles, UpdateSteps
      <3>4. ASSUME NEW q \in Procs, GetForUpdate(q) \/ GetForDelete(q)
            PROVE  tid'[u] = tid[u] /\ template' = template /\ default' = default
        BY <2>1, <2>4, <3>4 DEF GetForUpdate, GetForDelete, LookUp, Goto, TypeOK
      <3>5. ASSUME NEW q \in Procs, DeleteTemplate(q), template = tid[q]
            PROVE  FALSE
        BY <3>5 DEF DeleteTemplate, Goto, TemplateInv, LookedUp
      <3>6. ASSUME NEW q \in Procs, CreateVersion(q)
            PROVE  tid'[u] = tid[u] /\ template' = template /\ default' = default
        BY <3>6 DEF CreateVersion, templateVars
      <3>7. ASSUME NEW q \in Procs, CreateTemplate(q) \/ SetDefault(q) \/ DeleteTemplate(q),
                   UNCHANGED templateVars
            PROVE  tid'[u] = tid[u] /\ template' = template /\ default' = default
        BY <3>7 DEF templateVars
      <3>8. \/ tid'[u] = tid[u] /\ template' = template /\ default' = default
            \/ default' \in Updaters
        <4>1. CASE \E q \in Procs : CreateTemplate(q)
          BY <3>2, <3>7, <4>1 DEF CreateTemplate
        <4>2. CASE \E q \in Procs : SetDefault(q)
          BY <3>3, <3>7, <4>2 DEF SetDefault
        <4>3. CASE \E q \in Procs : DeleteTemplate(q)
          BY <3>5, <3>7, <4>3 DEF DeleteTemplate
        <4>4. CASE \E q \in Procs : GetForUpdate(q) \/ GetForDelete(q) \/ CreateVersion(q)
          BY <3>4, <3>6, <4>4
        <4> QED BY <4>1, <4>2, <4>3, <4>4, StepCases
                DEF vars, templateVars, GetTemplate, GetAgain, RunInstances, Fails
      <3> QED BY <2>2, <3>1, <3>8
    <2> QED BY <2>3, <2>4
  <1> QED BY <1>1, <1>2, AlwaysTemplateInv, PTL DEF Spec

--------------------------------------------------------------------------------
(* How many calls a command has left at the most. *)
CallsLeft(p) ==
  CASE pc[p] = "getTemplate" -> 8
    [] pc[p] = "describeGroup" -> 7
    [] pc[p] = "createGroup" -> 6
    [] pc[p] = "findGroup" -> 5
    [] pc[p] = "authorize" -> 4
    [] pc[p] \in {"ensured", "getForUpdate"} -> 3
    [] pc[p] \in {"createTemplate", "createVersion", "getForDelete"} -> 2
    [] pc[p] \in {"run", "setDefault", "deleteTemplate"} -> 1
    [] OTHER -> 0

Moves(p) == Launch(p) \/ CreateTemplate(p) \/ GetForUpdate(p) \/ CreateVersion(p)
            \/ SetDefault(p) \/ GetForDelete(p) \/ DeleteTemplate(p) \/ Fails(p)

Shortens == \A p \in Procs :
  /\ CallsLeft(p) \in Nat /\ CallsLeft(p)' <= CallsLeft(p)
  /\ Moves(p) => CallsLeft(p)' < CallsLeft(p)

(* No command tries anything again: a duplicate group, a template that is  *)
(* there already or a stale id leads on or ends it, so a launch is over    *)
(* after eight calls, and an update after three, whatever others do.       *)
THEOREM CommandsOnlyGoForward == Spec => [][Shortens]_vars
  <1>1. TemplateInv /\ [Next]_vars => [Shortens]_vars
    <2> SUFFICES ASSUME TemplateInv, [Next]_vars, NEW p \in Procs
                 PROVE  /\ CallsLeft(p) \in Nat /\ CallsLeft(p)' <= CallsLeft(p)
                        /\ Moves(p) => CallsLeft(p)' < CallsLeft(p)
      BY DEF Shortens
    <2> USE DEF TemplateInv, TypeOK, Goto, CallsLeft
    <2>1. ASSUME EnsureGroup(p)
          PROVE  CallsLeft(p)' < CallsLeft(p)
      BY <2>1 DEF EnsureGroup, DescribeGroup, CreateGroup, FindGroup, Authorize
    <2>2. ASSUME GetTemplate(p) \/ GetAgain(p) \/ RunInstances(p) \/ CreateTemplate(p)
          PROVE  CallsLeft(p)' < CallsLeft(p)
      BY <2>2 DEF GetTemplate, GetAgain, RunInstances, CreateTemplate
    <2>3. ASSUME \/ GetForUpdate(p) \/ CreateVersion(p) \/ SetDefault(p)
                 \/ GetForDelete(p) \/ DeleteTemplate(p)
          PROVE  CallsLeft(p)' < CallsLeft(p)
      BY <2>3 DEF GetForUpdate, GetForDelete, LookUp, CreateVersion, SetDefault,
                  DeleteTemplate
    <2>4. ASSUME Fails(p) PROVE CallsLeft(p)' < CallsLeft(p)
      BY <2>4 DEF Fails, LaunchSteps, GroupSteps, UpdateSteps, DeleteSteps
    <2>5. ASSUME NEW q \in Procs, q # p, Moves(q) PROVE pc'[p] = pc[p]
      <3>1. \E from, to : Goto(q, from, to)
        BY <2>5
           DEF Moves, Launch, EnsureGroup, DescribeGroup, CreateGroup, FindGroup,
               Authorize, GetTemplate, GetAgain, RunInstances, CreateTemplate,
               GetForUpdate, GetForDelete, LookUp, CreateVersion, SetDefault,
               DeleteTemplate, Fails
      <3> QED BY <2>5, <3>1
    <2>6. Moves(p) => CallsLeft(p)' < CallsLeft(p)
      BY <2>1, <2>2, <2>3, <2>4 DEF Moves, Launch
    <2>7. CASE pc'[p] = pc[p]
      BY <2>6, <2>7
    <2>8. CASE pc'[p] # pc[p]
      <3>1. Moves(p)
        BY <2>5, <2>8 DEF Next, Moves, vars, Teammate
      <3> QED BY <2>6, <3>1
    <2> QED BY <2>7, <2>8
  <1> QED BY <1>1, AlwaysTemplateInv, PTL DEF Spec
================================================================================
