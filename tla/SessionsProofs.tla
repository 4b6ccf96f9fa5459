---------------------------- MODULE SessionsProofs ----------------------------
(***************************************************************************)
(* What TLAPS checks about launches, connects and terminates, for any      *)
(* number of them, any handles and flags, and any instances that come and  *)
(* go meanwhile.                                                           *)
(***************************************************************************)
EXTENDS Sessions, Integers, TLAPS

(* Every command takes the steps of its own function. *)
Roles ==
  /\ \A p \in Launchers : pc[p] \in {"run", "wait", "probe", "cloudInit", "plan"} \cup Ended
  /\ \A p \in Connectors : pc[p] \in {"find", "probe"} \cup Ended
  /\ \A p \in Terminators : pc[p] \in {"find", "confirm", "terminate"} \cup (Ended \ {"ssh"})

(* An instance is not there before its launch has come to RunInstances. *)
NotYet == \A p \in Launchers : pc[p] = "run" => state[p] = "none"

(* A connect past its lookup has an instance of kleya's in hand. *)
ManagedInHand == \A p \in Connectors :
  pc[p] \in {"probe", "ssh"} => target[p] \notin Theirs

(* What a launch past its probe, or past cloud-init, has found out about   *)
(* its guest; a guest goes only forward, so it stays true.                 *)
Answered ==
  /\ \A p \in Launchers :
       /\ pc[p] \in {"cloudInit", "plan", "ssh"} => boot[p] # "off"
       /\ pc[p] \in {"plan", "done", "ssh"} /\ EffectiveWait(p) => boot[p] = "ready"
  /\ \A p \in Connectors : pc[p] = "ssh" => boot[target[p]] # "off"

(* A command that has not looked yet has nothing in hand. *)
EmptyHanded == \A p \in Procs : pc[p] \in {"run", "find", "confirm"} => target[p] = NoInstance

SessionInv == /\ TypeOK /\ Roles /\ NotYet /\ LandsOnOwn /\ NamesLeadToManaged
              /\ ManagedInHand /\ Answered /\ EmptyHanded

LEMMA SetupTypes ==
  ASSUME NEW s \in Setups
  PROVE  /\ s.flags \in [Launchers -> SUBSET {"connect", "waitBootstrap", "noWaitBootstrap"}]
         /\ s.handle \in [Connectors \cup Terminators -> Instances \cup Names]
         /\ [flags |-> s.flags, handle |-> s.handle] = s
  BY SessionsAssumption

LEMMA Apart ==
  /\ \A p \in Launchers : /\ p \in Procs /\ p \in Instances /\ p \notin Theirs
                          /\ p \notin Connectors /\ p \notin Terminators /\ p # NoInstance
  /\ \A p \in Connectors \cup Terminators : p \in Procs /\ p \notin Launchers
  /\ \A p \in Connectors : p \notin Terminators
  BY SessionsAssumption DEF Procs, Instances

LEMMA InitSession == Init => SessionInv
  <1> SUFFICES ASSUME Init PROVE SessionInv
    OBVIOUS
  <1> USE Apart DEF Init
  <1>1. \A p \in Procs : /\ pc[p] \in {"run", "find", "confirm"} /\ target[p] = NoInstance
                         /\ p \in Launchers => pc[p] = "run"
                         /\ p \in Connectors => pc[p] = "find"
                         /\ p \in Terminators => pc[p] = "confirm"
    BY DEF Procs
  <1>2. TypeOK
    <2>1. [flags |-> flags, handle |-> handle] \in Setups
      BY SetupTypes
    <2>2. pc \in [Procs -> Steps \cup Ended]
      BY <1>1 DEF Steps
    <2>3. /\ state \in [Instances -> States] /\ boot \in [Instances -> {"off", "ssh", "ready", "broken"}]
          /\ address \subseteq {i \in Instances : state[i] = "running"}
      BY DEF States, Instances
    <2> QED BY <1>1, <2>1, <2>2, <2>3 DEF TypeOK
  <1>3. /\ Roles /\ LandsOnOwn /\ NamesLeadToManaged /\ ManagedInHand /\ Answered
        /\ EmptyHanded
    BY <1>1
       DEF Roles, LandsOnOwn, NamesLeadToManaged, ManagedInHand, Answered, EmptyHanded
  <1>4. NotYet
    BY DEF NotYet
  <1> QED BY <1>2, <1>3, <1>4 DEF SessionInv

--------------------------------------------------------------------------------
(* A step of EC2, or of a command as far as EC2 goes: the guests go        *)
(* forward, and what is not there yet stays away.                          *)
CloudMoves ==
  /\ state' \in [Instances -> States]
  /\ address' \subseteq {i \in Instances : state'[i] = "running"}
  /\ boot' \in [Instances -> {"off", "ssh", "ready", "broken"}]
  /\ \A i \in Instances : /\ boot[i] # "off" => boot'[i] # "off"
                          /\ boot[i] = "ready" => boot'[i] = "ready"

LEMMA DownMoves ==
  ASSUME TypeOK, NEW I \in SUBSET Known, Down(I), UNCHANGED boot
  PROVE  CloudMoves /\ \A i \in Instances : state[i] = "none" => state'[i] = "none"
  BY DEF TypeOK, Down, Known, States, CloudMoves

LEMMA CloudStep ==
  ASSUME TypeOK, NEW i \in Instances, Cloud(i)
  PROVE  CloudMoves /\ \A j \in Launchers : state[j] = "none" => state'[j] = "none"
  <1> USE SessionsAssumption DEF TypeOK, States, CloudMoves
  <1>1. CASE Elsewhere(i)
    BY <1>1, Apart DEF Elsewhere, Procs
  <1>2. CASE Publish(i)
    BY <1>2, Apart DEF Publish
  <1>3. CASE Starts(i)
    BY <1>3, Apart DEF Starts
  <1>4. CASE Boots(i)
    BY <1>4, Apart DEF Boots
  <1>5. CASE Ends(i)
    BY <1>5, Apart, DownMoves DEF Ends, Known
  <1>6. CASE Forgotten(i)
    BY <1>6, Apart DEF Forgotten
  <1> QED BY <1>1, <1>2, <1>3, <1>4, <1>5, <1>6 DEF Cloud

(* What a step must do to the command that takes it. *)
GoodStep(p) ==
  /\ target'[p] \in Instances \cup {NoInstance}
  /\ pc'[p] \in {"wait", "probe", "cloudInit", "plan", "terminate", "ssh"} =>
       target'[p] # NoInstance
  /\ p \in Launchers =>
       /\ pc'[p] \in {"wait", "probe", "cloudInit", "plan"} \cup Ended
       /\ target'[p] \in {NoInstance, p}
       /\ pc'[p] \in {"cloudInit", "plan", "ssh"} => boot'[p] # "off"
       /\ pc'[p] \in {"plan", "done", "ssh"} /\ EffectiveWait(p) => boot'[p] = "ready"
  /\ p \in Connectors =>
       /\ pc'[p] \in {"probe"} \cup Ended
       /\ pc'[p] \in {"probe", "ssh"} => target'[p] \notin Theirs
       /\ pc'[p] = "ssh" => boot'[target'[p]] # "off"
  /\ p \in Terminators =>
       /\ pc'[p] \in {"find", "terminate"} \cup (Ended \ {"ssh"})
       /\ pc'[p] = "find" => target'[p] = NoInstance
  /\ p \notin Launchers /\ target'[p] # NoInstance /\ ~ById(p) =>
       target'[p] \notin Theirs /\ NameOf[target'[p]] = handle[p]

(* A command that takes such a step leaves the others as they are.         *)
LEMMA OneMoves ==
  ASSUME SessionInv, NEW p \in Procs, CloudMoves, UNCHANGED given,
         NEW to, pc' = [pc EXCEPT ![p] = to],
         NEW i, target' = [target EXCEPT ![p] = i],
         \A q \in Launchers \ {p} : state[q] = "none" => state'[q] = "none",
         GoodStep(p)
  PROVE  SessionInv'
  <1>1. /\ \A q \in Procs \ {p} : pc'[q] = pc[q] /\ target'[q] = target[q]
        /\ pc'[p] = to /\ target'[p] = i /\ TypeOK
        /\ flags' = flags /\ handle' = handle
    BY DEF SessionInv, TypeOK, given
  <1>2. \A q \in Procs : EffectiveWait(q)' = EffectiveWait(q) /\ ById(q)' = ById(q)
    BY <1>1 DEF EffectiveWait, ById
  <1>3. to \in Steps \cup Ended
    BY <1>1 DEF GoodStep, Procs, Steps
  <1>4. TypeOK'
    <2>1. pc' \in [Procs -> Steps \cup Ended]
      BY <1>1, <1>3 DEF TypeOK
    <2>2. target' \in [Procs -> Instances \cup {NoInstance}]
      BY <1>1 DEF TypeOK, GoodStep
    <2>3. \A q \in Procs : pc'[q] \in {"wait", "probe", "cloudInit", "plan", "terminate", "ssh"}
                              => target'[q] # NoInstance
      BY <1>1 DEF TypeOK, GoodStep
    <2> QED BY <1>1, <2>1, <2>2, <2>3 DEF TypeOK, CloudMoves
  <1>5. Roles'
    BY <1>1, Apart DEF SessionInv, Roles, GoodStep
  <1>6. NotYet'
    BY <1>1, Apart DEF SessionInv, NotYet, GoodStep, Ended
  <1>7. LandsOnOwn'
    BY <1>1, Apart DEF SessionInv, LandsOnOwn, GoodStep
  <1>8. NamesLeadToManaged'
    BY <1>1, <1>2, Apart DEF SessionInv, NamesLeadToManaged, GoodStep
  <1>9. ManagedInHand'
    BY <1>1, Apart DEF SessionInv, ManagedInHand, GoodStep
  <1>10. Answered'
    <2>1. \A q \in Launchers :
            /\ pc'[q] \in {"cloudInit", "plan", "ssh"} => boot'[q] # "off"
            /\ pc'[q] \in {"plan", "done", "ssh"} /\ EffectiveWait(q) => boot'[q] = "ready"
      BY <1>1, Apart DEF SessionInv, Answered, GoodStep, CloudMoves
    <2>2. \A q \in Connectors : pc'[q] = "ssh" => boot'[target'[q]] # "off"
      BY <1>1, Apart DEF SessionInv, Answered, GoodStep, CloudMoves, TypeOK
    <2> QED BY <1>2, <2>1, <2>2, Apart DEF Answered
  <1>11. EmptyHanded'
    BY <1>1, Apart DEF SessionInv, EmptyHanded, GoodStep, Procs, Ended
  <1> QED BY <1>4, <1>5, <1>6, <1>7, <1>8, <1>9, <1>10, <1>11 DEF SessionInv

(* A step that only looks: EC2 and the command's target stay. *)
LEMMA OnlyLooks ==
  ASSUME SessionInv, NEW p \in Procs, NEW to, pc' = [pc EXCEPT ![p] = to],
         UNCHANGED <<given, target, cloudVars>>, GoodStep(p)
  PROVE  SessionInv'
  <1>1. CloudMoves /\ state' = state
    BY DEF CloudMoves, cloudVars, SessionInv, TypeOK
  <1>2. target' = [target EXCEPT ![p] = target[p]]
    BY DEF SessionInv, TypeOK
  <1> QED BY <1>1, <1>2, OneMoves

(* An error leaves everything as it is, in whatever step it comes. *)
LEMMA Errs ==
  ASSUME SessionInv, NEW p \in Procs, NEW e \in Ended \ {"done", "ssh"},
         pc' = [pc EXCEPT ![p] = e], UNCHANGED <<given, target, cloudVars>>
  PROVE  SessionInv'
  <1>1. /\ pc'[p] = e /\ target'[p] = target[p] /\ target[p] \in Instances \cup {NoInstance}
        /\ e \notin Steps
    BY DEF SessionInv, TypeOK, Steps, Ended
  <1>2. GoodStep(p)
    BY <1>1, Apart
       DEF SessionInv, LandsOnOwn, NamesLeadToManaged, GoodStep, Procs, Ended
  <1> QED BY <1>2, OnlyLooks

--------------------------------------------------------------------------------
LEMMA RunSteps ==
  ASSUME SessionInv, NEW p \in Procs, RunInstances(p)
  PROVE  SessionInv'
  <1>1. p \in Launchers /\ pc[p] = "run" /\ TypeOK
    BY DEF RunInstances, Goto, SessionInv, Roles, Procs, Ended
  <1>2. p \notin address
    BY <1>1, Apart DEF SessionInv, NotYet, TypeOK
  <1>3. CloudMoves /\ \A q \in Launchers \ {p} : state'[q] = state[q]
    BY <1>1, <1>2, Apart DEF RunInstances, CloudMoves, TypeOK, States
  <1>4. pc'[p] = "wait" /\ target'[p] = p
    BY <1>1 DEF RunInstances, Goto, TypeOK
  <1>5. GoodStep(p)
    BY <1>1, <1>4, Apart DEF GoodStep
  <1> QED BY <1>3, <1>5, OneMoves DEF RunInstances, Goto

LEMMA WaitSteps ==
  ASSUME SessionInv, NEW p \in Procs, Wait(p)
  PROVE  SessionInv'
  <1>1. p \in Launchers /\ pc[p] = "wait" /\ target[p] = p /\ TypeOK
    BY DEF Wait, Goto, SessionInv, Roles, Procs, Ended, LandsOnOwn, TypeOK
  <1>2. CASE Goto(p, "wait", AfterWait(p))
    <2>1. /\ AfterWait(p) \in {"done", "probe", "NoPublicDns"}
          /\ AfterWait(p) = "done" => ~EffectiveWait(p)
      BY DEF AfterWait
    <2>2. pc'[p] = AfterWait(p) /\ target'[p] = p
      BY <1>1, <1>2 DEF Goto, Wait, TypeOK
    <2>3. GoodStep(p)
      BY <1>1, <2>1, <2>2, Apart DEF GoodStep, Ended
    <2> QED BY <1>2, <2>3, OnlyLooks DEF Goto, Wait
  <1>3. CASE \E e \in {"failed", "Cancelled", "LaunchWaitTimeout"} : Goto(p, "wait", e)
    BY <1>3, Errs DEF Goto, Wait, Ended
  <1> QED BY <1>2, <1>3 DEF Wait

LEMMA ProbeSteps ==
  ASSUME SessionInv, NEW p \in Procs, Probe(p)
  PROVE  SessionInv'
  <1>1. p \in Launchers \cup Connectors /\ pc[p] = "probe" /\ TypeOK
    BY DEF Probe, Goto, SessionInv, Roles, Procs, Ended
  <1>2. CASE Goto(p, "probe", AfterProbe(p)) /\ PortOpen(target[p])
    <2>1. /\ pc'[p] = AfterProbe(p) /\ target'[p] = target[p] /\ boot' = boot
          /\ boot[target[p]] # "off" /\ target[p] \in Instances /\ target[p] # NoInstance
      BY <1>1, <1>2 DEF Goto, Probe, PortOpen, TypeOK, cloudVars
    <2>2. ASSUME p \in Connectors PROVE GoodStep(p)
      BY <1>1, <2>1, <2>2, Apart
         DEF GoodStep, AfterProbe, Ended, SessionInv, ManagedInHand, NamesLeadToManaged
    <2>3. ASSUME p \in Launchers PROVE GoodStep(p)
      BY <1>1, <2>1, <2>3, Apart DEF GoodStep, AfterProbe, SessionInv, LandsOnOwn
    <2>4. GoodStep(p)
      BY <1>1, <2>2, <2>3
    <2> QED BY <1>2, <2>4, OnlyLooks DEF Goto, Probe
  <1>3. CASE \E e \in {"Cancelled", "SshNotReady"} : Goto(p, "probe", e)
    BY <1>3, Errs DEF Goto, Probe, Ended
  <1> QED BY <1>2, <1>3 DEF Probe

LEMMA CloudInitSteps ==
  ASSUME SessionInv, NEW p \in Procs, CloudInit(p)
  PROVE  SessionInv'
  <1>1. p \in Launchers /\ pc[p] = "cloudInit" /\ target[p] = p /\ TypeOK
    BY DEF CloudInit, Goto, SessionInv, Roles, Procs, Ended, LandsOnOwn, TypeOK
  <1>2. CASE Goto(p, "cloudInit", IF Connects(p) THEN "plan" ELSE "done") /\ boot[p] = "ready"
    <2>1. pc'[p] \in {"plan", "done"} /\ target'[p] = p /\ boot'[p] = "ready"
      BY <1>1, <1>2 DEF Goto, CloudInit, TypeOK, cloudVars
    <2>2. GoodStep(p)
      BY <1>1, <2>1, Apart DEF GoodStep, Ended
    <2> QED BY <1>2, <2>2, OnlyLooks DEF Goto, CloudInit
  <1>3. CASE Goto(p, "cloudInit", "CloudInitFailed")
    BY <1>3, Errs DEF Goto, CloudInit, Ended
  <1> QED BY <1>2, <1>3 DEF CloudInit

LEMMA PlanOutcomes ==
  ASSUME NEW i, NEW next
  PROVE  /\ PlanFor(i, next) \in
              {next, "UnmanagedInstance", "KeyOrphaned", "NoPublicDns"}
         /\ PlanFor(i, next) = next => next \in Ended \/ i \notin Theirs
  BY DEF PlanFor, Managed, Ended

LEMMA PlanSteps ==
  ASSUME SessionInv, NEW p \in Procs, Plan(p)
  PROVE  SessionInv'
  <1>1. p \in Launchers /\ pc[p] = "plan" /\ target[p] = p /\ TypeOK
    BY DEF Plan, Goto, SessionInv, Roles, Procs, Ended, LandsOnOwn, TypeOK
  <1>2. CASE Goto(p, "plan", PlanFor(p, "ssh"))
    <2>1. CASE PlanFor(p, "ssh") = "ssh"
      <3>1. pc'[p] = "ssh" /\ target'[p] = p /\ boot' = boot
        BY <1>1, <1>2, <2>1 DEF Goto, Plan, TypeOK, cloudVars
      <3>2. GoodStep(p)
        BY <1>1, <3>1, Apart DEF GoodStep, Ended, SessionInv, Answered
      <3> QED BY <1>2, <2>1, <3>2, OnlyLooks DEF Goto, Plan
    <2>2. CASE PlanFor(p, "ssh") \in {"UnmanagedInstance", "KeyOrphaned", "NoPublicDns"}
      BY <1>2, <2>2, Errs DEF Goto, Plan, Ended
    <2> QED BY <2>1, <2>2, PlanOutcomes
  <1>3. CASE Goto(p, "plan", "failed")
    BY <1>3, Errs DEF Goto, Plan, Ended
  <1> QED BY <1>2, <1>3 DEF Plan

(* A lookup that has found i, and goes on with it or ends. *)
LEMMA Finds ==
  ASSUME SessionInv, NEW p \in Connectors \cup Terminators, NEW i \in Instances,
         NEW to, pc' = [pc EXCEPT ![p] = to], target' = [target EXCEPT ![p] = i],
         ~ById(p) => i \notin Theirs /\ NameOf[i] = handle[p],
         p \in Connectors => to \in {"probe"} \cup (Ended \ {"ssh"}),
         p \in Connectors /\ to = "probe" => i \notin Theirs,
         p \in Terminators => to = "terminate",
         UNCHANGED <<given, cloudVars>>
  PROVE  SessionInv'
  <1>1. p \in Procs /\ i # NoInstance /\ TypeOK
    BY Apart, SessionsAssumption DEF SessionInv
  <1>2. CloudMoves /\ state' = state
    BY DEF CloudMoves, cloudVars, SessionInv, TypeOK
  <1>3. pc'[p] = to /\ target'[p] = i
    BY <1>1 DEF TypeOK
  <1>4. GoodStep(p)
    BY <1>1, <1>3, Apart DEF GoodStep, Ended
  <1> QED BY <1>1, <1>2, <1>4, OneMoves

LEMMA FindSteps ==
  ASSUME SessionInv, NEW p \in Procs, FindById(p) \/ FindByName(p)
  PROVE  SessionInv'
  <1>1. p \in Connectors \cup Terminators
    BY DEF FindById, FindByName, Goto, SessionInv, Roles, Procs, Ended
  <1>2. CASE \E e \in {"ConfigInvalid", "failed", "InstanceNotFound", "AmbiguousHandle"} :
               Goto(p, "find", e) /\ UNCHANGED <<given, target, cloudVars>>
    BY <1>2, Errs DEF Goto, Ended
  <1>3. CASE FindById(p)
    <2>1. CASE /\ handle[p] \in Known /\ Goto(p, "find", PlanFor(handle[p], "probe"))
               /\ target' = [target EXCEPT ![p] = handle[p]]
      <3>1. /\ handle[p] \in Instances /\ p \in Connectors /\ ById(p)
            /\ UNCHANGED <<given, cloudVars>>
        BY <1>3, <2>1 DEF FindById, Known
      <3>2. /\ PlanFor(handle[p], "probe") \in {"probe"} \cup (Ended \ {"ssh"})
            /\ PlanFor(handle[p], "probe") = "probe" => handle[p] \notin Theirs
        BY PlanOutcomes DEF Ended
      <3> QED BY <2>1, <3>1, <3>2, Finds, Apart DEF Goto
    <2> QED BY <1>2, <1>3, <2>1 DEF FindById
  <1>4. CASE FindByName(p)
    <2>1. ASSUME NEW i \in Named(handle[p]), target' = [target EXCEPT ![p] = i],
                 Goto(p, "find", IF p \in Connectors THEN PlanFor(i, "probe") ELSE "terminate")
          PROVE  SessionInv'
      <3>1. /\ i \in Instances /\ i \notin Theirs /\ NameOf[i] = handle[p]
            /\ UNCHANGED <<given, cloudVars>>
        BY <1>4, <2>1 DEF FindByName, Named, Known
      <3>2. PlanFor(i, "probe") \in {"probe"} \cup (Ended \ {"ssh"})
        BY PlanOutcomes DEF Ended
      <3> QED BY <1>1, <2>1, <3>1, <3>2, Finds, Apart DEF Goto
    <2> QED BY <1>2, <1>4, <2>1 DEF FindByName
  <1> QED BY <1>3, <1>4

LEMMA ConfirmSteps ==
  ASSUME SessionInv, NEW p \in Procs, Confirm(p)
  PROVE  SessionInv'
  <1>1. p \in Terminators /\ pc[p] = "confirm" /\ TypeOK
    BY DEF Confirm, Goto, SessionInv, Roles, Procs, Ended
  <1>2. CASE \E e \in {"UserAborted", "ConfigInvalid", "failed"} :
               Goto(p, "confirm", e) /\ UNCHANGED target
    BY <1>2, Errs DEF Goto, Confirm, Ended
  <1>3. CASE Goto(p, "confirm", "find") /\ UNCHANGED target
    <2>1. pc'[p] = "find" /\ target'[p] = target[p]
      BY <1>1, <1>3 DEF Goto, TypeOK
    <2>2. GoodStep(p)
      BY <1>1, <2>1, Apart DEF GoodStep, SessionInv, TypeOK, EmptyHanded
    <2> QED BY <1>3, <2>2, OnlyLooks DEF Goto, Confirm
  <1>4. CASE /\ Goto(p, "confirm", "terminate") /\ handle[p] \in Instances
             /\ target' = [target EXCEPT ![p] = handle[p]]
    BY <1>1, <1>4, Finds, Apart DEF Goto, Confirm, ById
  <1> QED BY <1>2, <1>3, <1>4 DEF Confirm

LEMMA TerminateSteps ==
  ASSUME SessionInv, NEW p \in Procs, Terminate(p)
  PROVE  SessionInv'
  <1>1. p \in Terminators /\ pc[p] = "terminate" /\ TypeOK
    BY DEF Terminate, Goto, SessionInv, Roles, Procs, Ended
  <1>2. CASE Goto(p, "terminate", "failed") /\ UNCHANGED <<given, target, cloudVars>>
    BY <1>2, Errs DEF Goto, Ended
  <1>3. CASE /\ Goto(p, "terminate", "done") /\ target[p] \in Known
             /\ Down({target[p]}) /\ UNCHANGED <<given, target, boot>>
    <2>1. CloudMoves /\ \A i \in Instances : state[i] = "none" => state'[i] = "none"
      BY <1>1, <1>3, DownMoves
    <2>2. pc'[p] = "done" /\ target'[p] = target[p] /\ target' = [target EXCEPT ![p] = target[p]]
      BY <1>1, <1>3 DEF Goto, TypeOK
    <2>3. GoodStep(p)
      BY <1>1, <2>2, Apart DEF GoodStep, SessionInv, TypeOK, NamesLeadToManaged, Ended
    <2> QED BY <1>3, <2>1, <2>2, <2>3, Apart, OneMoves DEF Goto
  <1> QED BY <1>2, <1>3 DEF Terminate

(* SessionInv is inductive. *)
LEMMA SessionStep == SessionInv /\ [Next]_vars => SessionInv'
  <1> SUFFICES ASSUME SessionInv, [Next]_vars PROVE SessionInv'
    OBVIOUS
  <1>1. CASE \E p \in Procs : Advance(p) \/ Confirm(p) \/ CloudInit(p) \/ Fails(p)
    <2>1. PICK p \in Procs : Advance(p) \/ Confirm(p) \/ CloudInit(p) \/ Fails(p)
      BY <1>1
    <2>2. CASE Fails(p)
      BY <2>2, Errs DEF Fails, Goto, Ended
    <2> QED BY <2>1, <2>2, RunSteps, WaitSteps, ProbeSteps, PlanSteps, FindSteps,
               TerminateSteps, ConfirmSteps, CloudInitSteps DEF Advance
  <1>2. CASE \E i \in Launchers \cup Others : Cloud(i) /\ UNCHANGED <<pc, given, target>>
    <2>1. /\ CloudMoves /\ \A j \in Launchers : state[j] = "none" => state'[j] = "none"
          /\ UNCHANGED <<pc, given, target>>
      BY <1>2, CloudStep DEF SessionInv, Instances
    <2>2. \A q \in Procs : EffectiveWait(q)' = EffectiveWait(q) /\ ById(q)' = ById(q)
      BY <2>1 DEF given, EffectiveWait, ById
    <2>3. TypeOK'
      BY <2>1 DEF SessionInv, TypeOK, CloudMoves, given
    <2>4. Roles' /\ NotYet' /\ LandsOnOwn' /\ ManagedInHand' /\ EmptyHanded'
      BY <2>1 DEF SessionInv, Roles, NotYet, LandsOnOwn, ManagedInHand, EmptyHanded
    <2>5. NamesLeadToManaged'
      BY <2>1, <2>2, Apart DEF SessionInv, NamesLeadToManaged, given
    <2>6. Answered'
      <3>1. \A q \in Launchers :
              /\ pc[q] \in {"cloudInit", "plan", "ssh"} => boot'[q] # "off"
              /\ pc[q] \in {"plan", "done", "ssh"} /\ EffectiveWait(q) => boot'[q] = "ready"
        BY <2>1, Apart DEF SessionInv, Answered, CloudMoves
      <3>2. \A q \in Connectors : pc[q] = "ssh" => boot'[target[q]] # "off"
        BY <2>1, Apart DEF SessionInv, Answered, CloudMoves, TypeOK
      <3> QED BY <2>1, <2>2, <3>1, <3>2, Apart DEF Answered
    <2> QED BY <2>3, <2>4, <2>5, <2>6 DEF SessionInv
  <1>3. CASE UNCHANGED vars
    BY <1>3
       DEF vars, given, cloudVars, SessionInv, TypeOK, Roles, NotYet, LandsOnOwn, ById,
           NamesLeadToManaged, ManagedInHand, Answered, EffectiveWait, EmptyHanded
  <1> QED BY <1>1, <1>2, <1>3 DEF Next

LEMMA SessionInvariance == Spec => []SessionInv
  BY InitSession, SessionStep, PTL DEF Spec

(* The variables keep their types, and no step that uses a target is       *)
(* reached without one.                                                    *)
THEOREM TypeCorrectness == Spec => []TypeOK
  <1>1. SessionInv => TypeOK
    BY DEF SessionInv
  <1> QED BY <1>1, SessionInvariance, PTL

(* No launch acts on an instance but its own, however many have its name.  *)
THEOREM LaunchesKeepToTheirOwn == Spec => []LandsOnOwn
  <1>1. SessionInv => LandsOnOwn
    BY DEF SessionInv
  <1> QED BY <1>1, SessionInvariance, PTL

(* A name never leads to an instance that is not kleya's.                  *)
THEOREM NamesAreSafe == Spec => []NamesLeadToManaged
  <1>1. SessionInv => NamesLeadToManaged
    BY DEF SessionInv
  <1> QED BY <1>1, SessionInvariance, PTL

(* A launch that is to wait for cloud-init succeeds only after it, also    *)
(* where --no-wait-bootstrap stands beside --wait-bootstrap.               *)
THEOREM SuccessMeansBootstrapped == Spec => []BootstrapIsDone
  <1>1. SessionInv => BootstrapIsDone
    BY DEF SessionInv, Answered, EffectiveWait, BootstrapIsDone
  <1> QED BY <1>1, SessionInvariance, PTL

(* ssh takes over only on an instance of kleya's that has answered.        *)
THEOREM SshOnlyWhereAnswered == Spec => []SshHasAnswered
  <1>1. SessionInv => SshHasAnswered
    <2> SUFFICES ASSUME SessionInv, NEW p \in Procs, pc[p] = "ssh"
                 PROVE  target[p] \notin Theirs /\ boot[target[p]] # "off"
      BY DEF SshHasAnswered
    <2>1. p \in Launchers \cup Connectors /\ target[p] # NoInstance
      BY DEF SessionInv, Roles, TypeOK, Procs, Ended
    <2>2. CASE p \in Launchers
      BY <2>1, <2>2, Apart DEF SessionInv, LandsOnOwn, Answered
    <2>3. CASE p \in Connectors
      BY <2>3 DEF SessionInv, ManagedInHand, Answered
    <2> QED BY <2>1, <2>2, <2>3
  <1> QED BY <1>1, SessionInvariance, PTL

(* A terminate ends the instance that it resolved and no other one.        *)
THEOREM EndsOnlyItsTarget == Spec => TerminatesWhatItFound
  <1> DEFINE Ends1 == \A p \in Terminators : pc[p] = "terminate" /\ pc'[p] = "done"
                        => \A i \in Instances \ {target[p]} : state'[i] = state[i]
  <1>1. SessionInv /\ [Next]_vars => [Ends1]_vars
    <2> SUFFICES ASSUME SessionInv, [Next]_vars,
                        NEW p \in Terminators, pc[p] = "terminate", pc'[p] = "done",
                        NEW i \in Instances \ {target[p]}
                 PROVE  state'[i] = state[i]
      OBVIOUS
    <2>1. TypeOK /\ p \in Procs
      BY Apart DEF SessionInv
    <2>2. PICK q \in Procs : Advance(q) \/ Confirm(q) \/ CloudInit(q) \/ Fails(q)
      BY DEF Next, vars
    <2>3. ASSUME NEW from, NEW to, Goto(q, from, to)
          PROVE  q = p /\ from = "terminate" /\ to = "done"
      BY <2>1, <2>3 DEF Goto, TypeOK
    <2>4. ~RunInstances(q) /\ ~Wait(q) /\ ~Plan(q) /\ ~CloudInit(q) /\ ~Probe(q)
      BY <2>3 DEF RunInstances, Wait, Plan, CloudInit, Probe
    <2>5. ~FindById(q) /\ ~FindByName(q) /\ ~Confirm(q) /\ ~Fails(q)
      BY <2>3 DEF FindById, FindByName, Confirm, Fails
    <2>6. Terminate(q) /\ q = p
      BY <2>2, <2>3, <2>4, <2>5 DEF Advance, Terminate
    <2> QED BY <2>1, <2>6 DEF Terminate, Goto, Down, TypeOK, cloudVars
  <1> QED BY <1>1, SessionInvariance, PTL DEF Spec, TerminatesWhatItFound

--------------------------------------------------------------------------------
(* What the step that a command goes to says of how it stands. *)
Tells(to) == CASE to \in {"done", "ssh"} -> to
               [] to \in Ended \ {"done", "ssh"} -> "error"
               [] OTHER -> "none"

LEMMA ResultMoves ==
  ASSUME TypeOK, NEW p \in Procs, pc[p] \in Steps, NEW to, pc' = [pc EXCEPT ![p] = to]
  PROVE  /\ result[p] = "none" /\ result \in [Procs -> {"none", "done", "ssh", "error"}]
         /\ result' = [result EXCEPT ![p] = Tells(to)]
  <1>1. \A q \in Procs : result[q] = Tells(pc[q]) /\ result'[q] = Tells(pc'[q])
    BY DEF result, Tells
  <1>2. /\ DOMAIN result = Procs /\ DOMAIN result' = Procs
        /\ result = [q \in Procs |-> result[q]] /\ result' = [q \in Procs |-> result'[q]]
    BY DEF result
  <1>3. \A q \in Procs : pc'[q] = IF q = p THEN to ELSE pc[q]
    BY DEF TypeOK
  <1>4. \A q \in Procs : Tells(pc[q]) \in {"none", "done", "ssh", "error"}
    BY DEF Tells
  <1>5. Tells(pc[p]) = "none"
    BY DEF Tells, Steps, Ended
  <1> QED BY <1>1, <1>2, <1>3, <1>4, <1>5

LEMMA Telling ==
  /\ Tells("done") = "done" /\ Tells("ssh") = "ssh"
  /\ \A e \in Ended \ {"done", "ssh"} : Tells(e) = "error"
  /\ \A s \in Steps : Tells(s) = "none"
  BY DEF Tells, Steps, Ended

LEMMA SameProcs == Promise!Procs = Procs /\ Promise!Listed = Known
  BY DEF Promise!Procs, Procs, Promise!Listed, Known

(* A command that has ended takes no step. *)
LEMMA FromStep ==
  ASSUME NEW p \in Procs, Advance(p) \/ Confirm(p) \/ CloudInit(p) \/ Fails(p)
  PROVE  pc[p] \in Steps
  BY DEF Advance, RunInstances, Wait, Probe, Plan, FindById, FindByName, Terminate,
         Confirm, CloudInit, Fails, Goto, Steps

(* An error, and a step that only goes on, are Fail and nothing at all.    *)
LEMMA PromisedLook ==
  ASSUME SessionInv, NEW p \in Procs, pc[p] \in Steps,
         NEW to \in Steps \cup (Ended \ {"done", "ssh"}), pc' = [pc EXCEPT ![p] = to],
         UNCHANGED <<given, target, cloudVars>>
  PROVE  [Promise!Next]_(Promise!vars)
  <1>1. /\ result[p] = "none" /\ result' = [result EXCEPT ![p] = Tells(to)]
        /\ result \in [Procs -> {"none", "done", "ssh", "error"}]
    BY ResultMoves DEF SessionInv
  <1>2. UNCHANGED <<handle, target, state>>
    BY DEF given, cloudVars
  <1>3. CASE to \in Steps
    <2>1. result' = result
      BY <1>1, <1>3, Telling
    <2> QED BY <1>2, <2>1 DEF Promise!vars
  <1>4. CASE to \in Ended \ {"done", "ssh"}
    <2>1. Promise!Fail(p)
      BY <1>1, <1>2, <1>4, Telling DEF Promise!Fail
    <2> QED BY <2>1, SameProcs DEF Promise!Next
  <1> QED BY <1>3, <1>4

(* A lookup that takes i in hand, to go on with it or to refuse it.        *)
LEMMA PromisedFind ==
  ASSUME SessionInv, NEW p \in Connectors \cup Terminators, NEW i \in Instances,
         pc[p] \in {"find", "confirm"},
         i = handle[p] \/ Named(handle[p]) = {i},
         NEW to \in Steps \cup (Ended \ {"done", "ssh"}), pc' = [pc EXCEPT ![p] = to],
         target' = [target EXCEPT ![p] = i], UNCHANGED <<given, cloudVars>>
  PROVE  [Promise!Next]_(Promise!vars)
  <1>1. p \in Procs /\ p \notin Launchers /\ pc[p] \in Steps
    BY Apart DEF Steps
  <1>2. /\ result[p] = "none" /\ result' = [result EXCEPT ![p] = Tells(to)]
        /\ result \in [Procs -> {"none", "done", "ssh", "error"}]
    BY <1>1, ResultMoves DEF SessionInv
  <1>3. result' \in {result, [result EXCEPT ![p] = "error"]}
    BY <1>1, <1>2, Telling
  <1>4. target[p] = NoInstance
    BY <1>1 DEF SessionInv, EmptyHanded
  <1>5. i = handle[p] \/ Promise!OnlyOneNamed(i, handle[p])
    BY SameProcs DEF Promise!OnlyOneNamed, Named
  <1>6. Promise!Resolve(p, i)
    BY <1>1, <1>2, <1>3, <1>4, <1>5 DEF Promise!Resolve, given, cloudVars
  <1> QED BY <1>1, <1>6, SameProcs DEF Promise!Next

(* A launch or a connect that ends well, on the instance in its hand.      *)
LEMMA PromisedSuccess ==
  ASSUME SessionInv, NEW p \in Launchers \cup Connectors, pc[p] \in Steps,
         target[p] # NoInstance, p \in Connectors => target[p] \notin Theirs,
         NEW to \in {"done", "ssh"}, p \in Connectors => to = "ssh",
         pc' = [pc EXCEPT ![p] = to], UNCHANGED <<given, target, cloudVars>>
  PROVE  [Promise!Next]_(Promise!vars)
  <1>1. p \in Procs
    BY Apart
  <1>2. result[p] = "none" /\ result' = [result EXCEPT ![p] = to]
    <2>1. TypeOK /\ Tells(to) = to
      BY Telling DEF SessionInv
    <2>2. result[p] = "none" /\ result' = [result EXCEPT ![p] = Tells(to)]
      BY <1>1, <2>1, ResultMoves
    <2> QED BY <2>1, <2>2
  <1>3. Promise!Succeed(p)
    BY <1>2 DEF Promise!Succeed, given, cloudVars
  <1> QED BY <1>1, <1>3, SameProcs DEF Promise!Next

LEMMA PromisedLaunch ==
  ASSUME SessionInv, NEW p \in Procs, RunInstances(p)
  PROVE  [Promise!Next]_(Promise!vars)
  <1>1. p \in Launchers /\ pc[p] = "run" /\ target[p] = NoInstance
    BY DEF RunInstances, Goto, SessionInv, Roles, EmptyHanded, Procs, Ended
  <1>2. result[p] = "none" /\ result' = result
    <2>1. /\ TypeOK /\ Tells("wait") = "none" /\ pc[p] \in Steps
          /\ pc' = [pc EXCEPT ![p] = "wait"]
      BY <1>1, Telling DEF RunInstances, Goto, SessionInv, Steps
    <2>2. /\ result[p] = "none" /\ result' = [result EXCEPT ![p] = Tells("wait")]
          /\ result \in [Procs -> {"none", "done", "ssh", "error"}]
      BY <2>1, ResultMoves
    <2> QED BY <2>1, <2>2
  <1>3. Promise!Launch(p)
    BY <1>1, <1>2 DEF Promise!Launch, RunInstances, given
  <1> QED BY <1>3, SameProcs DEF Promise!Next

(* TerminateInstances of the instance in hand is a success of the promise. *)
LEMMA PromisedTerminate ==
  ASSUME SessionInv, NEW p \in Procs, Terminate(p)
  PROVE  [Promise!Next]_(Promise!vars)
  <1>1. p \in Terminators /\ pc[p] = "terminate" /\ target[p] # NoInstance /\ TypeOK
    BY DEF Terminate, Goto, SessionInv, Roles, TypeOK, Procs, Ended
  <1>2. CASE Goto(p, "terminate", "failed") /\ UNCHANGED <<given, target, cloudVars>>
    BY <1>1, <1>2, PromisedLook DEF Goto, Steps, Ended
  <1>3. CASE /\ Goto(p, "terminate", "done") /\ target[p] \in Known
             /\ Down({target[p]}) /\ UNCHANGED <<given, target, boot>>
    <2>1. result[p] = "none" /\ result' = [result EXCEPT ![p] = "done"]
      <3>1. /\ Tells("done") = "done" /\ pc[p] \in Steps
            /\ pc' = [pc EXCEPT ![p] = "done"]
        BY <1>1, <1>3, Telling DEF Goto, Steps
      <3>2. result[p] = "none" /\ result' = [result EXCEPT ![p] = Tells("done")]
        BY <1>1, <3>1, ResultMoves
      <3> QED BY <3>1, <3>2
    <2>2. state' = [state EXCEPT ![target[p]] = "down"]
      BY <1>1, <1>3 DEF Down, TypeOK
    <2>3. Promise!Succeed(p)
      BY <1>1, <1>3, <2>1, <2>2, SameProcs DEF Promise!Succeed, given
    <2> QED BY <2>3, SameProcs DEF Promise!Next
  <1> QED BY <1>2, <1>3 DEF Terminate

LEMMA PromisedWait ==
  ASSUME SessionInv, NEW p \in Procs, Wait(p) \/ Probe(p) \/ CloudInit(p) \/ Plan(p)
  PROVE  [Promise!Next]_(Promise!vars)
  <1>1. /\ pc[p] \in {"wait", "probe", "cloudInit", "plan"} /\ pc[p] \in Steps
        /\ target[p] # NoInstance /\ UNCHANGED <<given, target, cloudVars>>
        /\ p \in Launchers \cup Connectors
        /\ p \in Connectors => pc[p] = "probe" /\ target[p] \notin Theirs
    BY Apart
       DEF Wait, Probe, CloudInit, Plan, Goto, SessionInv, Roles, TypeOK, ManagedInHand,
           Procs, Steps, Ended
  <1>2. PICK to \in Steps \cup Ended :
          pc' = [pc EXCEPT ![p] = to] /\ (p \in Connectors => to # "done")
    <2>1. CASE Wait(p)
      BY <1>1, <2>1 DEF Wait, Goto, AfterWait, Steps, Ended
    <2>2. CASE Probe(p)
      BY <1>1, <2>2 DEF Probe, Goto, AfterProbe, Steps, Ended
    <2>3. CASE CloudInit(p)
      BY <1>1, <2>3 DEF CloudInit, Goto, Steps, Ended
    <2>4. CASE Plan(p)
      BY <1>1, <2>4, PlanOutcomes DEF Plan, Goto, Steps, Ended
    <2> QED BY <2>1, <2>2, <2>3, <2>4
  <1>3. CASE to \in {"done", "ssh"}
    BY <1>1, <1>2, <1>3, PromisedSuccess
  <1>4. CASE to \notin {"done", "ssh"}
    BY <1>1, <1>2, <1>4, PromisedLook
  <1> QED BY <1>3, <1>4

LEMMA PromisedLookup ==
  ASSUME SessionInv, NEW p \in Procs, FindById(p) \/ FindByName(p) \/ Confirm(p)
  PROVE  [Promise!Next]_(Promise!vars)
  <1>1. /\ pc[p] \in {"find", "confirm"} /\ pc[p] \in Steps
        /\ p \in Connectors \cup Terminators /\ UNCHANGED <<given, cloudVars>>
    BY DEF FindById, FindByName, Confirm, Goto, SessionInv, Roles, Procs, Steps, Ended
  <1>2. CASE UNCHANGED target
    <2>1. PICK to \in Steps \cup (Ended \ {"done", "ssh"}) : pc' = [pc EXCEPT ![p] = to]
      <3>1. PICK to : pc' = [pc EXCEPT ![p] = to]
        BY DEF FindById, FindByName, Confirm, Goto
      <3>2. CASE FindById(p)
        BY <3>2, PlanOutcomes DEF FindById, Goto, Steps, Ended
      <3>3. CASE FindByName(p)
        BY <3>3, PlanOutcomes DEF FindByName, Goto, Steps, Ended
      <3>4. CASE Confirm(p)
        BY <3>4 DEF Confirm, Goto, Steps, Ended
      <3> QED BY <3>2, <3>3, <3>4
    <2> QED BY <1>1, <1>2, <2>1, PromisedLook
  <1>3. ASSUME NEW i \in Instances, i = handle[p] \/ Named(handle[p]) = {i},
               NEW to, Goto(p, pc[p], to), target' = [target EXCEPT ![p] = i],
               to \in Steps \cup (Ended \ {"done", "ssh"})
        PROVE  [Promise!Next]_(Promise!vars)
    BY <1>1, <1>3, PromisedFind DEF Goto
  <1>4. \A i : PlanFor(i, "probe") \in Steps \cup (Ended \ {"done", "ssh"})
    BY PlanOutcomes DEF Steps, Ended
  <1>5. CASE FindById(p)
    BY <1>2, <1>3, <1>4, <1>5 DEF FindById, Goto, Known
  <1>6. CASE FindByName(p)
    <2>1. "terminate" \in Steps
      BY DEF Steps
    <2> QED BY <1>2, <1>3, <1>4, <1>6, <2>1 DEF FindByName, Goto, Named, Known
  <1>7. CASE Confirm(p)
    <2>1. "terminate" \in Steps
      BY DEF Steps
    <2> QED BY <1>2, <1>3, <1>7, <2>1 DEF Confirm, Goto
  <1> QED BY <1>5, <1>6, <1>7

(* EC2 moves an instance of kleya's on, and only RunInstances begins one   *)
(* of a launch.                                                            *)
LEMMA PromisedCloud ==
  ASSUME SessionInv, NEW i \in Launchers \cup Others, Cloud(i), UNCHANGED <<pc, given, target>>
  PROVE  [Promise!Next]_(Promise!vars)
  <1>1. /\ i \in Instances /\ i \notin Theirs /\ TypeOK
        /\ UNCHANGED <<handle, target>> /\ result' = result
    BY SessionsAssumption, Apart DEF Instances, SessionInv, given, result, Procs
  <1>2. CASE state' = state
    BY <1>1, <1>2 DEF Promise!vars
  <1>3. CASE /\ \E s \in {"pending", "running", "down", "gone"} : state' = [state EXCEPT ![i] = s]
             /\ state[i] = "none" => i \notin Launchers
    <2>1. Promise!World(i)
      BY <1>1, <1>3 DEF Promise!World
    <2> QED BY <1>1, <2>1 DEF Promise!Next
  <1>4. CASE Ends(i)
    <2>1. state' = [state EXCEPT ![i] = "down"]
      BY <1>1, <1>4 DEF Ends, Down, TypeOK
    <2> QED BY <1>3, <1>4, <2>1 DEF Ends
  <1>5. CASE Elsewhere(i)
    BY <1>3, <1>5, SessionsAssumption DEF Elsewhere, Procs
  <1> QED BY <1>2, <1>3, <1>4, <1>5 DEF Cloud, Publish, Starts, Boots, Forgotten

LEMMA PromiseInit == Init => Promise!Init
  <1> SUFFICES ASSUME Init PROVE Promise!Init
    OBVIOUS
  <1>1. handle \in [Connectors \cup Terminators -> Instances \cup Names]
    BY SetupTypes DEF Init
  <1>2. result = [p \in Procs |-> "none"]
    <2>1. \A p \in Procs : pc[p] \in {"run", "find", "confirm"}
      BY Apart DEF Init, Procs
    <2> QED BY <2>1 DEF result, Ended
  <1> QED BY <1>1, <1>2, SameProcs DEF Init, Promise!Init

LEMMA PromiseStep == SessionInv /\ [Next]_vars => [Promise!Next]_(Promise!vars)
  <1> SUFFICES ASSUME SessionInv, [Next]_vars PROVE [Promise!Next]_(Promise!vars)
    OBVIOUS
  <1>1. CASE \E p \in Procs : Advance(p) \/ Confirm(p) \/ CloudInit(p) \/ Fails(p)
    <2>1. PICK p \in Procs : Advance(p) \/ Confirm(p) \/ CloudInit(p) \/ Fails(p)
      BY <1>1
    <2>2. CASE Fails(p)
      BY <2>1, <2>2, FromStep, PromisedLook DEF Fails, Goto, Ended
    <2> QED BY <2>1, <2>2, PromisedLaunch, PromisedWait, PromisedLookup, PromisedTerminate
            DEF Advance
  <1>2. CASE \E i \in Launchers \cup Others : Cloud(i) /\ UNCHANGED <<pc, given, target>>
    BY <1>2, PromisedCloud
  <1>3. CASE UNCHANGED vars
    BY <1>3 DEF vars, given, cloudVars, Promise!vars, result
  <1> QED BY <1>1, <1>2, <1>3 DEF Next

(* Launches, connects and terminates keep the promise of CommandTarget:    *)
(* each of their steps, with EC2 moving between any two, is one of its     *)
(* steps or none.                                                          *)
THEOREM SessionsKeepThePromise == Spec => TargetSpec
  BY PromiseInit, PromiseStep, SessionInvariance, PTL DEF Spec, TargetSpec, Promise!Spec

--------------------------------------------------------------------------------
(* How many steps a command has left at the most, a poll loop being one.   *)
StepsLeft(p) ==
  CASE pc[p] \in {"run", "confirm"} -> 5
    [] pc[p] \in {"wait", "find"} -> 4
    [] pc[p] = "probe" -> 3
    [] pc[p] = "cloudInit" -> 2
    [] pc[p] \in {"plan", "terminate"} -> 1
    [] OTHER -> 0

OwnStep(p) == Advance(p) \/ Confirm(p) \/ CloudInit(p) \/ Fails(p)

Shortens == \A p \in Procs :
  /\ StepsLeft(p) \in Nat /\ StepsLeft(p)' <= StepsLeft(p)
  /\ OwnStep(p) => StepsLeft(p)' < StepsLeft(p)

LEMMA OwnStepMoves ==
  ASSUME NEW p \in Procs, OwnStep(p)
  PROVE  \E from, to : Goto(p, from, to)
  BY DEF OwnStep, Advance, RunInstances, Wait, Probe, Plan, FindById, FindByName,
         Terminate, Confirm, CloudInit, Fails

(* A command never goes back to a step that it has taken, whatever becomes *)
(* of its instance: it ends after five at the most, as EveryCommandEnds    *)
(* says under fairness.                                                    *)
THEOREM CommandsOnlyGoForward == Spec => [][Shortens]_vars
  <1>1. SessionInv /\ [Next]_vars => [Shortens]_vars
    <2> SUFFICES ASSUME SessionInv, [Next]_vars, NEW p \in Procs
                 PROVE  /\ StepsLeft(p) \in Nat /\ StepsLeft(p)' <= StepsLeft(p)
                        /\ OwnStep(p) => StepsLeft(p)' < StepsLeft(p)
      BY DEF Shortens
    <2>1. TypeOK
      BY DEF SessionInv
    <2>2. \A i, next : PlanFor(i, next) \in
                         {next, "UnmanagedInstance", "KeyOrphaned", "NoPublicDns"}
      BY PlanOutcomes
    <2> USE DEF Goto, StepsLeft
    <2>3. ASSUME RunInstances(p) \/ Wait(p) \/ Probe(p)
          PROVE  StepsLeft(p)' < StepsLeft(p)
      BY <2>1, <2>3 DEF TypeOK, RunInstances, Wait, AfterWait, Probe, AfterProbe
    <2>4. ASSUME Plan(p) \/ CloudInit(p) \/ Terminate(p)
          PROVE  StepsLeft(p)' < StepsLeft(p)
      BY <2>1, <2>2, <2>4 DEF TypeOK, Plan, CloudInit, Terminate
    <2>5. ASSUME FindById(p) \/ FindByName(p)
          PROVE  StepsLeft(p)' < StepsLeft(p)
      BY <2>1, <2>2, <2>5 DEF TypeOK, FindById, FindByName
    <2>6. ASSUME Confirm(p) \/ Fails(p)
          PROVE  StepsLeft(p)' < StepsLeft(p)
      BY <2>1, <2>6 DEF TypeOK, Confirm, Fails, Steps
    <2>7. OwnStep(p) => StepsLeft(p)' < StepsLeft(p)
      BY <2>3, <2>4, <2>5, <2>6 DEF OwnStep, Advance
    <2>8. CASE pc'[p] = pc[p]
      BY <2>7, <2>8
    <2>9. CASE pc'[p] # pc[p]
      <3>1. OwnStep(p)
        BY <2>1, <2>9, OwnStepMoves DEF TypeOK, Next, OwnStep, vars
      <3> QED BY <2>7, <3>1
    <2> QED BY <2>8, <2>9
  <1> QED BY <1>1, SessionInvariance, PTL DEF Spec
================================================================================
