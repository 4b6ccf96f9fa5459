------------------------------- MODULE Sessions -------------------------------
(***************************************************************************)
(* What follows RunInstances: `launch` waits for its instance, probes its  *)
(* port 22, waits for cloud-init and connects, as its flags say; `connect` *)
(* and `terminate` resolve a handle to an instance.  Instances come up,    *)
(* boot and go away at any moment meanwhile.                               *)
(*                                                                         *)
(* The instance that launch p creates is written p.  The two poll loops    *)
(* are reduced to their outcomes, which WaitRunning and SshProbe refine: a *)
(* deadline or a Ctrl-C may end them after any unsuccessful look.  An      *)
(* instance that was stopped is not started again.  --instance-id is a     *)
(* handle that is an id; --print, which ends after the plan, is left out.  *)
(***************************************************************************)
CONSTANTS Launchers, Connectors, Terminators,
          Others,     \* instances that kleya launches from elsewhere meanwhile
          Theirs,     \* instances without kleya's tags
          Names,      \* the values of Name tags
          IdLike,     \* the names that begin with "i-"
          NameOf,     \* the Name tag of each instance
          Setups,     \* the flags of launches and the ids and names that
                      \* the other commands are given, together
          NoPem,      \* instances whose private key is on another machine
          NoInstance

Procs == Launchers \cup Connectors \cup Terminators

Instances == Launchers \cup Others \cup Theirs

ASSUME SessionsAssumption ==
  /\ Launchers \cap (Connectors \cup Terminators) = {}
  /\ Connectors \cap Terminators = {}
  /\ Theirs \cap Procs = {} /\ Others \cap (Procs \cup Theirs) = {}
  /\ NoInstance \notin Instances
  /\ Names \cap Instances = {} /\ IdLike \subseteq Names
  /\ NameOf \in [Instances -> Names]
  /\ Setups \subseteq
       [flags : [Launchers -> SUBSET {"connect", "waitBootstrap", "noWaitBootstrap"}],
        handle : [Connectors \cup Terminators -> Instances \cup Names]]
  /\ NoPem \subseteq Others

VARIABLES pc,       \* the step each command is at
          flags,    \* the flags of each launch
          handle,   \* the handle of each connect and terminate
          target,   \* the instance a command has in hand
          state,    \* the state of each instance
          address,  \* the instances that have a public DNS name
          boot      \* how far the guest of each instance has come

cloudVars == <<state, address, boot>>

given == <<flags, handle>>

vars == <<pc, given, target, cloudVars>>

Steps == {"run", "wait", "probe", "cloudInit", "plan", "find", "confirm", "terminate"}

(* done is exit code 0, ssh that kleya was replaced by ssh; failed stands  *)
(* for Adapter and Io and for a killed process; the others are errors.     *)
Ended == {"done", "ssh", "failed", "ConfigInvalid", "Cancelled",
          "LaunchWaitTimeout", "SshNotReady", "CloudInitFailed", "NoPublicDns",
          "KeyOrphaned", "UnmanagedInstance", "InstanceNotFound",
          "AmbiguousHandle", "UserAborted"}

(* An instance is created before DescribeInstances knows of it.  Stopping, *)
(* stopped, shutting down and terminated are all "down": listed, without a *)
(* public address.  EC2 forgets a terminated instance later.               *)
States == {"none", "created", "pending", "running", "down", "gone"}

TypeOK == /\ pc \in [Procs -> Steps \cup Ended]
          /\ [flags |-> flags, handle |-> handle] \in Setups
          /\ target \in [Procs -> Instances \cup {NoInstance}]
          /\ state \in [Instances -> States]
          /\ address \subseteq {i \in Instances : state[i] = "running"}
          /\ boot \in [Instances -> {"off", "ssh", "ready", "broken"}]
          /\ \A p \in Procs : pc[p] \in {"wait", "probe", "cloudInit", "plan", "terminate", "ssh"}
                                => target[p] # NoInstance

Init == /\ pc = [p \in Procs |-> CASE p \in Launchers -> "run"
                                   [] p \in Connectors -> "find"
                                   [] p \in Terminators -> "confirm"]
        /\ \E s \in Setups : flags = s.flags /\ handle = s.handle
        /\ target = [p \in Procs |-> NoInstance]
        /\ state = [i \in Instances |-> IF i \in Theirs THEN "running" ELSE "none"]
        /\ address = Theirs
        /\ boot = [i \in Instances |-> IF i \in Theirs THEN "ready" ELSE "off"]

Goto(p, from, to) == /\ pc[p] = from
                     /\ pc' = [pc EXCEPT ![p] = to]

(* The instances that DescribeInstances returns at all. *)
Known == {i \in Instances : state[i] \in {"pending", "running", "down"}}

(* Mutant: --no-wait-bootstrap wins over --wait-bootstrap. *)
EffectiveWait_NoWins(p) ==
  flags[p] \cap {"waitBootstrap", "connect"} # {} /\ "noWaitBootstrap" \notin flags[p]

EffectiveWait(p) ==
  \/ "waitBootstrap" \in flags[p]
  \/ "connect" \in flags[p] /\ "noWaitBootstrap" \notin flags[p]

Connects(p) == p \in Connectors \/ "connect" \in flags[p]

--------------------------------------------------------------------------------
(* The tags are part of RunInstances.  The id may not be known to the next *)
(* call yet.                                                               *)
RunInstances(p) == /\ Goto(p, "run", "wait")
                   /\ target' = [target EXCEPT ![p] = p]
                   /\ state' = [state EXCEPT ![p] = "created"]
                   /\ UNCHANGED <<given, address, boot>>

(* What the flags ask for once the instance is running. *)
AfterWait(p) == IF ~Connects(p) /\ ~EffectiveWait(p) THEN "done"
                ELSE IF p \in address THEN "probe" ELSE "NoPublicDns"

(* instance_wait_running: a describe that fails ends the wait at once.     *)
Wait(p) ==
  /\ \/ p \notin Known /\ Goto(p, "wait", "failed")
     \/ /\ p \in Known /\ state[p] # "running"
        /\ \E e \in {"Cancelled", "LaunchWaitTimeout"} : Goto(p, "wait", e)
     \/ /\ p \in Known /\ state[p] = "running"
        /\ Goto(p, "wait", AfterWait(p))
  /\ UNCHANGED <<given, target, cloudVars>>

PortOpen(i) == state[i] = "running" /\ boot[i] # "off"

AfterProbe(p) == IF p \in Connectors THEN "ssh"
                 ELSE IF EffectiveWait(p) THEN "cloudInit" ELSE "plan"

(* Mutant: the loop has no deadline. *)
Probe_Endless(p) ==
  /\ Goto(p, "probe", AfterProbe(p))
  /\ PortOpen(target[p])
  /\ UNCHANGED <<given, target, cloudVars>>

(* Mutant: the deadline is taken for an answer. *)
Probe_Hopes(p) ==
  /\ \/ Goto(p, "probe", AfterProbe(p))
     \/ Goto(p, "probe", "Cancelled") /\ ~PortOpen(target[p])
  /\ UNCHANGED <<given, target, cloudVars>>

(* probe_ssh_ready, of a launch and of a connect. *)
Probe(p) ==
  /\ \/ /\ Goto(p, "probe", AfterProbe(p))
        /\ PortOpen(target[p])
     \/ /\ \E e \in {"Cancelled", "SshNotReady"} : Goto(p, "probe", e)
        /\ ~PortOpen(target[p])
  /\ UNCHANGED <<given, target, cloudVars>>

(* wait_cloud_init is one ssh child without a deadline: it fails when the  *)
(* host or cloud-init does, or when a Ctrl-C, which a terminal sends to    *)
(* the child as well, ends it.                                             *)
CloudInit(p) ==
  /\ \/ /\ Goto(p, "cloudInit", IF Connects(p) THEN "plan" ELSE "done")
        /\ state[p] = "running" /\ boot[p] = "ready"
     \/ Goto(p, "cloudInit", "CloudInitFailed")
  /\ UNCHANGED <<given, target, cloudVars>>

--------------------------------------------------------------------------------
(* Mutant: the tag kleya:managed is not asked for. *)
Named_Unmanaged(n) == {i \in Known : NameOf[i] = n}

(* instance_list by name: states is empty, so whatever EC2 still knows. *)
Named(n) == {i \in Known \ Theirs : NameOf[i] = n}

ById(p) == handle[p] \in Instances \cup IdLike

(* By the tags that resolve_key finds. *)
Managed(i) == i \notin Theirs

(* What resolve_key, private_path and public_dns make of an instance. *)
PlanFor(i, next) == IF ~Managed(i) THEN "UnmanagedInstance"
                    ELSE IF i \in NoPem THEN "KeyOrphaned"
                    ELSE IF i \in address THEN next ELSE "NoPublicDns"

(* Mutant: the plan of a launch looks the instance up by its name. *)
Plan_ByName(p) ==
  /\ pc[p] = "plan"
  /\ \E i \in Named(NameOf[p]) : /\ Goto(p, "plan", PlanFor(i, "ssh"))
                                 /\ target' = [target EXCEPT ![p] = i]
  /\ UNCHANGED <<given, cloudVars>>

(* The last part of `launch --connect`: the plan of a connect with the id  *)
(* of the new instance, and exec.                                          *)
Plan(p) ==
  /\ \/ p \in Known /\ Goto(p, "plan", PlanFor(p, "ssh"))
     \/ p \notin Known /\ Goto(p, "plan", "failed")
  /\ UNCHANGED <<given, target, cloudVars>>

(* A handle that begins with "i-" is an id, whatever it names. *)
FindById(p) ==
  /\ p \in Connectors /\ ById(p)
  /\ \/ /\ handle[p] \in Known
        /\ Goto(p, "find", PlanFor(handle[p], "probe"))
        /\ target' = [target EXCEPT ![p] = handle[p]]
     \/ /\ handle[p] \notin Known
        /\ \E e \in {"ConfigInvalid", "failed"} : Goto(p, "find", e)
        /\ UNCHANGED target
  /\ UNCHANGED <<given, cloudVars>>

(* Mutant: of several instances of the name one is taken. *)
FindByName_First(p) ==
  /\ pc[p] = "find" /\ ~ById(p)
  /\ LET found == Named(handle[p])
     IN \/ \E i \in found :
             /\ Goto(p, "find", IF p \in Connectors THEN PlanFor(i, "probe")
                                                    ELSE "terminate")
             /\ target' = [target EXCEPT ![p] = i]
        \/ found = {} /\ Goto(p, "find", "InstanceNotFound") /\ UNCHANGED target
  /\ UNCHANGED <<given, cloudVars>>

(* Exactly one managed instance has the name, or the command ends. *)
FindByName(p) ==
  /\ pc[p] = "find" /\ ~ById(p)
  /\ LET found == Named(handle[p])
     IN \/ \E i \in found :
             /\ found = {i}
             /\ Goto(p, "find", IF p \in Connectors THEN PlanFor(i, "probe")
                                                    ELSE "terminate")
             /\ target' = [target EXCEPT ![p] = i]
        \/ /\ found = {} \/ \E i, j \in found : i # j
           /\ Goto(p, "find", IF found = {} THEN "InstanceNotFound"
                                            ELSE "AmbiguousHandle")
           /\ UNCHANGED target
  /\ UNCHANGED <<given, cloudVars>>

(* Mutant: what begins with "i-" is taken for an id as it is. *)
Confirm_Unparsed(p) ==
  /\ \/ Goto(p, "confirm", "UserAborted") /\ UNCHANGED target
     \/ Goto(p, "confirm", "find") /\ ~ById(p) /\ UNCHANGED target
     \/ /\ Goto(p, "confirm", "terminate")
        /\ ById(p)
        /\ target' = [target EXCEPT ![p] = handle[p]]
  /\ UNCHANGED <<given, cloudVars>>

(* The question of a terminate, which --yes answers at once.  An id is not *)
(* looked up.                                                              *)
Confirm(p) ==
  /\ \/ Goto(p, "confirm", "UserAborted") /\ UNCHANGED target
     \/ Goto(p, "confirm", "find") /\ ~ById(p) /\ UNCHANGED target
     \/ /\ Goto(p, "confirm", "terminate")
        /\ handle[p] \in Instances
        /\ target' = [target EXCEPT ![p] = handle[p]]
     \/ /\ \E e \in {"ConfigInvalid", "failed"} : Goto(p, "confirm", e)
        /\ handle[p] \in IdLike
        /\ UNCHANGED target
  /\ UNCHANGED <<given, cloudVars>>

Down(I) == /\ state' = [i \in Instances |-> IF i \in I THEN "down" ELSE state[i]]
           /\ address' = address \ I

(* TerminateInstances: once more is no error, an unknown id is. *)
Terminate(p) ==
  \/ /\ Goto(p, "terminate", "done")
     /\ target[p] \in Known
     /\ Down({target[p]})
     /\ UNCHANGED <<given, target, boot>>
  \/ /\ Goto(p, "terminate", "failed")
     /\ target[p] \notin Known
     /\ UNCHANGED <<given, target, cloudVars>>

(* A call fails, exec fails, or the process is killed: nothing is undone. *)
Fails(p) == /\ \E s \in Steps : Goto(p, s, "failed")
            /\ UNCHANGED <<given, target, cloudVars>>

(* The steps that kleya itself sees to the end of. *)
Advance(p) == \/ RunInstances(p) \/ Wait(p) \/ Probe(p) \/ Plan(p)
              \/ FindById(p) \/ FindByName(p) \/ Terminate(p)

--------------------------------------------------------------------------------
(* EC2 publishes an instance, starts it and its guest, and ends it by      *)
(* itself (a spot interruption) or for a teammate.  Instances that are not *)
(* kleya's are there all the time, unless kleya terminates them.           *)
Elsewhere(i) == /\ i \in Others /\ state[i] = "none"
                /\ state' = [state EXCEPT ![i] = "pending"]
                /\ UNCHANGED <<address, boot>>

Publish(i) == /\ state[i] = "created"
              /\ state' = [state EXCEPT ![i] = "pending"]
              /\ UNCHANGED <<address, boot>>

Starts(i) == /\ state[i] = "pending"
             /\ state' = [state EXCEPT ![i] = "running"]
             /\ address' \in {address, address \cup {i}}
             /\ UNCHANGED boot

Boots(i) == /\ state[i] = "running"
            /\ \/ boot[i] = "off" /\ boot' = [boot EXCEPT ![i] = "ssh"]
               \/ /\ boot[i] = "ssh"
                  /\ \E b \in {"ready", "broken"} : boot' = [boot EXCEPT ![i] = b]
            /\ UNCHANGED <<state, address>>

Ends(i) == /\ state[i] \in {"pending", "running"}
           /\ Down({i})
           /\ UNCHANGED boot

Forgotten(i) == /\ state[i] = "down"
                /\ state' = [state EXCEPT ![i] = "gone"]
                /\ UNCHANGED <<address, boot>>

Cloud(i) == \/ Elsewhere(i) \/ Publish(i) \/ Starts(i) \/ Boots(i)
            \/ Ends(i) \/ Forgotten(i)

Next == \/ \E p \in Procs : Advance(p) \/ Confirm(p) \/ CloudInit(p) \/ Fails(p)
        \/ \E i \in Launchers \cup Others : Cloud(i) /\ UNCHANGED <<pc, given, target>>

(* Every call returns or fails and every poll loop meets its deadline.     *)
(* Neither the operator nor cloud-init is assumed to answer.               *)
Spec == /\ Init /\ [][Next]_vars
        /\ \A p \in Procs : WF_vars(Advance(p))

--------------------------------------------------------------------------------
(* `launch --connect` lands on the instance that it launched, also when    *)
(* another one has the same name by then.                                  *)
LandsOnOwn == \A p \in Launchers : target[p] \in {NoInstance, p}

(* A name leads to one of kleya's instances that has that name, never to   *)
(* one that somebody else gave the same Name tag.                          *)
NamesLeadToManaged == \A p \in Connectors \cup Terminators :
  target[p] # NoInstance /\ ~ById(p)
    => target[p] \notin Theirs /\ NameOf[target[p]] = handle[p]

(* A launch that is to wait for cloud-init reports success, or hands over  *)
(* to ssh, only after cloud-init has finished without an error: with       *)
(* --wait-bootstrap whatever the other flags are, --no-wait-bootstrap      *)
(* among them, and with --connect alone, which implies it.                 *)
BootstrapIsDone == \A p \in Launchers :
  pc[p] \in {"done", "ssh"} /\ ("waitBootstrap" \in flags[p] \/ flags[p] = {"connect"})
    => boot[p] = "ready"

(* kleya hands over to ssh only for an instance of kleya's whose port 22   *)
(* has answered it, whatever has become of the instance since.             *)
SshHasAnswered == \A p \in Procs :
  pc[p] = "ssh" => target[p] \notin Theirs /\ boot[target[p]] # "off"

(* A terminate ends the instance that it resolved and no other: not one    *)
(* that was launched under the same name after it had looked.              *)
TerminatesWhatItFound ==
  [][\A p \in Terminators : pc[p] = "terminate" /\ pc'[p] = "done"
       => \A i \in Instances \ {target[p]} : state'[i] = state[i]]_vars

(* Every command ends, whatever becomes of its instance, but for the two   *)
(* waits without a deadline: for the operator's answer and for cloud-init. *)
EveryCommandEnds == \A p \in Procs :
  <>(pc[p] \in Ended) \/ <>[](pc[p] \in {"confirm", "cloudInit"})

(* How a command stands, without the step that it is at. *)
result == [p \in Procs |-> CASE pc[p] \in {"done", "ssh"} -> pc[p]
                             [] pc[p] \in Ended \ {"done", "ssh"} -> "error"
                             [] OTHER -> "none"]

Promise == INSTANCE CommandTarget

(* Every step of a launch, a connect or a terminate is one that            *)
(* CommandTarget allows, or nothing to it: a handle leads to one instance, *)
(* the command stays with it, and an error leaves all others alone.        *)
TargetSpec == Promise!Spec
================================================================================
