---------------------------- MODULE LaunchTemplate ----------------------------
(***************************************************************************)
(* One EC2 launch template under the commands that use it, each run by a   *)
(* kleya process: `launch` (ensure_template, after the keypair is settled, *)
(* and RunInstances), `template create`, `template update` and `template   *)
(* delete`.  Every EC2 call that changes something, or whose answer        *)
(* decides what follows, is a step.  The security group is the one of      *)
(* SecurityGroup.  A call whose answer is lost is the call and a crash.    *)
(*                                                                         *)
(* A process writes at most one template or version, so the template that  *)
(* process p creates and the version that p writes are both written p.     *)
(***************************************************************************)
EXTENDS SecurityGroup

CONSTANTS Launchers, Creators, Updaters, Deleters,
          NoTemplate,  \* no template under the name
          WithImage,   \* the creators and updaters whose spec has an ami_id
          OtherKey     \* those whose spec names another key than the default

Cli == Creators \cup Updaters

ASSUME CommandsAssumption ==
  /\ Procs = Launchers \cup Creators \cup Updaters \cup Deleters
  /\ Launchers \cap (Cli \cup Deleters) = {}
  /\ Creators \cap (Updaters \cup Deleters) = {} /\ Updaters \cap Deleters = {}
  /\ WithImage \subseteq Cli /\ OtherKey \subseteq Cli
  /\ NoTemplate \notin Procs

VARIABLES template,  \* the id of the template that has the name
          versions,  \* the versions of that template
          default,   \* its default version
          tid,       \* the template id a process looked up
          ran        \* the version an instance was launched from

templateVars == <<template, versions, default, tid, ran>>

vars == <<pc, groupVars, templateVars>>

LaunchSteps == GroupSteps \cup {"getTemplate", "ensured", "createTemplate", "run"}

UpdateSteps == {"getForUpdate", "createVersion", "setDefault"}

DeleteSteps == {"getForDelete", "deleteTemplate"}

(* GroupLost, AlreadyExists, NoImage and Stale are what EC2 answers to a    *)
(* call that the code returns as an Adapter error; failed is a call that   *)
(* was not done, an unreadable file, or a killed process.                  *)
Ended == {"done", "TemplateNotFound", "GroupLost", "AlreadyExists", "NoImage",
          "Stale", "failed"}

TypeOK ==
  /\ pc \in [Procs -> LaunchSteps \cup UpdateSteps \cup DeleteSteps \cup Ended]
  /\ GroupTypeOK
  /\ template \in Procs \cup {NoTemplate}
  /\ versions \subseteq Procs
  /\ default \in Procs \cup {NoTemplate}
  /\ IF template = NoTemplate THEN versions = {} ELSE {template, default} \subseteq versions
  /\ tid \in [Procs -> Procs \cup {NoTemplate}]
  /\ ran \in [Procs -> Procs \cup {NoTemplate}]

First(p) == CASE p \in Launchers -> "getTemplate"
              [] p \in Creators -> "createTemplate"
              [] p \in Updaters -> "getForUpdate"
              [] p \in Deleters -> "getForDelete"

Init == /\ GroupInit
        /\ pc = [p \in Procs |-> First(p)]
        /\ template = NoTemplate /\ versions = {} /\ default = NoTemplate
        /\ tid = [p \in Procs |-> NoTemplate]
        /\ ran = [p \in Procs |-> NoTemplate]

--------------------------------------------------------------------------------
(* The two looks of a launch at the template: ensure_template's before the *)
(* group is ensured, and ensure_default_template's right before it creates *)
(* one.  Neither of them keeps the id: RunInstances names the template.    *)
GetTemplate(p) ==
  /\ \/ template # NoTemplate /\ Goto(p, "getTemplate", "run")
     \/ template = NoTemplate /\ Goto(p, "getTemplate", "describeGroup")
  /\ UNCHANGED <<groupVars, templateVars>>

GetAgain(p) ==
  /\ \/ template # NoTemplate /\ Goto(p, "ensured", "run")
     \/ template = NoTemplate /\ Goto(p, "ensured", "createTemplate")
  /\ UNCHANGED <<groupVars, templateVars>>

(* Mutant: CreateLaunchTemplate replaces a template of that name. *)
CreateTemplate_Replaces(p) ==
  /\ Goto(p, "createTemplate", IF p \in Launchers THEN "run" ELSE "done")
  /\ template' = p /\ versions' = {p} /\ default' = p
  /\ UNCHANGED <<groupVars, tid, ran>>

(* CreateLaunchTemplate, of a launch or of `template create`. *)
CreateTemplate(p) ==
  \/ /\ template = NoTemplate
     /\ Goto(p, "createTemplate", IF p \in Launchers THEN "run" ELSE "done")
     /\ template' = p /\ versions' = {p} /\ default' = p
     /\ UNCHANGED <<groupVars, tid, ran>>
  \/ /\ template # NoTemplate
     /\ Goto(p, "createTemplate", "AlreadyExists")
     /\ UNCHANGED <<groupVars, templateVars>>

HasImage(v) == v \in Launchers \cup WithImage

(* RunInstances by template name, which means its default version.  EC2    *)
(* refuses a name without a template and a version without an image: the   *)
(* request itself gives none, although the plan holds one.                 *)
RunInstances(p) ==
  \/ /\ template # NoTemplate /\ HasImage(default)
     /\ Goto(p, "run", "done")
     /\ ran' = [ran EXCEPT ![p] = default]
     /\ UNCHANGED <<groupVars, template, versions, default, tid>>
  \/ /\ template = NoTemplate \/ ~HasImage(default)
     /\ Goto(p, "run", IF template = NoTemplate THEN "Stale" ELSE "NoImage")
     /\ UNCHANGED <<groupVars, templateVars>>

LookUp(p, from, to) ==
  /\ Goto(p, from, IF template = NoTemplate THEN "TemplateNotFound" ELSE to)
  /\ tid' = [tid EXCEPT ![p] = template]
  /\ UNCHANGED <<groupVars, template, versions, default, ran>>

GetForUpdate(p) == LookUp(p, "getForUpdate", "createVersion")

GetForDelete(p) == LookUp(p, "getForDelete", "deleteTemplate")

(* Mutant: the version is written to whatever has the name now. *)
CreateVersion_ByName(p) ==
  \/ /\ template # NoTemplate
     /\ Goto(p, "createVersion", "setDefault")
     /\ versions' = versions \cup {p}
     /\ UNCHANGED <<groupVars, template, default, tid, ran>>
  \/ /\ template = NoTemplate
     /\ Goto(p, "createVersion", "Stale")
     /\ UNCHANGED <<groupVars, templateVars>>

(* Mutant: the new version is used from the moment it is written. *)
CreateVersion_Latest(p) ==
  \/ /\ template = tid[p]
     /\ Goto(p, "createVersion", "setDefault")
     /\ versions' = versions \cup {p}
     /\ default' = p
     /\ UNCHANGED <<groupVars, template, tid, ran>>
  \/ /\ template # tid[p]
     /\ Goto(p, "createVersion", "Stale")
     /\ UNCHANGED <<groupVars, templateVars>>

(* template_update, first call: a new version of the template of that id. *)
CreateVersion(p) ==
  \/ /\ template = tid[p]
     /\ Goto(p, "createVersion", "setDefault")
     /\ versions' = versions \cup {p}
     /\ UNCHANGED <<groupVars, template, default, tid, ran>>
  \/ /\ template # tid[p]
     /\ Goto(p, "createVersion", "Stale")
     /\ UNCHANGED <<groupVars, templateVars>>

(* Mutant: the version is made the default of whatever has the name now. *)
SetDefault_ByName(p) ==
  \/ /\ template # NoTemplate
     /\ Goto(p, "setDefault", "done")
     /\ default' = p
     /\ UNCHANGED <<groupVars, template, versions, tid, ran>>
  \/ /\ template = NoTemplate
     /\ Goto(p, "setDefault", "Stale")
     /\ UNCHANGED <<groupVars, templateVars>>

(* Second call: that version is made the default. *)
SetDefault(p) ==
  \/ /\ template = tid[p]
     /\ Goto(p, "setDefault", "done")
     /\ default' = p
     /\ UNCHANGED <<groupVars, template, versions, tid, ran>>
  \/ /\ template # tid[p]
     /\ Goto(p, "setDefault", "Stale")
     /\ UNCHANGED <<groupVars, templateVars>>

(* Mutant: the template is deleted by its name. *)
DeleteTemplate_ByName(p) ==
  /\ Goto(p, "deleteTemplate", "done")
  /\ template' = NoTemplate /\ versions' = {} /\ default' = NoTemplate
  /\ UNCHANGED <<groupVars, tid, ran>>

DeleteTemplate(p) ==
  \/ /\ template = tid[p]
     /\ Goto(p, "deleteTemplate", "done")
     /\ template' = NoTemplate /\ versions' = {} /\ default' = NoTemplate
     /\ UNCHANGED <<groupVars, tid, ran>>
  \/ /\ template # tid[p]
     /\ Goto(p, "deleteTemplate", "Stale")
     /\ UNCHANGED <<groupVars, templateVars>>

(* A call fails, or the process is killed: nothing is undone. *)
Fails(p) ==
  /\ \E s \in LaunchSteps \cup UpdateSteps \cup DeleteSteps :
       Goto(p, s, "failed")
  /\ UNCHANGED <<groupVars, templateVars>>

Launch(p) == \/ GetTemplate(p)
             \/ EnsureGroup(p) /\ UNCHANGED templateVars
             \/ GetAgain(p)
             \/ RunInstances(p)

Next == \/ \E p \in Procs : \/ Launch(p) \/ CreateTemplate(p)
                            \/ GetForUpdate(p) \/ CreateVersion(p)
                            \/ SetDefault(p)
                            \/ GetForDelete(p) \/ DeleteTemplate(p)
                            \/ Fails(p)
        \/ Teammate /\ UNCHANGED templateVars

Spec == Init /\ [][Next]_vars

--------------------------------------------------------------------------------
(* A command that looked a template up by its name never touches another   *)
(* one that took the name meanwhile: every version of the template is its  *)
(* creator's, or an update's that had looked up this very template.        *)
VersionsBelong == \A v \in versions : v = template \/ tid[v] = template

(* Nor does a delete ever remove a template that was created after it had  *)
(* looked: it is refused by its id.                                        *)
DeletesWhatItSaw ==
  [][template # NoTemplate /\ template' = NoTemplate
       => \E p \in Deleters : tid[p] = template
                              /\ pc[p] = "deleteTemplate" /\ pc'[p] = "done"]_vars

(* An instance is never launched from the version of an update that did    *)
(* not finish: between its two calls, or after a crash there, launches go  *)
(* on with the version that was the default before.                        *)
NoHalfUpdateRuns == \A p \in Launchers :
  ran[p] \in Updaters => pc[ran[p]] = "done"

(* While nobody but kleya touches the security group, an instance launched *)
(* from a template that a launch created (this one or an earlier one, one  *)
(* that crashed since) is in the group that has the name, and it is open.  *)
LaunchedIsReachable == ~meddled => \A p \in Launchers :
  ran[p] \in Launchers => sg[ran[p]] = group /\ sshOpen

(* 04-provider-port.md: every ensure_default_* must succeed under          *)
(* concurrent invocations.  ensure_default_template looks and then creates *)
(* and takes InvalidLaunchTemplateName.AlreadyExistsException for an error.*)
EnsureTemplateSucceeds == \A p \in Launchers : pc[p] # "AlreadyExists"

(* 01-domain-model.md: the kleya:key tag is the key that opens the         *)
(* instance.  instance_launch writes default_key_name, EC2 installs the    *)
(* key of the template's version.                                          *)
KeyTagOpens == \A p \in Launchers : ran[p] \notin OtherKey

Store == INSTANCE TemplateStore WITH current <- default

(* The commands implement the store: in particular the two calls of an     *)
(* update are one step to every launch.                                    *)
StoreSpec == Store!Spec
================================================================================
