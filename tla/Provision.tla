------------------------------- MODULE Provision -------------------------------
(***************************************************************************)
(* One operator's commands, one after the other, from the config file to   *)
(* what reaches EC2: `template create`, `update` and `delete`, `launch` up *)
(* to RunInstances, and the commands that only print.  The operator edits  *)
(* config files and scripts at any moment, between two steps of a command  *)
(* as well.  Other kleya processes and teammates are the subject of        *)
(* LaunchTemplate and KeyLifecycle: here a lookup and the call it leads to *)
(* are one step, and so are the two calls of an update.                    *)
(***************************************************************************)
EXTENDS Settings

CONSTANTS Commands,      \* the command lines
          ConfigPaths,   \* the paths a config file may be at
          SearchOrder,   \* those that kleya looks at, in that order
          Files,         \* what a config file may hold
          Disks,         \* the config files that may be there at first
          Edits,         \* the edits of them that may be made
          ScriptPaths,   \* the paths that --user-data and user_data_path name
          Scripts,       \* what a script may be
          Assets,        \* the rendered bootstrap script of a build
          Listings,      \* what DescribeSubnets may answer
          GeneratedName, \* a name that AdjAnimalIdGen makes
          DefaultGroup,  \* the id of the group kleya-default
          MaxCommands,   \* how many commands the operator runs
          MaxEdits       \* how many edits the operator makes

VARIABLES disk,       \* the content of each config file
          scripts,    \* the script at each path
          asset,      \* the script that the build embeds
          pc, cmd,    \* the step and the command line of the running command
          path, file, \* the config file it uses and what it has read of it
          bytes,      \* the user data in its hand
          subnets,    \* the subnets it was told
          subnet,     \* and the one it has picked
          made,       \* history: what it has made or changed in EC2
          outcome,    \* how it ended, or the one before
          templates,  \* the default version of each template there is
          keys,       \* the key pairs in EC2
          launched,   \* the last instance
          started, edits

files == <<disk, scripts, asset>>
hand == <<path, file, bytes, subnets, subnet>>
ec2 == <<templates, keys, launched>>
vars == <<files, pc, cmd, hand, made, outcome, ec2, started, edits>>

(* The flags that a command has beside --config and --provider; to launch, *)
(* --template is "name" and --name is "instance_name".                     *)
Flags == LET spec == {"name", "ami", "instance_type", "key_name", "user_data"}
         IN [print |-> {}, create |-> spec, update |-> spec, delete |-> {"name"},
             launch |-> {"name", "instance_name", "instance_type", "market", "dry_run"}]

AllFlags == UNION {Flags[op] : op \in DOMAIN Flags}

FirstStep == [print |-> "print", create |-> "spec", update |-> "spec",
              delete |-> "confirm", launch |-> "plan"]

(* What the model's inputs are: command lines, files of lists, scripts of  *)
(* some length.                                                            *)
ASSUME ProvisionAssumption ==
  /\ None \notin Commands /\ None \notin ConfigPaths /\ NoFile \notin Files
  /\ SearchOrder \in Seq(ConfigPaths)
  /\ Disks \subseteq [ConfigPaths -> Files \cup {NoFile}]
  /\ Edits \subseteq [path : ConfigPaths, file : Files \cup {NoFile}]
  /\ \A c \in Commands :
       /\ c.op \in DOMAIN Flags
       /\ c.dry_run \in {FALSE, c.op = "launch"}
       /\ \A x \in AllFlags \ (Flags[c.op] \cup {"dry_run"}) : c[x] = None
       /\ c.config \in ConfigPaths \cup {None}
       /\ c.user_data \in ScriptPaths \cup {None}
  /\ \A f \in Files \ {Malformed} :
       /\ f.user_data_path \in ScriptPaths \cup {None}
       /\ f.templates # None =>
            IsList(f.templates) /\ \A i \in DOMAIN f.templates : IsList(f.templates[i].tags)
  /\ \A s \in Scripts \ {NoFile} : s.bytes \in Nat
  /\ \A a \in Assets : a.bytes \in Nat /\ a.gz \in Nat \ {0}
  /\ \A l \in Listings : IsListing(l)
  /\ DefaultGroup \in SecurityGroupIds

LaunchSteps == {"plan", "keypair", "template", "subnet", "group", "userData",
                "ensure", "run"}

Steps == {"load", "print", "spec", "create", "update", "confirm", "delete"} \cup LaunchSteps

Name == cmd.name ?? "default"

Init == /\ disk \in Disks
        /\ scripts \in [ScriptPaths -> Scripts]
        /\ asset \in Assets
        /\ pc = "idle" /\ cmd = None /\ path = None /\ file = NoFile
        /\ bytes = 0 /\ subnets = <<>> /\ subnet = None
        /\ made = {} /\ outcome = "done"
        /\ templates = <<>>
        /\ keys = {}
        /\ launched = None /\ started = 0 /\ edits = 0

(* The command goes on, with the same in hand or not, or ends. *)
Goto(to) == pc' = to /\ UNCHANGED <<cmd, outcome, started, edits, files>>

Move(to) == Goto(to) /\ UNCHANGED hand

End(e) == /\ pc' = "idle" /\ outcome' = e
          /\ path' = None /\ file' = NoFile /\ bytes' = 0
          /\ subnets' = <<>> /\ subnet' = None
          /\ UNCHANGED <<cmd, started, edits, files>>

--------------------------------------------------------------------------------
(* resolved_path: --config as it is, or the first file that exists. *)
ResolvedPath(explicit) ==
  LET found == {i \in DOMAIN SearchOrder : disk[SearchOrder[i]] # NoFile}
  IN explicit ?? IF found = {} THEN None
                 ELSE SearchOrder[CHOOSE i \in found : \A j \in found : i <= j]

Start(c) ==
  /\ pc = "idle" /\ started < MaxCommands
  /\ pc' = "load" /\ cmd' = c /\ started' = started + 1
  /\ path' = ResolvedPath(c.config)
  /\ made' = {}
  /\ UNCHANGED <<files, file, bytes, subnets, subnet, outcome, ec2, edits>>

(* load, and resolve_provider of --provider.  The file may have gone since *)
(* its path was resolved.                                                  *)
Load ==
  /\ pc = "load"
  /\ LET found == IF path = None THEN NoFile ELSE disk[path]
         right == Loads(found) /\ IsProvider(cmd.provider ?? "aws")
     IN \/ path # None /\ found = NoFile /\ End("Io")
        \/ /\ path = None \/ found # NoFile
           /\ \/ ~right /\ End("ConfigInvalid")
              \/ /\ right /\ Goto(FirstStep[cmd.op])
                 /\ file' = found /\ UNCHANGED <<path, bytes, subnets, subnet>>
  /\ UNCHANGED <<made, ec2>>

config == Config(file)

Show == pc = "print" /\ End("done") /\ UNCHANGED <<made, ec2>>

(* The user data of the script at p, or of the embedded one: read and      *)
(* encoded, or an error that ends the command.                             *)
GetUserData(p, next) ==
  LET error == IF p # None THEN ReadScript(scripts[p]) ELSE Rendered(asset)
  IN \/ /\ error = "done" /\ Goto(next)
        /\ bytes' = IF p # None THEN scripts[p].bytes ELSE asset.gz
        /\ UNCHANGED <<path, file, subnets, subnet>>
     \/ error # "done" /\ End(error)

(* Mutant: --key-name and --ami are taken as they are. *)
BuildSpec_Unparsed ==
  /\ pc = "spec"
  /\ \/ ~IsTemplateName(cmd.name) /\ End("ConfigInvalid")
     \/ IsTemplateName(cmd.name) /\ GetUserData(cmd.user_data, cmd.op)
  /\ UNCHANGED <<made, ec2>>

BuildSpec ==
  /\ pc = "spec"
  /\ \/ ~ArgsParse(cmd) /\ End("ConfigInvalid")
     \/ ArgsParse(cmd) /\ GetUserData(cmd.user_data, cmd.op)
  /\ UNCHANGED <<made, ec2>>

(* A template remembers the command and the file that wrote its version:   *)
(* history, which no step looks at.                                        *)
Put(spec) ==
  /\ templates' = [n \in DOMAIN templates \cup {spec.name} |->
                     IF n # spec.name THEN templates[n]
                     ELSE [data |-> RequestData(spec), by |-> cmd, from |-> file]]
  /\ made' = made \cup {"template"}
  /\ UNCHANGED <<keys, launched>>

Create ==
  /\ pc = "create"
  /\ \/ /\ cmd.name \notin DOMAIN templates
        /\ Put(CommandSpec(config, cmd, bytes))
        /\ End("done")
     \/ /\ cmd.name \in DOMAIN templates
        /\ End("Adapter") /\ UNCHANGED <<made, ec2>>

(* The new version replaces everything: what neither a flag nor the config *)
(* gives is not taken over from the version before.                        *)
Update ==
  /\ pc = "update"
  /\ \/ /\ cmd.name \in DOMAIN templates
        /\ Put(CommandSpec(config, cmd, bytes))
        /\ End("done")
     \/ /\ cmd.name \notin DOMAIN templates
        /\ End("TemplateNotFound") /\ UNCHANGED <<made, ec2>>

(* The operator says no, or the name is no template name. *)
Confirm ==
  /\ pc = "confirm"
  /\ \/ End("UserAborted")
     \/ ~IsTemplateName(cmd.name) /\ End("ConfigInvalid")
     \/ IsTemplateName(cmd.name) /\ Move("delete")
  /\ UNCHANGED <<made, ec2>>

Delete ==
  /\ pc = "delete"
  /\ \/ /\ cmd.name \in DOMAIN templates
        /\ templates' = [n \in DOMAIN templates \ {cmd.name} |-> templates[n]]
        /\ made' = made \cup {"template"} /\ UNCHANGED <<keys, launched>>
        /\ End("done")
     \/ /\ cmd.name \notin DOMAIN templates
        /\ End("TemplateNotFound") /\ UNCHANGED <<made, ec2>>

--------------------------------------------------------------------------------
LaunchParses == IsTemplateName(Name) /\ IsInstanceName(cmd.instance_name ?? GeneratedName)

(* Mutant: a dry run is one as far as the instance is concerned. *)
Plan_DryLater ==
  /\ pc = "plan"
  /\ \/ ~LaunchParses /\ End("ConfigInvalid")
     \/ /\ LaunchParses /\ config.ami_alias \notin AmiAliases
        /\ End("UnknownAmiAlias")
     \/ /\ LaunchParses /\ config.ami_alias \in AmiAliases
        /\ Move("keypair")
  /\ UNCHANGED <<made, ec2>>

(* build_plan, and the end of a dry run.  The alias must be known even     *)
(* where the template exists and the image is not used.                    *)
Plan ==
  /\ pc = "plan"
  /\ \/ ~LaunchParses /\ End("ConfigInvalid")
     \/ /\ LaunchParses /\ config.ami_alias \notin AmiAliases
        /\ End("UnknownAmiAlias")
     \/ /\ LaunchParses /\ config.ami_alias \in AmiAliases
        /\ IF cmd.dry_run THEN End("done") ELSE Move("keypair")
  /\ UNCHANGED <<made, ec2>>

(* ensure_keypair, which KeyLifecycle takes apart: the default key, and no *)
(* other, is in EC2 afterwards.                                            *)
EnsureKeypair ==
  /\ pc = "keypair" /\ Move("template")
  /\ keys' = keys \cup {config.default_key_name}
  /\ made' = made \cup (IF config.default_key_name \in keys THEN {} ELSE {"key"})
  /\ UNCHANGED <<templates, launched>>

(* Mutant: the template is taken to be there. *)
LookForTemplate_Assumed == pc = "template" /\ Move("run") /\ UNCHANGED <<made, ec2>>

LookForTemplate ==
  /\ pc = "template"
  /\ Move(IF Name \notin DOMAIN templates THEN "subnet" ELSE "run")
  /\ UNCHANGED <<made, ec2>>

(* NoSubnetInDefaultVpc is also a listing of subnets without a zone.       *)
ResolveSubnet ==
  /\ pc = "subnet"
  /\ \/ End("NoDefaultVpc")
     \/ \E l \in Listings : PickSubnet(l) = None /\ End("NoSubnetInDefaultVpc")
     \/ \E l \in Listings :
          /\ PickSubnet(l) # None /\ Goto("group")
          /\ subnets' = l /\ subnet' = PickSubnet(l)
          /\ UNCHANGED <<path, file, bytes>>
  /\ UNCHANGED <<made, ec2>>

EnsureGroup ==
  /\ pc = "group" /\ Goto("userData")
  /\ made' = made \cup {"group"}
  /\ subnets' = <<>>
  /\ UNCHANGED <<path, file, bytes, subnet, ec2>>

RenderUserData ==
  /\ pc = "userData"
  /\ GetUserData(config.user_data_path, "ensure")
  /\ UNCHANGED <<made, ec2>>

(* Mutant: --instance-type goes into the template that is made on the way. *)
EnsureTemplate_Sticks ==
  /\ pc = "ensure"
  /\ Put([LaunchSpec(config, Name, DefaultGroup, subnet.id, bytes)
            EXCEPT !.instance_type = cmd.instance_type ?? @])
  /\ Goto("run")
  /\ bytes' = 0 /\ subnet' = None /\ UNCHANGED <<path, file, subnets>>

EnsureTemplate ==
  /\ pc = "ensure"
  /\ Put(LaunchSpec(config, Name, DefaultGroup, subnet.id, bytes))
  /\ Goto("run")
  /\ bytes' = 0 /\ subnet' = None /\ UNCHANGED <<path, file, subnets>>

(* instance_launch.  --market on-demand asks for nothing, --market spot    *)
(* for one-time.  EC2 refuses a version without an image or with a key it  *)
(* does not have.                                                          *)
RunInstances ==
  /\ pc = "run"
  /\ LET data == templates[Name].data
     IN \/ /\ data.image_id # None /\ data.key_name \in keys
           /\ launched' = [instance_name |-> cmd.instance_name ?? GeneratedName,
                           instance_type |-> cmd.instance_type ?? data.instance_type,
                           market |-> IF cmd.market = "spot" THEN "one-time" ELSE data.market,
                           image_id |-> data.image_id, key_name |-> data.key_name,
                           key_tag |-> config.default_key_name,
                           by |-> cmd, of |-> templates[Name]]
           /\ made' = made \cup {"instance"}
           /\ End("done") /\ UNCHANGED <<templates, keys>>
        \/ /\ data.image_id = None \/ data.key_name \notin keys
           /\ End("Adapter") /\ UNCHANGED <<made, ec2>>

Launch == \/ Plan \/ EnsureKeypair \/ LookForTemplate \/ ResolveSubnet
          \/ EnsureGroup \/ RenderUserData \/ EnsureTemplate \/ RunInstances

(* A call fails, ensure_keypair refuses the key, or the process is killed: *)
(* nothing is undone.                                                      *)
Fails == pc # "idle" /\ End("Adapter") /\ UNCHANGED <<made, ec2>>

Edit == /\ edits < MaxEdits /\ edits' = edits + 1
        /\ \/ \E e \in Edits : disk' = [disk EXCEPT ![e.path] = e.file] /\ UNCHANGED scripts
           \/ /\ \E p \in ScriptPaths, s \in Scripts : scripts' = [scripts EXCEPT ![p] = s]
              /\ UNCHANGED disk
        /\ UNCHANGED <<asset, pc, cmd, hand, made, outcome, ec2, started>>

Next == \/ \E c \in Commands : Start(c)
        \/ Load \/ Show \/ BuildSpec \/ Create \/ Update \/ Confirm \/ Delete
        \/ Launch \/ Fails \/ Edit

Spec == Init /\ [][Next]_vars

--------------------------------------------------------------------------------
Versions == {templates[n] : n \in DOMAIN templates}

TypeOK ==
  /\ disk \in [ConfigPaths -> Files \cup {NoFile}]
  /\ scripts \in [ScriptPaths -> Scripts] /\ asset \in Assets
  /\ pc \in Steps \cup {"idle"} /\ cmd \in Commands \cup {None}
  /\ pc # "idle" => cmd # None
  /\ path \in ConfigPaths \cup {None} /\ file \in Files \cup {NoFile}
  /\ pc \notin {"idle", "load"} => Loads(file)
  /\ bytes \in Nat /\ outcome \in Errors \cup {"done"}
  /\ made \subseteq {"key", "group", "template", "instance"}
  /\ DOMAIN templates \subseteq TemplateNames
  /\ \A v \in Versions : v.by \in Commands /\ v.from \in Files \cup {NoFile}
  /\ pc \in {"create", "update", "delete"} => cmd.name \in TemplateNames
  /\ pc \in LaunchSteps \ {"plan"} => Name \in TemplateNames
  /\ pc = "run" => Name \in DOMAIN templates

(* No value reaches EC2 that its newtype would refuse, wherever it came    *)
(* from: a flag, a template block, the file or an answer of SSM.           *)
OnlyValidated ==
  /\ keys \subseteq KeyNames
  /\ \A v \in Versions :
       /\ v.data.key_name \in KeyNames /\ v.data.image_id \in AmiIds \cup {None}
       /\ \A i \in DOMAIN v.data.security_group_ids :
            v.data.security_group_ids[i] \in SecurityGroupIds
       /\ \A i \in DOMAIN v.data.tags : v.data.tags[i] \in Tags
       /\ v.data.market \in {None, "one-time", "persistent"}
  /\ launched # None => /\ launched.instance_name \in InstanceNames
                        /\ launched.key_tag \in KeyNames

(* What a template holds is user data that EC2 takes: not empty, at most   *)
(* 16384 bytes, and at most 21848 in base64, whatever has become of the    *)
(* script since its size was looked at.                                    *)
UserDataFits == \A v \in Versions :
  /\ v.data.user_data \in 1 .. USER_DATA_RAW_BYTES_MAX
  /\ B64Len(v.data.user_data) <= USER_DATA_BASE64_BYTES_MAX

(* A field by precedence: the flag, the block, the file, the built-in one; *)
(* for a version that a launch wrote only the last two.                    *)
Resolved(v, n, flag, x) ==
  LET below == (IF v.from = NoFile THEN None ELSE v.from[x]) ?? BuiltIn[x]
  IN IF v.by.op = "launch" THEN below
     ELSE v.by[flag] ?? (Template(Config(v.from), n)[flag] ?? below)

(* An instance is what the command lines and the files of the past add up  *)
(* to: a flag of the launch, else what the last command that wrote the     *)
(* template had in its own flags and in its own file, read as a whole.  No *)
(* flag of a launch stays in a template, no edit reaches one by itself.    *)
(* Two cases are excepted, which ResolvesAsDocumented is about: --market   *)
(* on-demand, of which nothing is said here, and the block of a template   *)
(* that a launch has made.                                                 *)
InstanceAsConfigured == launched # None =>
  LET v == launched.of
      n == launched.by.name ?? "default"
  IN /\ n = v.by.name ?? "default"
     /\ launched.instance_type =
          launched.by.instance_type ?? Resolved(v, n, "instance_type", "instance_type")
     /\ launched.key_name = Resolved(v, n, "key_name", "default_key_name")
     /\ launched.by.market # "on-demand" =>
          launched.market = IF launched.by.market = "spot" THEN "one-time"
                            ELSE IF Config(v.from).market = "on-demand" THEN None
                            ELSE Config(v.from).spot_type
     /\ launched.image_id = IF v.by.op = "launch" THEN Published[Config(v.from).ami_alias]
                            ELSE v.by.ami ?? Template(Config(v.from), n).ami_id

(* A command that reports exit code 2, bad input, has neither written a    *)
(* template nor launched anything (a key or the group it may have made);   *)
(* a dry run makes nothing at all, however it ends.                        *)
BadInputMakesNothing ==
  /\ pc = "idle" /\ Code[outcome] = 2 => made \cap {"template", "instance"} = {}
  /\ cmd # None /\ cmd.op = "launch" /\ cmd.dry_run => made = {}

(* The subnet does not depend on the order of EC2's answer but for subnets *)
(* of the same zone: it is in the first zone, and the first listed there.  *)
FirstZone == pc = "group" => \E i \in DOMAIN subnets :
  /\ subnet = subnets[i] /\ subnet.az # None
  /\ \A j \in DOMAIN subnets :
       subnets[j].az # None => \/ subnet.az < subnets[j].az
                              \/ (subnet.az = subnets[j].az /\ i <= j)

(* 06-launch-and-connect.md: instance_type is --instance-type, else the    *)
(* [[templates]] block's, else defaults.instance_type.  A launch that      *)
(* makes the template itself passes the block by.                          *)
BlockIsUsed == launched # None /\ launched.of.by.op = "launch" =>
  LET c == Config(launched.of.from)
  IN launched.instance_type = launched.by.instance_type ??
       (Template(c, launched.by.name ?? "default").instance_type ?? c.instance_type)

(* 02-cli-surface.md: --market spot|on-demand overrides the template's     *)
(* market for this run.  instance_launch sends market options for spot and *)
(* nothing for on-demand, so that the instance of a spot template is spot. *)
MarketIsOverridden == launched # None =>
  /\ launched.by.market = "on-demand" => launched.market = None
  /\ launched.by.market = "spot" => launched.market # None

(* A launch is what the tables of these two documents promise, whatever    *)
(* finds or makes its template.                                            *)
ResolvesAsDocumented == BlockIsUsed /\ MarketIsOverridden
================================================================================
