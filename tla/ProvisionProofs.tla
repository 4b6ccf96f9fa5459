----------------------------- MODULE ProvisionProofs -----------------------------
(***************************************************************************)
(* Theorems about Provision, for every set of command lines, config files, *)
(* scripts and assets and every number of commands and edits.              *)
(***************************************************************************)
EXTENDS Provision, SettingsProofs

--------------------------------------------------------------------------------
(* The lists that a config file may hold. *)
LEMMA ListIsSeq ==
  ASSUME NEW s, IsList(s)
  PROVE  /\ Len(s) \in Nat /\ DOMAIN s = 1 .. Len(s)
         /\ s \in Seq({s[i] : i \in DOMAIN s})
  BY DEF IsList

LEMMA ConfigFields ==
  ASSUME NEW f \in Files \cup {NoFile}, Loads(f)
  PROVE  /\ IsList(Config(f).templates)
         /\ \A i \in DOMAIN Config(f).templates : IsList(Config(f).templates[i].tags)
         /\ Config(f).user_data_path \in ScriptPaths \cup {None}
  <1>1. CASE f = NoFile
    BY <1>1 DEF Config, BuiltIn, IsList
  <1>2. CASE f # NoFile
    <2>1. f \in Files \ {Malformed}
      BY <1>2 DEF Loads
    <2>2. /\ Config(f).templates = IF f.templates # None THEN f.templates ELSE <<>>
          /\ Config(f).user_data_path =
               IF f.user_data_path # None THEN f.user_data_path ELSE None
      BY <1>2 DEF Config, Deserialize, BuiltIn, ??
    <2>3. /\ f.user_data_path \in ScriptPaths \cup {None}
          /\ f.templates # None =>
               IsList(f.templates) /\ \A i \in DOMAIN f.templates : IsList(f.templates[i].tags)
      BY <2>1, ProvisionAssumption
    <2>4. IsList(<<>>) /\ \A i \in DOMAIN <<>> : IsList(<<>>[i].tags)
      BY DEF IsList
    <2> QED BY <2>2, <2>3, <2>4
  <1> QED BY <1>1, <1>2

(* The template that a name leads to is a block of the file, which the     *)
(* newtypes have checked, or the empty one.                                *)
LEMMA TemplateFields ==
  ASSUME NEW f \in Files \cup {NoFile}, Loads(f), NEW n
  PROVE  LET t == Template(Config(f), n)
         IN /\ t.ami_id \in AmiIds \cup {None} /\ t.key_name \in KeyNames \cup {None}
            /\ \A i \in DOMAIN t.security_group_ids :
                 t.security_group_ids[i] \in SecurityGroupIds
            /\ IsList(t.tags) /\ \A i \in DOMAIN t.tags : t.tags[i] \in Tags
  <1> DEFINE c == Config(f)
             found == {i \in DOMAIN c.templates : c.templates[i].name = n}
  <1>1. CASE found = {}
    <2>1. Template(c, n) = NoBlock
      BY <1>1 DEF Template
    <2> QED BY <2>1 DEF NoBlock, IsList
  <1>2. CASE found # {}
    <2>1. IsList(c.templates) /\ \A i \in DOMAIN c.templates : IsList(c.templates[i].tags)
      BY ConfigFields
    <2> HIDE DEF c
    <2>2. found \subseteq Nat
      BY <2>1, ListIsSeq
    <2>3. PICK i \in found : Template(c, n) = c.templates[i]
      <3>1. \E i \in found : \A j \in found : i <= j
        BY <1>2, <2>2, LeastExists
      <3> QED BY <1>2, <3>1 DEF Template
    <2>4. ParsesTemplate(c.templates[i])
      BY DEF c, Loads, Parses
    <2> QED BY <2>1, <2>3, <2>4
            DEF c, ParsesTemplate, IsAmiId, IsKeyName, IsSecurityGroupId, IsTag
  <1> QED BY <1>1, <1>2

(* The file that a command uses. *)
LEMMA Resolves ==
  ASSUME NEW c \in Commands
  PROVE  ResolvedPath(c.config) \in ConfigPaths \cup {None}
  <1> DEFINE found == {i \in DOMAIN SearchOrder : disk[SearchOrder[i]] # NoFile}
  <1>1. c.config \in ConfigPaths \cup {None} /\ SearchOrder \in Seq(ConfigPaths)
    BY ProvisionAssumption
  <1>2. found \subseteq Nat
    BY <1>1
  <1>3. found # {} => \E i \in found : \A j \in found : i <= j
    BY <1>2, LeastExists
  <1> QED BY <1>1, <1>3 DEF ResolvedPath, ??

(* No error but those of bad input has exit code 2. *)
LEMMA OtherCodes ==
  \A e \in {"done", "Adapter", "Io", "UserAborted", "TemplateNotFound", "NoDefaultVpc",
            "NoSubnetInDefaultVpc"} : e \in Errors \cup {"done"} /\ Code[e] # 2
  BY DEF Code, Errors

LEMMA InputErrors ==
  {"ConfigInvalid", "UnknownAmiAlias", "BootstrapRender", "UserDataTooLarge",
   "UserDataNotUtf8"} \subseteq Errors
  BY DEF Code, Errors

LEMMA WithinLimit ==
  ASSUME NEW n \in Nat, n # 0, NEW max \in Nat, ~(n > max)
  PROVE  n \in 1 .. max
  OBVIOUS

(* What is read or rendered as user data fits. *)
LEMMA ReadFits ==
  ASSUME scripts \in [ScriptPaths -> Scripts], asset \in Assets,
         NEW p \in ScriptPaths \cup {None}, NEW next,
         GetUserData(p, next)
  PROVE  \/ /\ Goto(next) /\ bytes' \in 1 .. USER_DATA_RAW_BYTES_MAX
            /\ UNCHANGED <<path, file, subnets, subnet>>
         \/ \E e \in Errors : End(e)
  <1>1. CASE p # None
    <2>1. scripts[p] \in Scripts
      BY <1>1
    <2>2. scripts[p] # NoFile => scripts[p].bytes \in Nat
      BY <2>1, ProvisionAssumption
    <2>3. ReadScript(scripts[p]) \in
            {"Io", "UserDataNotUtf8", "ConfigInvalid", "UserDataTooLarge", "done"}
      BY DEF ReadScript, Passthrough
    <2>4. ReadScript(scripts[p]) = "done" =>
            scripts[p].bytes \in 1 .. USER_DATA_RAW_BYTES_MAX
      <3>1. ReadScript(scripts[p]) = "done" =>
              /\ scripts[p] # NoFile /\ scripts[p].bytes # 0
              /\ ~(scripts[p].bytes > USER_DATA_RAW_BYTES_MAX)
        BY Zenon DEF ReadScript, Passthrough
      <3>2. USER_DATA_RAW_BYTES_MAX \in Nat
        BY DEF USER_DATA_RAW_BYTES_MAX
      <3> QED BY <2>2, <3>1, <3>2, WithinLimit
    <2> QED BY <1>1, <2>3, <2>4, InputErrors, OtherCodes DEF GetUserData
  <1>2. CASE p = None
    <2>1. asset.bytes \in Nat /\ asset.gz \in Nat \ {0}
      BY ProvisionAssumption
    <2>2. Rendered(asset) \in {"BootstrapRender", "ConfigInvalid", "UserDataTooLarge", "done"}
      BY DEF Rendered, Compressed
    <2>3. Rendered(asset) = "done" => asset.gz \in 1 .. USER_DATA_RAW_BYTES_MAX
      <3>1. Rendered(asset) = "done" => ~(asset.gz > USER_DATA_GZIP_BYTES_MAX)
        BY Zenon DEF Rendered, Compressed
      <3>2. USER_DATA_GZIP_BYTES_MAX = USER_DATA_RAW_BYTES_MAX /\ USER_DATA_RAW_BYTES_MAX \in Nat
        BY DEF USER_DATA_RAW_BYTES_MAX, USER_DATA_GZIP_BYTES_MAX
      <3>3. asset.gz \in Nat /\ asset.gz # 0
        BY <2>1
      <3> QED BY <3>1, <3>2, <3>3, WithinLimit
    <2> QED BY <1>2, <2>2, <2>3, InputErrors DEF GetUserData
  <1> QED BY <1>1, <1>2

--------------------------------------------------------------------------------
(* What the steps of the running command have established: the file it has *)
(* read parses, its flags parse before they are used, a launch past its    *)
(* plan is no dry run, and user data in its hand fits.                     *)
Typed ==
  /\ disk \in [ConfigPaths -> Files \cup {NoFile}]
  /\ scripts \in [ScriptPaths -> Scripts] /\ asset \in Assets
  /\ pc \in Steps \cup {"idle"} /\ cmd \in Commands \cup {None}
  /\ path \in ConfigPaths \cup {None} /\ file \in Files \cup {NoFile}
  /\ bytes \in Nat /\ outcome \in Errors \cup {"done"}

Established ==
  /\ pc # "idle" => cmd \in Commands
  /\ pc \notin {"idle", "load"} => Loads(file)
  /\ pc = "spec" => cmd.op \in {"create", "update"}
  /\ pc \in {"create", "update"} => ArgsParse(cmd)
  /\ pc = "delete" => IsTemplateName(cmd.name)
  /\ pc \in {"create", "update", "confirm", "delete"} => cmd.op # "launch"
  /\ pc \in LaunchSteps => cmd.op = "launch"
  /\ pc \in LaunchSteps \ {"plan"} =>
       LaunchParses /\ config.ami_alias \in AmiAliases /\ ~cmd.dry_run
  /\ pc \in {"create", "update", "ensure"} => bytes \in 1 .. USER_DATA_RAW_BYTES_MAX

Running == Typed /\ Established

LEMMA EndKeepsRunning ==
  ASSUME Running, NEW e \in Errors \cup {"done"}, End(e)
  PROVE  Running'
  BY DEF Running, Typed, Established, End, files, LaunchSteps

(* A step to "to" of a command that keeps the file it has read.            *)
LEMMA GotoKeepsTyped ==
  ASSUME Typed, NEW to \in Steps, Goto(to), UNCHANGED path,
         file' \in Files \cup {NoFile}, bytes' \in Nat
  PROVE  Typed'
  BY DEF Typed, Goto, files

LEMMA LoadKeepsRunning ==
  ASSUME Running, Load
  PROVE  Running'
  <1> DEFINE found == IF path = None THEN NoFile ELSE disk[path]
  <1>1. found \in Files \cup {NoFile}
    BY DEF Running, Typed
  <1>2. cmd \in Commands /\ pc = "load"
    BY DEF Running, Established, Load
  <1>3. CASE \E e \in {"Io", "ConfigInvalid"} : End(e)
    BY <1>3, EndKeepsRunning, OtherCodes, InputErrors
  <1>4. CASE Loads(found) /\ Goto(FirstStep[cmd.op]) /\ file' = found
             /\ UNCHANGED <<path, bytes>>
    <2>1. cmd.op \in {"print", "create", "update", "delete", "launch"}
      BY <1>2, ProvisionAssumption DEF Flags
    <2>2. /\ FirstStep[cmd.op] \in {"print", "spec", "confirm", "plan"}
          /\ FirstStep[cmd.op] = "spec" => cmd.op \in {"create", "update"}
          /\ FirstStep[cmd.op] = "confirm" => cmd.op = "delete"
          /\ FirstStep[cmd.op] = "plan" => cmd.op = "launch"
      BY <2>1 DEF FirstStep
    <2>3. FirstStep[cmd.op] \in Steps
      BY <2>2 DEF Steps, LaunchSteps
    <2>4. Typed'
      BY <1>1, <1>4, <2>3, GotoKeepsTyped DEF Running, Typed
    <2>5. cmd' = cmd /\ pc' = FirstStep[cmd.op] /\ file' = found
      BY <1>4 DEF Goto
    <2>6. Established'
      BY <1>2, <1>4, <2>2, <2>5 DEF Established, LaunchSteps
    <2> QED BY <2>4, <2>6 DEF Running
  <1> QED BY <1>3, <1>4 DEF Load

LEMMA TemplateCommandKeepsRunning ==
  ASSUME Running, BuildSpec \/ Create \/ Update \/ Confirm \/ Delete
  PROVE  Running'
  <1>1. CASE \E e \in Errors \cup {"done"} : End(e)
    BY <1>1, EndKeepsRunning
  <1>2. CASE BuildSpec
    <2>1. CASE ArgsParse(cmd) /\ GetUserData(cmd.user_data, cmd.op)
      <3>1. /\ cmd \in Commands /\ cmd.op \in {"create", "update"} /\ Loads(file)
            /\ cmd.user_data \in ScriptPaths \cup {None}
        BY <1>2, ProvisionAssumption DEF BuildSpec, Running, Established
      <3>2. CASE Goto(cmd.op) /\ bytes' \in 1 .. USER_DATA_RAW_BYTES_MAX
                 /\ UNCHANGED <<path, file, subnets, subnet>>
        <4>1. cmd.op \in Steps /\ bytes' \in Nat
          BY <3>1, <3>2 DEF Steps, USER_DATA_RAW_BYTES_MAX
        <4>2. Typed'
          BY <3>2, <4>1, GotoKeepsTyped DEF Running, Typed
        <4>3. pc' = cmd.op /\ cmd' = cmd /\ file' = file
          BY <3>2 DEF Goto
        <4>4. Established'
          BY <2>1, <3>1, <3>2, <4>3 DEF Established, LaunchSteps
        <4> QED BY <4>2, <4>4 DEF Running
      <3> QED BY <1>1, <2>1, <3>1, <3>2, ReadFits DEF Running, Typed
    <2> QED BY <1>1, <1>2, <2>1, InputErrors DEF BuildSpec
  <1>3. CASE Create \/ Update \/ Delete
    BY <1>1, <1>3, OtherCodes DEF Create, Update, Delete
  <1>4. CASE Confirm
    <2>1. CASE IsTemplateName(cmd.name) /\ Move("delete")
      <3>1. /\ pc' = "delete" /\ UNCHANGED <<cmd, file, path, bytes>>
            /\ cmd \in Commands /\ cmd.op # "launch" /\ Loads(file)
        BY <1>4, <2>1 DEF Confirm, Move, Goto, hand, Running, Established
      <3>2. Typed'
        BY <2>1, <3>1, GotoKeepsTyped DEF Move, Running, Typed, Steps
      <3>3. Established'
        BY <2>1, <3>1 DEF Established, LaunchSteps
      <3> QED BY <3>2, <3>3 DEF Running
    <2> QED BY <1>1, <1>4, <2>1, OtherCodes, InputErrors DEF Confirm
  <1> QED BY <1>2, <1>3, <1>4

(* A launch that goes on past its plan, with the same file.                *)
LEMMA LaunchGoesOn ==
  ASSUME Running, pc \in LaunchSteps \ {"plan"}, NEW to \in LaunchSteps \ {"plan"},
         Goto(to), UNCHANGED <<path, file>>, bytes' \in Nat,
         to = "ensure" => bytes' \in 1 .. USER_DATA_RAW_BYTES_MAX
  PROVE  Running'
  <1>1. to \in Steps /\ pc' = to /\ cmd' = cmd
    BY DEF Steps, Goto
  <1>2. Typed'
    BY <1>1, GotoKeepsTyped DEF Running, Typed
  <1>3. LaunchParses' = LaunchParses /\ config' = config
    BY <1>1 DEF LaunchParses, Name, config
  <1>4. /\ cmd \in Commands /\ cmd.op = "launch" /\ Loads(file)
        /\ LaunchParses /\ config.ami_alias \in AmiAliases /\ ~cmd.dry_run
    BY DEF Running, Established, LaunchSteps
  <1>5. Established'
    BY <1>1, <1>3, <1>4 DEF Established, LaunchSteps
  <1> QED BY <1>2, <1>5 DEF Running

LEMMA LaunchKeepsRunning ==
  ASSUME Running, Launch
  PROVE  Running'
  <1>1. CASE \E e \in Errors \cup {"done"} : End(e)
    BY <1>1, EndKeepsRunning
  <1>2. bytes \in Nat /\ 0 \in Nat /\ "Adapter" \in Errors /\ "NoDefaultVpc" \in Errors
        /\ "NoSubnetInDefaultVpc" \in Errors /\ "ConfigInvalid" \in Errors
        /\ "UnknownAmiAlias" \in Errors
    BY DEF Running, Typed, Code, Errors
  <1>3. CASE Plan
    <2>1. CASE LaunchParses /\ config.ami_alias \in AmiAliases /\ ~cmd.dry_run
               /\ Move("keypair")
      <3>1. /\ pc' = "keypair" /\ UNCHANGED <<cmd, file, path, bytes>>
            /\ cmd \in Commands /\ cmd.op = "launch" /\ Loads(file)
        BY <1>3, <2>1 DEF Plan, Move, Goto, hand, Running, Established, LaunchSteps
      <3>2. Typed'
        BY <2>1, <3>1, GotoKeepsTyped DEF Move, Running, Typed, Steps, LaunchSteps
      <3>3. LaunchParses' = LaunchParses /\ config' = config
        BY <3>1 DEF LaunchParses, Name, config
      <3>4. Established'
        BY <2>1, <3>1, <3>3 DEF Established, LaunchSteps
      <3> QED BY <3>2, <3>4 DEF Running
    <2> QED BY <1>1, <1>2, <1>3, <2>1 DEF Plan
  <1>4. CASE EnsureKeypair \/ LookForTemplate
    BY <1>2, <1>4, LaunchGoesOn DEF EnsureKeypair, LookForTemplate, Move, hand, LaunchSteps
  <1>5. CASE ResolveSubnet
    BY <1>1, <1>2, <1>5, LaunchGoesOn DEF ResolveSubnet, LaunchSteps
  <1>6. CASE EnsureGroup
    BY <1>2, <1>6, LaunchGoesOn DEF EnsureGroup, LaunchSteps
  <1>7. CASE RenderUserData
    <2>1. Loads(file) /\ file \in Files \cup {NoFile}
      BY <1>7 DEF RenderUserData, Running, Typed, Established
    <2>2. config.user_data_path \in ScriptPaths \cup {None}
      BY <2>1, ConfigFields DEF config
    <2>3. \/ /\ Goto("ensure") /\ bytes' \in 1 .. USER_DATA_RAW_BYTES_MAX
             /\ UNCHANGED <<path, file, subnets, subnet>>
          \/ \E e \in Errors : End(e)
      BY <1>7, <2>2, ReadFits DEF RenderUserData, Running, Typed
    <2>4. bytes' \in 1 .. USER_DATA_RAW_BYTES_MAX => bytes' \in Nat
      BY DEF USER_DATA_RAW_BYTES_MAX
    <2> QED BY <1>1, <1>7, <2>3, <2>4, LaunchGoesOn DEF RenderUserData, LaunchSteps
  <1>8. CASE EnsureTemplate
    BY <1>2, <1>8, LaunchGoesOn DEF EnsureTemplate, LaunchSteps
  <1>9. CASE RunInstances
    BY <1>1, <1>2, <1>9 DEF RunInstances
  <1> QED BY <1>3, <1>4, <1>5, <1>6, <1>7, <1>8, <1>9 DEF Launch

LEMMA RunningInductive == Running /\ [Next]_vars => Running'
  <1> SUFFICES ASSUME Running, [Next]_vars PROVE Running'
    OBVIOUS
  <1>1. CASE \E c \in Commands : Start(c)
    <2>1. PICK c \in Commands : Start(c)
      BY <1>1
    <2> QED BY <2>1, Resolves
            DEF Running, Typed, Established, Start, files, Steps, LaunchSteps
  <1>2. CASE Load
    BY <1>2, LoadKeepsRunning
  <1>3. CASE Show \/ Fails
    BY <1>3, EndKeepsRunning, OtherCodes DEF Show, Fails
  <1>4. CASE BuildSpec \/ Create \/ Update \/ Confirm \/ Delete
    BY <1>4, TemplateCommandKeepsRunning
  <1>5. CASE Launch
    BY <1>5, LaunchKeepsRunning
  <1>6. CASE Edit
    <2>1. /\ disk' \in [ConfigPaths -> Files \cup {NoFile}]
          /\ scripts' \in [ScriptPaths -> Scripts]
          /\ UNCHANGED <<asset, pc, cmd, path, file, bytes, outcome>>
      BY <1>6, ProvisionAssumption DEF Edit, hand, Running, Typed
    <2>2. LaunchParses' = LaunchParses /\ config' = config
      BY <2>1 DEF LaunchParses, Name, config
    <2> QED BY <2>1, <2>2 DEF Running, Typed, Established
  <1>7. CASE UNCHANGED vars
    <2>1. LaunchParses' = LaunchParses /\ config' = config
      BY <1>7 DEF vars, hand, LaunchParses, Name, config
    <2> QED BY <1>7, <2>1 DEF vars, files, hand, Running, Typed, Established
  <1> QED BY <1>1, <1>2, <1>3, <1>4, <1>5, <1>6, <1>7 DEF Next

LEMMA InitRunning == Init => Running
  BY ProvisionAssumption DEF Init, Running, Typed, Established, LaunchSteps

--------------------------------------------------------------------------------
(* Why bad input makes nothing: until its last step a command has made a   *)
(* key and the group at most, and no last step that makes more ends with   *)
(* exit code 2.  The step "run" of a launch follows the making of the      *)
(* template, but it has nothing left to find wrong with the input.         *)
MadeSoFar ==
  /\ made \subseteq {"key", "group", "template", "instance"}
  /\ pc \notin {"idle", "run"} => made \cap {"template", "instance"} = {}
  /\ BadInputMakesNothing

LEMMA MadeInductive == Running /\ MadeSoFar /\ [Next]_vars => MadeSoFar'
  <1> SUFFICES ASSUME Running, MadeSoFar, [Next]_vars PROVE MadeSoFar'
    OBVIOUS
  <1> USE DEF MadeSoFar, BadInputMakesNothing
  <1>1. ASSUME pc \notin {"idle", "run"}, NEW e, End(e), UNCHANGED made
        PROVE  MadeSoFar'
    BY <1>1 DEF End
  <1>2. ASSUME NEW to, to # "idle", pc # "idle", pc = "run" => to = "run",
               Goto(to), UNCHANGED made
        PROVE  MadeSoFar'
    BY <1>2 DEF Goto
  <1>3. ASSUME NEW e \in {"done", "Adapter", "TemplateNotFound"}, End(e),
               made' \subseteq {"key", "group", "template", "instance"},
               cmd # None /\ cmd.op = "launch" /\ cmd.dry_run => made' = {}
        PROVE  MadeSoFar'
    BY <1>3, OtherCodes DEF End
  <1>4. ASSUME pc \in LaunchSteps \ {"plan"}
        PROVE  cmd.op = "launch" /\ ~cmd.dry_run
    BY <1>4 DEF Running, Established
  <1>5. ASSUME pc \in {"create", "update", "delete"}
        PROVE  cmd.op # "launch"
    BY <1>5 DEF Running, Established
  <1>6. CASE \E c \in Commands : Start(c)
    BY <1>6 DEF Start
  <1>7. CASE Load
    <2>1. FirstStep[cmd.op] # "idle"
      <3>1. cmd.op \in {"print", "create", "update", "delete", "launch"}
        BY <1>7, ProvisionAssumption DEF Load, Running, Established, Flags
      <3> QED BY <3>1 DEF FirstStep
    <2> QED BY <1>1, <1>2, <1>7, <2>1 DEF Load
  <1>8. CASE Show
    BY <1>1, <1>8 DEF Show, ec2
  <1>9. CASE BuildSpec
    <2>1. cmd.op # "idle"
      BY <1>9 DEF BuildSpec, Running, Established
    <2> QED BY <1>1, <1>2, <1>9, <2>1 DEF BuildSpec, GetUserData
  <1>10. CASE Create \/ Update \/ Delete
    BY <1>3, <1>5, <1>10 DEF Create, Update, Delete, Put
  <1>11. CASE Confirm
    BY <1>1, <1>2, <1>11 DEF Confirm, Move
  <1>12. CASE Plan
    BY <1>1, <1>2, <1>12 DEF Plan, Move
  <1>13. CASE EnsureKeypair
    BY <1>4, <1>13 DEF EnsureKeypair, Move, Goto, LaunchSteps
  <1>14. CASE LookForTemplate
    BY <1>2, <1>14 DEF LookForTemplate, Move
  <1>15. CASE ResolveSubnet
    BY <1>1, <1>2, <1>15 DEF ResolveSubnet
  <1>16. CASE EnsureGroup
    BY <1>4, <1>16 DEF EnsureGroup, Goto, LaunchSteps
  <1>17. CASE RenderUserData
    BY <1>1, <1>2, <1>17 DEF RenderUserData, GetUserData
  <1>18. CASE EnsureTemplate
    BY <1>4, <1>18 DEF EnsureTemplate, Put, Goto, LaunchSteps
  <1>19. CASE RunInstances
    BY <1>3, <1>4, <1>19 DEF RunInstances, LaunchSteps
  <1>20. CASE Fails
    BY <1>20, OtherCodes DEF Fails, End
  <1>21. CASE Edit
    BY <1>21 DEF Edit
  <1>22. CASE UNCHANGED vars
    BY <1>22 DEF vars
  <1> QED BY <1>6, <1>7, <1>8, <1>9, <1>10, <1>11, <1>12, <1>13, <1>14, <1>15, <1>16,
             <1>17, <1>18, <1>19, <1>20, <1>21, <1>22 DEF Next, Launch

(* A command that refuses its input has written no template and launched   *)
(* nothing, whatever the config files, the scripts and the edits of them;  *)
(* and a dry run makes nothing, not even where it fails.                   *)
THEOREM BadInputChangesNothing == Spec => []BadInputMakesNothing
  <1>1. Init => MadeSoFar
    BY OtherCodes DEF Init, MadeSoFar, BadInputMakesNothing
  <1>2. MadeSoFar => BadInputMakesNothing
    BY DEF MadeSoFar
  <1> QED BY <1>1, <1>2, InitRunning, RunningInductive, MadeInductive, PTL DEF Spec

--------------------------------------------------------------------------------
(* What holds of every version that a command writes: EC2 takes each of    *)
(* its values, and it is what the command and its file say.                *)
Acceptable(v) ==
  /\ v.by \in Commands /\ v.from \in Files \cup {NoFile}
  /\ v.data.key_name \in KeyNames /\ v.data.image_id \in AmiIds \cup {None}
  /\ \A i \in DOMAIN v.data.security_group_ids :
       v.data.security_group_ids[i] \in SecurityGroupIds
  /\ \A i \in DOMAIN v.data.tags : v.data.tags[i] \in Tags
  /\ v.data.market \in {None, "one-time", "persistent"}
  /\ v.data.user_data \in 1 .. USER_DATA_RAW_BYTES_MAX

AsWritten(v, n) ==
  /\ n = v.by.name ?? "default"
  /\ v.data.instance_type = Resolved(v, n, "instance_type", "instance_type")
  /\ v.data.key_name = Resolved(v, n, "key_name", "default_key_name")
  /\ v.data.market = IF Config(v.from).market = "on-demand" THEN None
                     ELSE Config(v.from).spot_type
  /\ v.data.image_id = IF v.by.op = "launch" THEN Published[Config(v.from).ami_alias]
                       ELSE v.by.ami ?? Template(Config(v.from), n).ami_id

Version(spec) == [data |-> RequestData(spec), by |-> cmd, from |-> file]

LEMMA ConfigValues ==
  ASSUME NEW f
  PROVE  /\ Config(f).instance_type =
              (IF f = NoFile THEN None ELSE f["instance_type"]) ?? BuiltIn["instance_type"]
         /\ Config(f).default_key_name =
              (IF f = NoFile THEN None ELSE f["default_key_name"]) ?? BuiltIn["default_key_name"]
  BY DEF Config, Deserialize, BuiltIn, ??

LEMMA ConfigValid ==
  ASSUME NEW f, Loads(f)
  PROVE  /\ Config(f).default_key_name \in KeyNames
         /\ Config(f).market \in {"spot", "on-demand"}
         /\ Config(f).spot_type \in {"one-time", "persistent"}
  BY DEF Loads, Parses, Validates, IsKeyName

LEMMA TagsValid ==
  ASSUME NEW s, IsList(s), \A i \in DOMAIN s : s[i] \in Tags
  PROVE  \A i \in DOMAIN (<<ProjectTag>> \o s) : (<<ProjectTag>> \o s)[i] \in Tags
  <1>1. s \in Seq(Tags)
    <2> DEFINE values == {s[i] : i \in DOMAIN s}
    <2>1. s \in Seq(values)
      BY ListIsSeq
    <2>2. values \subseteq Tags
      OBVIOUS
    <2> HIDE DEF values
    <2> QED BY <2>1, <2>2
  <1>2. <<ProjectTag>> \in Seq(Tags)
    BY SettingsAssumption
  <1>3. <<ProjectTag>> \o s \in Seq(Tags)
    BY <1>1, <1>2
  <1> QED BY <1>3

LEMMA CommandSpecRight ==
  ASSUME Running, pc \in {"create", "update"}
  PROVE  LET spec == CommandSpec(config, cmd, bytes)
         IN /\ spec.name = cmd.name /\ cmd.name \in TemplateNames
            /\ Acceptable(Version(spec)) /\ AsWritten(Version(spec), cmd.name)
  <1> DEFINE spec == CommandSpec(config, cmd, bytes)
             t == Template(Config(file), cmd.name)
             v == Version(spec)
  <1>1. /\ cmd \in Commands /\ file \in Files \cup {NoFile} /\ Loads(file)
        /\ ArgsParse(cmd) /\ cmd.op # "launch" /\ bytes \in 1 .. USER_DATA_RAW_BYTES_MAX
    BY DEF Running, Typed, Established
  <1>2. /\ cmd.name \in TemplateNames /\ cmd.name # None
        /\ cmd.key_name \in KeyNames \cup {None} /\ cmd.ami \in AmiIds \cup {None}
    BY <1>1, SettingsAssumption DEF ArgsParse, IsTemplateName, IsKeyName, IsAmiId
  <1>3. /\ t.ami_id \in AmiIds \cup {None} /\ t.key_name \in KeyNames \cup {None}
        /\ \A i \in DOMAIN t.security_group_ids :
             t.security_group_ids[i] \in SecurityGroupIds
        /\ IsList(t.tags) /\ \A i \in DOMAIN t.tags : t.tags[i] \in Tags
    BY <1>1, TemplateFields
  <1>4. /\ v.by = cmd /\ v.from = file
        /\ v.data.instance_type =
             cmd.instance_type ?? (t.instance_type ?? Config(file).instance_type)
        /\ v.data.key_name = cmd.key_name ?? (t.key_name ?? Config(file).default_key_name)
        /\ v.data.image_id = cmd.ami ?? t.ami_id
        /\ v.data.security_group_ids = t.security_group_ids
        /\ v.data.tags = <<ProjectTag>> \o t.tags /\ v.data.user_data = bytes
        /\ v.data.market = IF Config(file).market = "spot" THEN Config(file).spot_type
                           ELSE None
        /\ spec.name = cmd.name
    BY DEF Version, RequestData, CommandSpec, config
  <1> HIDE DEF v, spec, t
  <1>5. Acceptable(v)
    BY <1>1, <1>2, <1>3, <1>4, ConfigValid, TagsValid DEF Acceptable, ??
  <1>6. cmd.name = cmd.name ?? "default"
    BY <1>2 DEF ??
  <1>7. /\ v.data.instance_type = Resolved(v, cmd.name, "instance_type", "instance_type")
        /\ v.data.key_name = Resolved(v, cmd.name, "key_name", "default_key_name")
    BY <1>1, <1>4, ConfigValues DEF t, Resolved
  <1>8. AsWritten(v, cmd.name)
    BY <1>1, <1>4, <1>6, <1>7, ConfigValid DEF t, AsWritten
  <1> QED BY <1>2, <1>4, <1>5, <1>8 DEF v, spec

LEMMA LaunchSpecRight ==
  ASSUME Running, pc = "ensure"
  PROVE  LET spec == LaunchSpec(config, Name, DefaultGroup, subnet.id, bytes)
         IN /\ spec.name = Name /\ Name \in TemplateNames
            /\ Acceptable(Version(spec)) /\ AsWritten(Version(spec), Name)
  <1> DEFINE spec == LaunchSpec(config, Name, DefaultGroup, subnet.id, bytes)
             t == Template(Config(file), Name)
             v == Version(spec)
  <1>1. /\ cmd \in Commands /\ file \in Files \cup {NoFile} /\ Loads(file)
        /\ cmd.op = "launch" /\ bytes \in 1 .. USER_DATA_RAW_BYTES_MAX
        /\ LaunchParses /\ config.ami_alias \in AmiAliases
    BY DEF Running, Typed, Established, LaunchSteps
  <1>2. Name \in TemplateNames
    BY <1>1 DEF LaunchParses, IsTemplateName
  <1>3. IsList(t.tags) /\ \A i \in DOMAIN t.tags : t.tags[i] \in Tags
    BY <1>1, TemplateFields
  <1>4. /\ v.by = cmd /\ v.from = file
        /\ v.data.instance_type = Config(file).instance_type
        /\ v.data.key_name = Config(file).default_key_name
        /\ v.data.image_id = Published[Config(file).ami_alias]
        /\ v.data.security_group_ids = <<DefaultGroup>>
        /\ v.data.tags = <<ProjectTag>> \o t.tags /\ v.data.user_data = bytes
        /\ v.data.market = IF Config(file).market = "spot" THEN Config(file).spot_type
                           ELSE None
        /\ spec.name = Name
    BY DEF Version, RequestData, LaunchSpec, config
  <1>5. Published[Config(file).ami_alias] \in AmiIds
    BY <1>1, SettingsAssumption DEF config
  <1>6. \A i \in DOMAIN <<DefaultGroup>> : <<DefaultGroup>>[i] \in SecurityGroupIds
    BY ProvisionAssumption
  <1> HIDE DEF v, spec, t
  <1>7. Acceptable(v)
    BY <1>1, <1>3, <1>4, <1>5, <1>6, ConfigValid, TagsValid DEF Acceptable
  <1>8. AsWritten(v, Name)
    BY <1>1, <1>4, ConfigValid, ConfigValues DEF AsWritten, Resolved, Name
  <1> QED BY <1>2, <1>4, <1>7, <1>8 DEF v, spec

--------------------------------------------------------------------------------
(* What is in EC2, between any two steps. *)
Stored ==
  /\ DOMAIN templates \subseteq TemplateNames
  /\ \A n \in DOMAIN templates : Acceptable(templates[n]) /\ AsWritten(templates[n], n)
  /\ keys \subseteq KeyNames
  /\ launched # None => launched.instance_name \in InstanceNames /\ launched.key_tag \in KeyNames
  /\ InstanceAsConfigured
  /\ pc = "run" => Name \in DOMAIN templates

LEMMA PutStores ==
  ASSUME Stored, NEW spec, spec.name \in TemplateNames,
         Acceptable(Version(spec)), AsWritten(Version(spec), spec.name),
         Put(spec), pc' = "run" => pc = "ensure" /\ spec.name = Name /\ cmd' = cmd
  PROVE  Stored'
  <1>1. templates' = [n \in DOMAIN templates \cup {spec.name} |->
                       IF n # spec.name THEN templates[n] ELSE Version(spec)]
    BY DEF Put, Version
  <1>2. DOMAIN templates' = DOMAIN templates \cup {spec.name}
    BY <1>1
  <1>3. \A n \in DOMAIN templates' :
          templates'[n] = IF n # spec.name THEN templates[n] ELSE Version(spec)
    BY <1>1
  <1>4. \A n \in DOMAIN templates' : Acceptable(templates'[n]) /\ AsWritten(templates'[n], n)
    BY <1>2, <1>3 DEF Stored
  <1>5. launched' = launched /\ keys' = keys
    BY DEF Put
  <1>6. InstanceAsConfigured'
    BY <1>5 DEF Stored, InstanceAsConfigured
  <1>7. pc' = "run" => Name' \in DOMAIN templates'
    BY <1>2 DEF Name
  <1> QED BY <1>2, <1>4, <1>5, <1>6, <1>7 DEF Stored

LEMMA RunStores ==
  ASSUME Running, Stored, RunInstances
  PROVE  Stored'
  <1> DEFINE v == templates[Name]
  <1>1. /\ cmd \in Commands /\ LaunchParses /\ Loads(file) /\ pc' = "idle"
        /\ Name \in DOMAIN templates
    BY DEF RunInstances, End, Running, Established, LaunchSteps, Stored
  <1>2. Acceptable(v) /\ AsWritten(v, Name)
    BY <1>1 DEF Stored
  <1>3. CASE UNCHANGED ec2
    BY <1>1, <1>3 DEF ec2, Stored, InstanceAsConfigured
  <1>4. CASE ~UNCHANGED ec2
    <2>1. /\ launched' = [instance_name |-> cmd.instance_name ?? GeneratedName,
                          instance_type |-> cmd.instance_type ?? v.data.instance_type,
                          market |-> IF cmd.market = "spot" THEN "one-time" ELSE v.data.market,
                          image_id |-> v.data.image_id, key_name |-> v.data.key_name,
                          key_tag |-> config.default_key_name,
                          by |-> cmd, of |-> v]
          /\ UNCHANGED <<templates, keys>>
      BY <1>4 DEF RunInstances
    <2>2. /\ launched'.instance_name = cmd.instance_name ?? GeneratedName
          /\ launched'.instance_type = cmd.instance_type ?? v.data.instance_type
          /\ launched'.market = IF cmd.market = "spot" THEN "one-time" ELSE v.data.market
          /\ launched'.image_id = v.data.image_id /\ launched'.key_name = v.data.key_name
          /\ launched'.key_tag = config.default_key_name
          /\ launched'.by = cmd /\ launched'.of = v
      BY <2>1
    <2>3. launched'.instance_name \in InstanceNames /\ launched'.key_tag \in KeyNames
      BY <1>1, <2>2, ConfigValid DEF LaunchParses, IsInstanceName, config
    <2>4. InstanceAsConfigured'
      <3>1. Name = launched'.by.name ?? "default"
        BY <2>2 DEF Name
      <3> HIDE DEF v
      <3> QED BY <1>2, <2>2, <3>1 DEF InstanceAsConfigured, AsWritten
    <2> QED BY <1>1, <2>1, <2>3, <2>4 DEF Stored
  <1> QED BY <1>3, <1>4

LEMMA StoredInductive == Running /\ Stored /\ [Next]_vars => Stored'
  <1> SUFFICES ASSUME Running, Stored, [Next]_vars PROVE Stored'
    OBVIOUS
  <1>1. ASSUME UNCHANGED ec2, pc' # "run"
        PROVE  Stored'
    BY <1>1 DEF ec2, Stored, InstanceAsConfigured
  <1>2. ASSUME UNCHANGED ec2, UNCHANGED <<pc, cmd>>
        PROVE  Stored'
    BY <1>2 DEF ec2, Stored, InstanceAsConfigured, Name
  <1>3. ASSUME NEW e, End(e)
        PROVE  pc' # "run"
    BY <1>3 DEF End
  <1>4. CASE \E c \in Commands : Start(c)
    BY <1>1, <1>4 DEF Start
  <1>5. CASE Load
    <2>1. FirstStep[cmd.op] # "run"
      <3>1. cmd.op \in {"print", "create", "update", "delete", "launch"}
        BY <1>5, ProvisionAssumption DEF Load, Running, Established, Flags
      <3> QED BY <3>1 DEF FirstStep
    <2> QED BY <1>1, <1>3, <1>5, <2>1 DEF Load, Goto
  <1>6. CASE Show \/ Fails \/ Confirm \/ Plan
    BY <1>1, <1>3, <1>6 DEF Show, Fails, Confirm, Plan, Move, Goto
  <1>7. CASE BuildSpec
    <2>1. cmd.op # "run"
      BY <1>7 DEF BuildSpec, Running, Established
    <2> QED BY <1>1, <1>3, <1>7, <2>1 DEF BuildSpec, GetUserData, Goto
  <1>8. CASE Create \/ Update
    <2>1. pc \in {"create", "update"}
      BY <1>8 DEF Create, Update
    <2>2. CASE Put(CommandSpec(config, cmd, bytes)) /\ End("done")
      BY <1>3, <2>1, <2>2, CommandSpecRight, PutStores
    <2> QED BY <1>1, <1>3, <1>8, <2>2 DEF Create, Update
  <1>9. CASE Delete
    <2>1. CASE /\ templates' = [n \in DOMAIN templates \ {cmd.name} |-> templates[n]]
               /\ UNCHANGED <<keys, launched>> /\ pc' # "run"
      <3>1. /\ DOMAIN templates' \subseteq DOMAIN templates
            /\ \A n \in DOMAIN templates' : templates'[n] = templates[n]
        BY <2>1
      <3> QED BY <2>1, <3>1 DEF Stored, InstanceAsConfigured
    <2> QED BY <1>1, <1>3, <1>9, <2>1 DEF Delete
  <1>10. CASE EnsureKeypair
    <2>1. Loads(file) /\ pc' # "run" /\ UNCHANGED <<templates, launched>>
          /\ keys' = keys \cup {config.default_key_name}
      BY <1>10 DEF EnsureKeypair, Move, Goto, Running, Established
    <2>2. config.default_key_name \in KeyNames
      BY <2>1, ConfigValid DEF config
    <2> QED BY <2>1, <2>2 DEF Stored, InstanceAsConfigured
  <1>11. CASE LookForTemplate
    <2>1. Name' = Name /\ UNCHANGED ec2
      BY <1>11 DEF LookForTemplate, Move, Goto, Name
    <2>2. pc' = "run" => Name \in DOMAIN templates
      BY <1>11 DEF LookForTemplate, Move, Goto
    <2> QED BY <2>1, <2>2 DEF ec2, Stored, InstanceAsConfigured
  <1>12. CASE ResolveSubnet \/ EnsureGroup \/ RenderUserData
    BY <1>1, <1>3, <1>12
       DEF ResolveSubnet, EnsureGroup, RenderUserData, GetUserData, Goto, ec2
  <1>13. CASE EnsureTemplate
    <2>1. pc = "ensure" /\ cmd' = cmd
          /\ Put(LaunchSpec(config, Name, DefaultGroup, subnet.id, bytes))
      BY <1>13 DEF EnsureTemplate, Goto
    <2> QED BY <2>1, LaunchSpecRight, PutStores
  <1>14. CASE RunInstances
    BY <1>14, RunStores
  <1>15. CASE Edit \/ UNCHANGED vars
    BY <1>2, <1>15 DEF Edit, vars
  <1> QED BY <1>4, <1>5, <1>6, <1>7, <1>8, <1>9, <1>10, <1>11, <1>12, <1>13, <1>14, <1>15
          DEF Next, Launch

LEMMA Invariants == Spec => [](Running /\ MadeSoFar /\ Stored)
  <1>1. Init => MadeSoFar /\ Stored
    BY OtherCodes
       DEF Init, MadeSoFar, BadInputMakesNothing, Stored, InstanceAsConfigured
  <1> QED BY <1>1, InitRunning, RunningInductive, MadeInductive, StoredInductive, PTL DEF Spec

(* The variables keep their types, a command past its load holds a file    *)
(* that parses, and RunInstances finds the template it names.              *)
THEOREM TypeCorrectness == Spec => []TypeOK
  <1>1. Running /\ MadeSoFar /\ Stored => TypeOK
    <2> SUFFICES ASSUME Running, MadeSoFar, Stored PROVE TypeOK
      OBVIOUS
    <2>1. Typed /\ Established
      BY DEF Running
    <2>2. pc # "idle" => cmd # None
      BY <2>1, ProvisionAssumption DEF Established
    <2>3. \A v \in Versions : v.by \in Commands /\ v.from \in Files \cup {NoFile}
      BY DEF Versions, Stored, Acceptable
    <2>4. pc \in {"create", "update", "delete"} => cmd.name \in TemplateNames
      BY <2>1 DEF Established, ArgsParse, IsTemplateName
    <2>5. pc \in LaunchSteps \ {"plan"} => Name \in TemplateNames
      BY <2>1 DEF Established, LaunchParses, IsTemplateName
    <2> QED BY <2>1, <2>2, <2>3, <2>4, <2>5
            DEF Typed, Established, MadeSoFar, Stored, TypeOK
  <1> QED BY <1>1, Invariants, PTL

(* Whatever the files, the blocks and the flags say, EC2 is never given a  *)
(* value that the constructor of its newtype would refuse.                 *)
THEOREM NothingUnchecked == Spec => []OnlyValidated
  <1>1. Stored => OnlyValidated
    BY DEF Stored, Acceptable, Versions, OnlyValidated
  <1> QED BY <1>1, Invariants, PTL

(* User data of any script or asset that passes fits in a template, in     *)
(* bytes and in base64: the check of the second limit cannot fail.         *)
THEOREM StoredUserDataFits == Spec => []UserDataFits
  <1>1. Stored => UserDataFits
    <2> SUFFICES ASSUME Stored, NEW v \in Versions
                 PROVE  /\ v.data.user_data \in 1 .. USER_DATA_RAW_BYTES_MAX
                        /\ B64Len(v.data.user_data) <= USER_DATA_BASE64_BYTES_MAX
      BY DEF UserDataFits
    <2>1. v.data.user_data \in 1 .. USER_DATA_RAW_BYTES_MAX
      BY DEF Stored, Versions, Acceptable
    <2>2. \A n \in 1 .. USER_DATA_RAW_BYTES_MAX : n \in Nat /\ n <= USER_DATA_RAW_BYTES_MAX
      BY DEF USER_DATA_RAW_BYTES_MAX
    <2> QED BY <2>1, <2>2, Base64Fits
  <1> QED BY <1>1, Invariants, PTL

(* What an instance is launched with follows from the flags of its launch, *)
(* and from the flags and the one reading of the file of the command that  *)
(* wrote the template, whatever was run or edited in between: its type,    *)
(* its key, its image, and its market but after --market on-demand, a flag *)
(* that the code drops.                                                    *)
THEOREM LaunchedAsConfigured == Spec => []InstanceAsConfigured
  <1>1. Stored => InstanceAsConfigured
    BY DEF Stored
  <1> QED BY <1>1, Invariants, PTL

--------------------------------------------------------------------------------
(* The subnet in hand is the one picked from the answer in hand. *)
Picked == pc = "group" =>
  subnets \in Listings /\ subnet = PickSubnet(subnets) /\ subnet # None

LEMMA PickedInductive == Running /\ Picked /\ [Next]_vars => Picked'
  <1> SUFFICES ASSUME Running, Picked, [Next]_vars PROVE Picked'
    OBVIOUS
  <1>1. CASE ResolveSubnet
    BY <1>1 DEF ResolveSubnet, Picked, End, Goto
  <1>2. CASE Edit \/ UNCHANGED vars
    BY <1>2 DEF Edit, Picked, vars, hand
  <1>3. CASE \/ \E c \in Commands : Start(c)
             \/ Show \/ Create \/ Update \/ Confirm \/ Delete \/ Plan \/ EnsureKeypair
             \/ LookForTemplate \/ EnsureGroup \/ EnsureTemplate \/ RunInstances \/ Fails
    BY <1>3 DEF Start, Show, Create, Update, Confirm, Delete, Plan, EnsureKeypair,
                LookForTemplate, EnsureGroup, EnsureTemplate, RunInstances, Fails,
                Picked, End, Goto, Move
  <1>4. CASE Load
    <2>1. cmd.op \in {"print", "create", "update", "delete", "launch"}
      BY <1>4, ProvisionAssumption DEF Running, Established, Load, Flags
    <2>2. FirstStep[cmd.op] # "group"
      BY <2>1 DEF FirstStep
    <2> QED BY <1>4, <2>2 DEF Load, Picked, End, Goto
  <1>5. CASE BuildSpec \/ RenderUserData
    <2>1. BuildSpec => cmd.op # "group"
      BY DEF Running, Established, BuildSpec
    <2> QED BY <1>5, <2>1 DEF BuildSpec, RenderUserData, GetUserData, Picked, End, Goto
  <1> QED BY <1>1, <1>2, <1>3, <1>4, <1>5 DEF Next, Launch

(* The subnet of a launch is in the first zone of EC2's answer, and the    *)
(* first listed there, for an answer of any length in any order.           *)
THEOREM SubnetIsFirst == Spec => []FirstZone
  <1>1. Init => Picked
    BY DEF Init, Picked
  <1>2. Picked => FirstZone
    <2> SUFFICES ASSUME Picked, pc = "group"
                 PROVE  \E i \in DOMAIN subnets :
                          /\ subnet = subnets[i] /\ subnet.az # None
                          /\ \A j \in DOMAIN subnets :
                               subnets[j].az # None =>
                                 \/ subnet.az < subnets[j].az
                                 \/ (subnet.az = subnets[j].az /\ i <= j)
      BY DEF FirstZone
    <2>1. IsListing(subnets) /\ subnet = PickSubnet(subnets) /\ subnet # None
      BY ProvisionAssumption DEF Picked
    <2>2. DOMAIN subnets = 1 .. Len(subnets)
      BY <2>1 DEF IsListing, IsList
    <2>3. IsFirst(subnet, subnets, Len(subnets))
      BY <2>1, PickIsFirst
    <2> QED BY <2>1, <2>2, <2>3 DEF IsFirst
  <1> QED BY <1>1, <1>2, PickedInductive, Invariants, PTL DEF Spec
================================================================================
