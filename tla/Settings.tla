------------------------------- MODULE Settings -------------------------------
(***************************************************************************)
(* The pure part of kleya's commands: what a config file means, which      *)
(* values it and the flags may hold, the launch template they make up, the *)
(* sizes of user data, the subnet that is picked, and the exit codes.      *)
(*                                                                         *)
(* A string is a value; the values that a newtype's constructor accepts    *)
(* are a set.  None is the absence of a value, in a file or on the command *)
(* line; Malformed is a file that is too long, not UTF-8, of an unknown    *)
(* extension, or does not deserialize (an unknown field included).  Of a   *)
(* script only its length and whether it is UTF-8 are kept.                *)
(***************************************************************************)
EXTENDS Naturals, SequencesExt

CONSTANTS None, NoFile, Malformed,
          Regions, KeyNames, TemplateNames, InstanceNames,
          AmiIds, SecurityGroupIds, SubnetIds, Tags,
          ProjectTag,             \* the tag Project=kleya
          Published,              \* the image that SSM has for each alias
          TEMPLATES_COUNT_MAX,    \* 64 in the code
          TAGS_PER_TEMPLATE_MAX   \* 50 in the code

USER_DATA_RAW_BYTES_MAX == 16384
USER_DATA_GZIP_BYTES_MAX == 16384
USER_DATA_BASE64_BYTES_MAX == 21848

(* The constructors of the newtypes: each accepts a string or refuses it   *)
(* with ConfigInvalid.                                                     *)
IsRegion(raw) == raw \in Regions
IsKeyName(raw) == raw \in KeyNames
IsTemplateName(raw) == raw \in TemplateNames
IsInstanceName(raw) == raw \in InstanceNames
IsAmiId(raw) == raw \in AmiIds
IsSecurityGroupId(raw) == raw \in SecurityGroupIds
IsSubnetId(raw) == raw \in SubnetIds
IsTag(raw) == raw \in Tags

(* a, or b where a is not given. *)
a ?? b == IF a # None THEN a ELSE b

--------------------------------------------------------------------------------
(* The exit code of each error, and of success. *)
Code ==
  [done |-> 0, UserDataTooLarge |-> 1,
   ConfigInvalid |-> 2, UserDataNotUtf8 |-> 2, BootstrapRender |-> 2,
   InvalidTmuxSession |-> 2, UnknownAmiAlias |-> 2,
   InstanceNotFound |-> 3, TemplateNotFound |-> 3, TemplateNotFoundById |-> 3,
   NoDefaultVpc |-> 3, NoSubnetInDefaultVpc |-> 3,
   AmbiguousHandle |-> 4, SshNotReady |-> 5, LaunchWaitTimeout |-> 6,
   KeyMismatch |-> 7, KeyOrphaned |-> 7, KeyFileMode |-> 7,
   UnsupportedKeyAlgorithm |-> 7, CloudInitFailed |-> 8,
   NoPublicDns |-> 9, UnmanagedInstance |-> 9, UserAborted |-> 10,
   Adapter |-> 70, Io |-> 74, Cancelled |-> 130]

Errors == DOMAIN Code \ {"done"}

--------------------------------------------------------------------------------
(* Config::default, which is also what serde fills an absent field with. *)
BuiltIn ==
  [provider |-> "aws", default_region |-> "eu-west-1",
   instance_type |-> "m8g.xlarge", market |-> "spot", spot_type |-> "one-time",
   ami_alias |-> "amazon-linux-2023-arm64", user_data_path |-> None,
   default_key_name |-> "kleya-default", templates |-> <<>>]

Deserialize(file) == [x \in DOMAIN BuiltIn |-> file[x] ?? BuiltIn[x]]

Config(file) == IF file = NoFile THEN BuiltIn ELSE Deserialize(file)

Validates(c) ==
  /\ IsRegion(c.default_region)
  /\ IsKeyName(c.default_key_name)
  /\ Len(c.templates) <= TEMPLATES_COUNT_MAX
  /\ \A i \in DOMAIN c.templates :
       LET t == c.templates[i]
       IN /\ t.key_name = None \/ IsKeyName(t.key_name)
          /\ Len(t.tags) <= TAGS_PER_TEMPLATE_MAX
          /\ \A j \in DOMAIN t.tags : IsTag(t.tags[j])
  /\ c.market \in {"spot", "on-demand"}
  /\ c.spot_type \in {"one-time", "persistent"}

IsProvider(raw) == raw = "aws"

ParsesTemplate(t) ==
  /\ IsTemplateName(t.name)
  /\ t.ami_id = None \/ IsAmiId(t.ami_id)
  /\ t.key_name = None \/ IsKeyName(t.key_name)
  /\ \A i \in DOMAIN t.security_group_ids : IsSecurityGroupId(t.security_group_ids[i])
  /\ t.subnet_id = None \/ IsSubnetId(t.subnet_id)
  /\ \A i \in DOMAIN t.tags : IsTag(t.tags[i])

Parses(c) == /\ Validates(c)
             /\ IsProvider(c.provider)
             /\ \A i \in DOMAIN c.templates : ParsesTemplate(c.templates[i])

Loads(file) == file # Malformed /\ Parses(Config(file))

NoBlock == [name |-> None, ami_id |-> None, instance_type |-> None, key_name |-> None,
            security_group_ids |-> <<>>, subnet_id |-> None, tags |-> <<>>]

(* ParsedConfig::template: the first block of that name; nothing refuses a *)
(* second one.                                                             *)
Template(c, name) ==
  LET found == {i \in DOMAIN c.templates : c.templates[i].name = name}
  IN IF found = {} THEN NoBlock
     ELSE c.templates[CHOOSE i \in found : \A j \in found : i <= j]

--------------------------------------------------------------------------------
B64Len(bytes) == 4 * ((bytes + 2) \div 3)

(* Mutant: the allowance of the compressed path. *)
Passthrough_Times4(bytes) ==
  IF bytes = 0 THEN "ConfigInvalid"
  ELSE IF bytes > 4 * USER_DATA_RAW_BYTES_MAX THEN "UserDataTooLarge" ELSE "done"

(* encode_user_data_passthrough and encode_user_data: the error, if any.   *)
Passthrough(bytes) ==
  IF bytes = 0 THEN "ConfigInvalid"
  ELSE IF bytes > USER_DATA_RAW_BYTES_MAX THEN "UserDataTooLarge" ELSE "done"

Compressed(bytes, gz) ==
  IF bytes = 0 THEN "ConfigInvalid"
  ELSE IF bytes > 4 * USER_DATA_RAW_BYTES_MAX \/ gz > USER_DATA_GZIP_BYTES_MAX
       THEN "UserDataTooLarge" ELSE "done"

(* render: minijinja's own errors cannot happen, the template is fixed.    *)
Rendered(asset) == IF asset.bytes = 0 THEN "BootstrapRender"
                   ELSE Compressed(asset.bytes, asset.gz)

ReadScript(script) == IF script = NoFile THEN "Io"
                      ELSE IF ~script.utf8 THEN "UserDataNotUtf8"
                      ELSE Passthrough(script.bytes)

--------------------------------------------------------------------------------
(* build_template_spec: the flags that newtypes check, and the spec.       *)
ArgsParse(args) == /\ IsTemplateName(args.name)
                   /\ args.key_name = None \/ IsKeyName(args.key_name)
                   /\ args.ami = None \/ IsAmiId(args.ami)

CommandSpec(c, args, bytes) ==
  LET t == Template(c, args.name)
  IN [name |-> args.name,
      ami_id |-> args.ami ?? t.ami_id,
      instance_type |-> args.instance_type ?? (t.instance_type ?? c.instance_type),
      key_name |-> args.key_name ?? (t.key_name ?? c.default_key_name),
      security_group_ids |-> t.security_group_ids,
      subnet_id |-> t.subnet_id,
      market |-> c.market, spot_type |-> c.spot_type,
      tags |-> <<ProjectTag>> \o t.tags,
      user_data |-> bytes]

(* The spec of ensure_template, for a launch that finds no template: of    *)
(* the block only its tags are used, of the flags nothing.                 *)
LaunchSpec(c, name, group, subnet, bytes) ==
  [name |-> name,
   ami_id |-> Published[c.ami_alias],
   instance_type |-> c.instance_type,
   key_name |-> c.default_key_name,
   security_group_ids |-> <<group>>,
   subnet_id |-> subnet,
   market |-> c.market, spot_type |-> c.spot_type,
   tags |-> <<ProjectTag>> \o Template(c, name).tags,
   user_data |-> bytes]

(* build_request_launch_template_data: the subnet is not part of it, and   *)
(* on-demand is the absence of market options.                             *)
RequestData(spec) ==
  [image_id |-> spec.ami_id, instance_type |-> spec.instance_type,
   key_name |-> spec.key_name, security_group_ids |-> spec.security_group_ids,
   market |-> IF spec.market = "spot" THEN spec.spot_type ELSE None,
   tags |-> spec.tags, user_data |-> spec.user_data]

(* resolve_ami_alias *)
AmiAliases == {"amazon-linux-2023-arm64", "amazon-linux-2023-x86_64"}

(* Mutant: the last of the subnets of a zone is kept. *)
Nearer_OrEqual(s, picked) == s.az # None /\ (picked = None \/ s.az <= picked.az)

Nearer(s, picked) == s.az # None /\ (picked = None \/ s.az < picked.az)

IsList(s) == s \in Seq({s[i] : i \in DOMAIN s})

(* What DescribeSubnets may answer. *)
IsListing(l) ==
  IsList(l) /\ \A i \in DOMAIN l : l[i] # None /\ l[i].az \in Nat \cup {None}

(* resolve_default_subnet over DescribeSubnets' answer; zones are numbered *)
(* in the order of their names, and an answer may leave the zone out.      *)
PickSubnet(subnets) ==
  FoldLeft(LAMBDA picked, s : IF Nearer(s, picked) THEN s ELSE picked, None, subnets)

ASSUME SettingsAssumption ==
  /\ BuiltIn.default_region \in Regions /\ BuiltIn.default_key_name \in KeyNames
  /\ "default" \in TemplateNames /\ ProjectTag \in Tags
  /\ Published \in [AmiAliases -> AmiIds]
  /\ None \notin KeyNames \cup TemplateNames \cup AmiIds \cup SubnetIds
  /\ TEMPLATES_COUNT_MAX \in Nat /\ TAGS_PER_TEMPLATE_MAX \in Nat
================================================================================
