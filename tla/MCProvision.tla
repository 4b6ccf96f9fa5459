------------------------------- MODULE MCProvision -------------------------------
(* Config files, scripts and command lines for Provision: for each value   *)
(* that the code looks at one that is right and one that is not.           *)
EXTENDS Provision

CONSTANTS Garbage

MCSearchOrder == <<"toml", "json">>
MCRegions == {"eu-west-1", "us-east-1"}
MCKeyNames == {"kleya-default", "team"}
MCTemplateNames == {"default", "gpu"}
MCInstanceNames == {"kleya-calm-otter", "box"}
MCTags == {"Project=kleya", "Owner=me"}
MCPublished == [a \in AmiAliases |->
                  IF a = "amazon-linux-2023-arm64" THEN "ami-arm" ELSE "ami-x86"]

Empty == [x \in DOMAIN BuiltIn |-> None]
Gpu == [NoBlock EXCEPT !.name = "gpu", !.instance_type = "g6.xlarge",
                       !.ami_id = "ami-own", !.tags = <<"Owner=me">>]
Full == [Empty EXCEPT !.instance_type = "c8g.large", !.market = "on-demand",
                      !.default_key_name = "team", !.user_data_path = "script",
                      !.ami_alias = "amazon-linux-2023-x86_64",
                      !.templates = <<Gpu, [Gpu EXCEPT !.instance_type = "second"]>>]
Persistent == [Empty EXCEPT !.spot_type = "persistent", !.templates = <<Gpu>>]
BadBlocks == {[Gpu EXCEPT !.key_name = Garbage], [Gpu EXCEPT !.ami_id = Garbage],
              [Gpu EXCEPT !.security_group_ids = <<Garbage>>],
              [Gpu EXCEPT !.tags = <<Garbage>>]}

MCFiles == {Empty, Full, Malformed, [Empty EXCEPT !.ami_alias = Garbage],
            Persistent,
            [Empty EXCEPT !.default_key_name = Garbage],
            [Empty EXCEPT !.templates = <<Gpu, Gpu, Gpu>>]}
           \cup {[Empty EXCEPT !.templates = <<b>>] : b \in BadBlocks}

MCDisks == {[p \in {"toml", "json"} |-> IF p = "toml" THEN f ELSE Persistent] :
              f \in {NoFile, Full}}
MCEdits == [path : {"toml"}, file : MCFiles \cup {NoFile}] \cup [path : {"json"}, file : {NoFile}]

MCScripts == {NoFile, [bytes |-> 100, utf8 |-> FALSE]}
             \cup {[bytes |-> n, utf8 |-> TRUE] : n \in {0, 16384, 16385}}
MCAssets == {[bytes |-> 6900, gz |-> 2849], [bytes |-> 60000, gz |-> 16385]}

Subnet(id, az) == [id |-> id, az |-> az]
MCListings == {<<Subnet("subnet-a", x), Subnet("subnet-b", y), Subnet("subnet-c", z)>> :
                 x \in {None, 2}, y \in {None, 1, 2}, z \in {None, 1}}

Line(op) == [op |-> op, config |-> None, provider |-> None, name |-> None, ami |-> None,
             instance_type |-> None, key_name |-> None, user_data |-> None,
             instance_name |-> None, market |-> None, dry_run |-> FALSE]
MCCommands ==
  {Line("print"), [Line("launch") EXCEPT !.provider = Garbage],
   [Line("create") EXCEPT !.name = "gpu"],
   [Line("update") EXCEPT !.name = "gpu", !.key_name = "team", !.ami = "ami-own",
                          !.user_data = "script"],
   [Line("update") EXCEPT !.name = "gpu", !.key_name = Garbage],
   [Line("delete") EXCEPT !.name = "gpu"],
   [Line("delete") EXCEPT !.name = Garbage],
   Line("launch"),
   [Line("launch") EXCEPT !.name = "gpu", !.instance_type = "m8g.large", !.market = "spot"],
   [Line("launch") EXCEPT !.name = "gpu", !.market = "on-demand", !.config = "json"],
   [Line("launch") EXCEPT !.dry_run = TRUE],
   [Line("launch") EXCEPT !.instance_name = Garbage]}
================================================================================
