SPECIFICATION Spec
CONSTANTS
  None = None
  NoFile = NoFile
  Malformed = Malformed
  Garbage = Garbage
  Regions <- MCRegions
  KeyNames <- MCKeyNames
  TemplateNames <- MCTemplateNames
  InstanceNames <- MCInstanceNames
  AmiIds = {"ami-arm", "ami-x86", "ami-own"}
  SecurityGroupIds = {"sg-default"}
  SubnetIds = {"subnet-a", "subnet-b", "subnet-c"}
  Tags <- MCTags
  ProjectTag = "Project=kleya"
  Published <- MCPublished
  TEMPLATES_COUNT_MAX = 2
  TAGS_PER_TEMPLATE_MAX = 2
  Commands <- MCCommands
  ConfigPaths = {"toml", "json"}
  SearchOrder <- MCSearchOrder
  Files <- MCFiles
  Disks <- MCDisks
  Edits <- MCEdits
  ScriptPaths = {"script"}
  Scripts <- MCScripts
  Assets <- MCAssets
  Listings <- MCListings
  GeneratedName = "kleya-calm-otter"
  DefaultGroup = "sg-default"
  MaxCommands = 1
  MaxEdits = 0
INVARIANT ResolvesAsDocumented
CHECK_DEADLOCK FALSE
