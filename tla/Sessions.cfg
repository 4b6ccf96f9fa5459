SPECIFICATION Spec
CONSTANTS
  l = l
  o = o
  x = x
  c = c
  t = t
  n = n
  idlike = idlike
  Launchers = {l}
  Others = {o}
  Theirs = {x}
  Connectors = {c}
  Terminators = {t}
  Names = {n, idlike}
  IdLike = {idlike}
  NameOf <- Namesakes
  Setups <- Given
  NoPem = {o}
  NoInstance = NoInstance
INVARIANTS
  TypeOK
  LandsOnOwn
  NamesLeadToManaged
  BootstrapIsDone
  SshHasAnswered
PROPERTIES
  TargetSpec
  EveryCommandEnds
CHECK_DEADLOCK FALSE
