SPECIFICATION Spec
CONSTANTS
  l1 = l1
  l2 = l2
  c = c
  u = u
  u2 = u2
  d1 = d1
  d2 = d2
  Procs = {l1, l2, u, u2, d1, d2}
  Launchers = {l1, l2}
  Creators = {}
  Updaters = {u, u2}
  Deleters = {d1, d2}
  WithImage = {u, u2}
  OtherKey = {}
  NoTemplate = NoTemplate
  NoGroup = NoGroup
  Theirs = Theirs
SYMMETRY Interchangeable
INVARIANTS
  TypeOK
  EnsuredIsOpen
  EnsureSucceeds
  VersionsBelong
  NoHalfUpdateRuns
  LaunchedIsReachable
PROPERTIES
  DeletesWhatItSaw
  SharedGroupSpec
  StoreSpec
CHECK_DEADLOCK FALSE
