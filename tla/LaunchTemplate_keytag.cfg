SPECIFICATION Spec
CONSTANTS
  l1 = l1
  l2 = l2
  c = c
  u = u
  u2 = u2
  d1 = d1
  d2 = d2
  Procs = {l1, c}
  Launchers = {l1}
  Creators = {c}
  Updaters = {}
  Deleters = {}
  WithImage = {c}
  OtherKey = {c}
  NoTemplate = NoTemplate
  NoGroup = NoGroup
  Theirs = Theirs
INVARIANTS
  KeyTagOpens
CHECK_DEADLOCK FALSE
