SPECIFICATION Spec
CONSTANTS
  l1 = l1
  l2 = l2
  c = c
  u = u
  u2 = u2
  d1 = d1
  d2 = d2
  Procs = {l1, l2}
  Launchers = {l1, l2}
  Creators = {}
  Updaters = {}
  Deleters = {}
  WithImage = {}
  OtherKey = {}
  NoTemplate = NoTemplate
  NoGroup = NoGroup
  Theirs = Theirs
INVARIANTS
  EnsureTemplateSucceeds
CHECK_DEADLOCK FALSE
