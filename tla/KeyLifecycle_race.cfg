SPECIFICATION Spec
CONSTANTS
  p1 = p1
  p2 = p2
  p3 = p3
  m1 = m1
  m2 = m2
  Procs = {p1, p2, p3}
  Machines = {m1, m2}
  MachineOf <- ThirdApart
  Regenerate = {}
  Drift = FALSE
  Foreign = Foreign
  NoKey = NoKey
  NoFile = NoFile
  Truncated = Truncated
PROPERTIES
  EnsuredKeyMatches
CHECK_DEADLOCK FALSE
