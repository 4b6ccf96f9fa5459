SPECIFICATION HSpec
CONSTANTS
  p1 = p1
  p2 = p2
  p3 = p3
  m1 = m1
  Procs = {p1, p2, p3}
  Machines = {m1}
  MachineOf <- AllOnOne
  Regenerate = {p3}
  Drift = FALSE
  Foreign = Foreign
  NoKey = NoKey
  NoFile = NoFile
  Truncated = Truncated
INVARIANTS
  RelaunchIsPossible
CHECK_DEADLOCK FALSE
