SPECIFICATION FairSpec
CONSTANTS
  Timeout = 7
  PollInterval = 2
  MaxLatency = 3
  MaxLate = 1
INVARIANTS
  TypeOK
  NoMissedInstance
  CtrlCStops
PROPERTIES
  PollSpec
  WaitEnds
CHECK_DEADLOCK FALSE
