SPECIFICATION FairSpec
CONSTANTS
  Timeout = 8
  Interval = 3
  TcpTimeout = 2
  MaxLate = 1
INVARIANTS
  TypeOK
  NoMissedPort
  CtrlCStops
PROPERTIES
  PollSpec
  ProbeEnds
CHECK_DEADLOCK FALSE
