SPECIFICATION SysSpec
CONSTANTS
  Conn = {c1, c2}
  MaxConnections = 2
  ReadTtl = 1
  WriteTtl = 1
  CloseTtl = 1
  UntimedTtl = 1
  SuppliedTtl <- MCSuppliedTtl
  Sent = {"cmd", "untimed", "invalid", "noid"}
  MaxStarts = 2
  MaxFaults = 0
SYMMETRY Symmetry
INVARIANTS
  SysTypeOK
  QueuedOrServedOnce
  RepliesAreTrue
  StoppedIsQuiet
PROPERTIES
  TimedOutStartsOnlyAtDeadline
  ReadyResponseBeatsTimeout
  KeepsItsPromise
  NoStartAfterGivingUp
