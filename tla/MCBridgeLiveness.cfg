\* One slot for two connections: the second client waits in the backlog until
\* the first connection is closed.
SPECIFICATION FairSpec
CONSTANTS
  Conn = {c1, c2}
  MaxConnections = 1
  ReadTtl = 1
  WriteTtl = 1
  CloseTtl = 1
  UntimedTtl = 1
  SuppliedTtl <- MCSuppliedTtl
  Sent = {"cmd"}
  MaxStarts = 1
  MaxFaults = 1
INVARIANTS
  ConnectionCap
PROPERTIES
  EveryConnectionCloses
  WaitersAreServed
  SidecarExitNoticed
