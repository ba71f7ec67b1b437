SPECIFICATION Spec
CONSTANTS
  MaxStarts = 2
  CanReuse = TRUE
INVARIANTS
  OneSidecar
  ReadyIsEarned
PROPERTIES
  BereftEnds
  BecomesReady
  StopReturns
