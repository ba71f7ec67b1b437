SPECIFICATION Spec
CONSTANTS
  Python <- MCPython
  Ver <- MCTwo
  Dist <- MCOne
  Bin <- MCTwo
  Verbs <- AllVerbs
  Edits <- AllEdits
  MaxEdits = 1
  MaxBootFailures = 2
  Supported = TRUE
INVARIANTS
  OnlyDeadEndsStop
PROPERTIES
  SuccessIsCurrent
  UsableIsTheRunningHost
  CurrentBecomesUsable
