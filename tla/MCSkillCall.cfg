SPECIFICATION Spec
CONSTANTS
  Version <- MCVersion
  MaxStarts = 2
INVARIANTS
  FailedReadBackIsReported
  ContextIsOfTheFailedHost
