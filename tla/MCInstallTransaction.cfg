SPECIFICATION Spec
CONSTANTS
  Version <- MCVersion
  MaxRuns = 2
INVARIANTS
  TypeOK
  LastGoodRecoverable
  BackupCompleteAtVerify
PROPERTIES
  ImplementsProfileChange
\* The number of runs is bounded: after the last one nothing need happen.
CHECK_DEADLOCK FALSE
