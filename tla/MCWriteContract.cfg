SPECIFICATION Spec
CONSTANTS
  Command <- EveryCommand
  Value = {v1, v2}
  Absent = absent
INVARIANTS
  SuccessIsProven
  SuccessIsTheChange
  FailureIsClean
  OperationsAreBalanced
  EvidenceIsNeverEmpty
PROPERTIES
  ImplementsAtomicWrite
CHECK_DEADLOCK FALSE
