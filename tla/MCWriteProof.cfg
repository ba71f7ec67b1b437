SPECIFICATION Spec
CONSTANTS
  Command <- OnlyTransform
  Value = {v1, v2}
  Absent = absent
INVARIANTS
  NoSilentFailure
CHECK_DEADLOCK FALSE
