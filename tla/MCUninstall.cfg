SPECIFICATION Spec
CONSTANTS
  Part = {p1, p2}
  MaxRuns = 2
SYMMETRY Symmetry
INVARIANTS
  TypeOK
  RecoverableWhileUninstalling
  LocksLoseNothing
PROPERTIES
  ImplementsProfileChange
\* The number of runs is bounded: after the last one nothing need happen.
CHECK_DEADLOCK FALSE
