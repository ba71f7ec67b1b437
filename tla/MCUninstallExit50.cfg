SPECIFICATION Spec
CONSTANTS
  Part = {p1, p2}
  MaxRuns = 1
SYMMETRY Symmetry
INVARIANT
  Exit50DeletesNothing
\* The number of runs is bounded: after the last one nothing need happen.
CHECK_DEADLOCK FALSE
