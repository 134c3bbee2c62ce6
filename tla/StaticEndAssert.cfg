SPECIFICATION Spec
CONSTANTS
  N = 2
  Nodes = {0, 1}
  Owner <- RoundRobin
  MaxTuples = 2
  NULL = NULL
INVARIANT
  EndIterationAssertHolds
