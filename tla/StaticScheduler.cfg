SPECIFICATION FairSpec
CONSTANTS
  N = 2
  Nodes = {0, 1, 2}
  Owner <- RoundRobin
  MaxTuples = 3
  NULL = NULL
INVARIANTS
  NodesAccountedFor
  NoWorkLost
  NeverUndercounted
  RoundsInLockstep
  LeaveTogether
PROPERTY
  TerminatesUnlessPremature
