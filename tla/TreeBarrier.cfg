SPECIFICATION FairSpec
CONSTANTS
  N = 6
  Parent <- BinaryTree
  MaxCrossings = 3
INVARIANTS
  NobodyLeftBehind
  SenseAgreed
PROPERTY
  ImplementsThreadBarrier
  EveryWaitEnds
