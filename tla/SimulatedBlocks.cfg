SPECIFICATION Spec
CONSTANTS
  Ids = {0, 1, 2}
  Faces = {2, 3}
  Predicates <- MCPredicates
  MaxEvents = 2
  MaxThreadEvents = 0
  MaxTime = 2
  Overshoot = 1
  Neighbors <- MCNeighbors
  Touched = {1}
  MaxWrites = 3
  MaxThreadWrites = 2
INVARIANTS
  FactsMatchFaces
  SentInRunArrives
  NoneStranded
  RunsForward
CONSTRAINT
  MCTogether
CHECK_DEADLOCK FALSE
