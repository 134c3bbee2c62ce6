SPECIFICATION Spec
CONSTANTS
  Nodes = {1, 2, 3, 4}
  Null = 0
  Desc = TRUE
  Levels = {0, 1, 2, 3, 4}
  Inputs = {0, 1, 2}
  InitialPriority = 1
  Bonus = 1
  MaxTuples = 1
  MaxActions = 3
  HeapPriorities = {1, 2, 3}
INVARIANTS QueuesSound QueuedOnce
PROPERTIES ImplementsNodeOrder AllWorkDone
