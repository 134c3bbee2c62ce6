SPECIFICATION FairSpec
CONSTANTS
  Preds <- MCPreds
  Kind <- MCKind
  Level <- MCLevel
  Tuples <- MCPreds
  Pred <- MCPred
  Rules = {1, 2, 3}
  Body <- MCBody
  Heads <- MCHeads
  Consequences <- MCConsequences
  SimConsequences <- MCChain
  MaxEvents = 5
  MaxSimEvents = 4
INVARIANTS
  CountsCover
  NewTuplesRunRules
  QueueIsCurrent
  SupportExact
PROPERTY
  RunEnds
