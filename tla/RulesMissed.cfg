SPECIFICATION Spec
CONSTANTS
  Preds <- MCPreds
  Kind <- MCKind
  Level <- MCLevel
  Tuples <- MCPreds
  Pred <- MCPred
  Rules = {1, 2, 3}
  Body <- MCBody
  Heads <- MCHeads
  Consequences <- MCConsequences
  SimConsequences <- MCChain
  MaxEvents = 4
  MaxSimEvents = 0
INVARIANT
  NoRuleMissed
