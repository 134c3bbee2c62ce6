SPECIFICATION Spec
CONSTANTS
  Groups = {g1, g2}
  Values = {1, 2}
  Rests = {r}
  MaxEvents = 5
  MaxRounds = 2
INVARIANTS
  FinalExact
  OneAggregateAtATime
  CorrespondsExact
