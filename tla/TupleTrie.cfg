SPECIFICATION Spec
CONSTANTS
  Preds = {"nullary", "pairs", "lists"}
  Fields <- MCFields
  Tuples <- MCTuples
  TRIE_HASH_LIST_THRESHOLD = 2
  TRIE_HASH_BASE_BUCKETS = 2
  TRIE_HASH_MAX_NODES_PER_BUCKET = 1
  Many = {1, 2}
  MaxReferences = 4
INVARIANTS
  ReferencesExact
  PlacedExactly
  MatchExact
PROPERTY
  ImplementsTupleStore
