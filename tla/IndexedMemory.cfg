CONSTANTS
  Records <- MCRecords
  Queries <- MCQueries
  Replies <- MCReplies
  Similarity <- MCSimilarity
  Models = {m, n}
  m = m
  n = n
  MaxVectors = 2
  MaxCandidates = 3
  StopWords = {"what"}
  SemanticThreshold = 50
  KindDiversity = TRUE
  MaxPuts = 3
  MaxOpens = 2
SYMMETRY ModelSymmetry
SPECIFICATION Spec
INVARIANTS
  MemoryInv
  SelectionFair
  DegradesToLexical
  FoundByMeaning
PROPERTIES
  RemembersRecords
CHECK_DEADLOCK FALSE
