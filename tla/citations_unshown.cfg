SPECIFICATION Spec
CONSTANTS
  Docs = {1, 2}
  MaxChunks = 3
  VectorCount = 3
  LexicalCount = 2
  VectorWeight = 5
  LexicalWeight = 4
  K = 3
  Shortlist = 4
  RerankerEnabled = TRUE
  TopK = 3
  MaxPerDocument = 1
  MaxContext = 3
  MaxMarkers = 2
INVARIANTS
  CitationsMatchContext
