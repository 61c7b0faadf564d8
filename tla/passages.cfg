SPECIFICATION Spec
CONSTANTS
  MaxLines = 4
  MaxPages = 2
  HashLevels = {1, 2, 3}
  Texts <- MCTexts
  Sizes = {1, 2, 3}
  MaxDepth = 2
  Target = 4
  Overlap = 2
  MinTokens = 2
INVARIANTS
  TypeOK
  SectionsAreLocated
  NoTextIsLost
  ChunkSizesBounded
CHECK_DEADLOCK FALSE
