SPECIFICATION HistorySpec
CONSTANTS
  Contents = {1}
  FileSuffixes = {md}
  Owners = {o1, o2}
  Slots = {s1}
  MaxActive = 2
  Docs = {d1, d2}
  NoDoc = NoDoc
  NoSuffix = NoSuffix
  MaxDocuments = 2
  MaxStorage = 2
SYMMETRY Symmetry
PROPERTIES
  UnlinkedOnlyUnreferenced
