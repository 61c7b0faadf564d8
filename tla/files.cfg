SPECIFICATION FocusedSpec
CONSTANTS
  Contents = {1, 2, 4, 5, 9}
  FileSuffixes = {md, markdown}
  Owners = {o1, o2}
  Slots = {s1, s2}
  MaxActive = 2
  Docs = {d1, d2, d3, d4}
  NoDoc = NoDoc
  NoSuffix = NoSuffix
  MaxDocuments = 2
  MaxStorage = 8
SYMMETRY Symmetry
INVARIANTS
  HistoryTypeOK
  JobHasFile
  QuietDiskIsReferenced
  CountOvershoot
  BytesOvershoot
