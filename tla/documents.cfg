SPECIFICATION FocusedSpec
CONSTANTS
  Docs = {d1, d2}
  Calls = {c1, c2, c3}
  MaxRefreshes = 2
  NoDoc = NoDoc
INVARIANTS
  TypeOK
  ListIsCurrent
  ListedWhileSending
PROPERTIES
  PollingEnds
CHECK_DEADLOCK FALSE
