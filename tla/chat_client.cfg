SPECIFICATION ClientSpec
CONSTANTS
  Sessions = {s1, s2}
  Turns = {1}
  MaxPieces = 1
  NoSession = NoSession
  MaxLoads = 2
INVARIANTS
  TypeOK
  FinishedIsWhole
  SettledViewIsStored
PROPERTIES
  PendingEnds
CHECK_DEADLOCK FALSE
