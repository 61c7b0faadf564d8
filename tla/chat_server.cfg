SPECIFICATION FairSpec
CONSTANTS
  Sessions = {s1}
  Turns = {t1, t2}
  MaxPieces = 2
  HistoryTurns = 1
  NoSession = NoSession
INVARIANTS
  TypeOK
  AnswerAfterQuestion
  HistoryIsPast
  ReportedIsKept
PROPERTIES
  ImplementsTurns
CHECK_DEADLOCK FALSE
