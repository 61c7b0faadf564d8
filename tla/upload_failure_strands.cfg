SPECIFICATION FairSpec
CONSTANTS
  Docs = {d1}
  Jobs = {j1}
  Workers = {w1}
  Requests = {r1}
  NoDoc = NoDoc
  NoJob = NoJob
  MaxAttempts = 2
  MaxCrashes = 0
  MaxStalls = 0
  SlowWriters = FALSE
  ApiMayFail = TRUE
PROPERTIES
  EventuallySettled
