SPECIFICATION Spec
CONSTANTS
  Docs = {d1}
  Jobs = {j1, j2, j3}
  Workers = {w1, w2}
  Requests = {r1, r2}
  NoDoc = NoDoc
  NoJob = NoJob
  MaxAttempts = 2
  MaxCrashes = 2
  MaxStalls = 2
  SlowWriters = FALSE
  ApiMayFail = TRUE
SYMMETRY Symmetry
INVARIANTS
  TypeOK
  SucceededHasChunks
  AttemptsBounded
