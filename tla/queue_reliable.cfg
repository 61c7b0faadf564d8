SPECIFICATION FocusedSpec
CONSTANTS
  Docs = {d1, d2}
  Jobs = {j1, j2, j3}
  Workers = {w1, w2}
  Requests = {r1, r2}
  NoDoc = NoDoc
  NoJob = NoJob
  MaxAttempts = 2
  MaxCrashes = 2
  MaxStalls = 0
  SlowWriters = FALSE
  ApiMayFail = FALSE
INVARIANTS
  InFlightHasJob
  OneWorkerPerDocument
  ReadyHasNoError
PROPERTIES
  TerminalIsFinal
  NoJobRunsForever
  ImplementsLifecycle
