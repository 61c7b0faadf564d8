SPECIFICATION Spec
CONSTANTS
  Emails = {a, b}
  NoEmail = NoEmail
  Handlers = {h1, h2}
  MaxAttempts = 2
  Window = 1
  MaxTracked = 1
  MaxTime = 2
SYMMETRY Symmetry
INVARIANTS
  TypeOK
  WindowBound
  ViewMatchesCookie
PROPERTIES
  RefusalsAreDue
