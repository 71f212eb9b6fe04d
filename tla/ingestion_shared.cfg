CONSTANTS
  Runs = {r1, r2}
  Calls = {c1, c2}
  Shared = shared
  Padded = {}
  WorkerId <- OneId
  Strip <- Stripped
  Operations = {"extract", "ocr"}
  Projections = {p1, p2}
  MaxAttempts = 2
  None = None
SPECIFICATION Spec
SYMMETRY Symmetry
INVARIANTS TypeOK LeaseDiscipline AttemptsExplainRun OneOutput BlockedForGood IndInv
PROPERTIES TriggersAccept ImplementsContract
CHECK_DEADLOCK FALSE
