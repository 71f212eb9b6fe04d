CONSTANTS
  Runs = {r1}
  Calls = {c1, c2, c3}
  Shared = shared
  Padded = {c2}
  WorkerId <- OwnIds
  Strip <- Stripped
  Operations = {"extract", "ocr"}
  Projections = {p1}
  MaxAttempts = 2
  None = None
SPECIFICATION FairSpec
PROPERTIES RunsSettle AttemptsEndedByTheirCall
CHECK_DEADLOCK FALSE
