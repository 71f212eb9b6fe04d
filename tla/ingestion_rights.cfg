CONSTANTS
  Runs = {r1}
  Calls = {c1, c2}
  Shared = shared
  Padded = {}
  WorkerId <- OwnIds
  Strip <- Stripped
  Operations = {"extract", "ocr"}
  Projections = {p1}
  MaxAttempts = 2
  None = None
SPECIFICATION Spec
PROPERTIES ReadyUnderRights
CHECK_DEADLOCK FALSE
