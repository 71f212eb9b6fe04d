CONSTANTS
  Runs = {r1}
  Calls = {c1, c2}
  WorkerId <- OneId
  Reviewers = {v1}
  Plans = {p1, p2}
  Outputs = {o1, o2}
  MaxAttempts = 3
  None = None
SPECIFICATION FairSpec
INVARIANTS TypeOK LeaseDiscipline AttemptsExplainRun ReviewedExactly VersionsTell BlockedForGood
PROPERTIES TriggersAccept RunsSettle ImplementsContract
CHECK_DEADLOCK FALSE
