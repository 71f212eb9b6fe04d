CONSTANTS
  Intents = {i1}
  Uploaders = {u1}
  Workers = {w1}
  Sweepers = {}
  Bodies = {b1}
  SafeBodies = {b1}
  MaxAttempts = 2
  None = None
SPECIFICATION FairSpec
PROPERTY CrashedJobRecovers
CHECK_DEADLOCK FALSE
