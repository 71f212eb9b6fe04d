CONSTANTS
  Intents = {i1}
  Uploaders = {u1}
  Workers = {w1}
  Sweepers = {s1}
  Bodies = {b1}
  SafeBodies = {b1}
  MaxAttempts = 2
  None = None
SPECIFICATION Spec
PROPERTY OrphanPassSparesInventory
CHECK_DEADLOCK FALSE
