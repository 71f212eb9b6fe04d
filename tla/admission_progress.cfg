CONSTANTS
  Intents = {i1, i2}
  Uploaders = {u1}
  Workers = {w1}
  Sweepers = {s1}
  Bodies = {b1}
  SafeBodies = {b1}
  MaxAttempts = 2
  None = None
SPECIFICATION CrashFreeSpec
INVARIANTS SingleDelivery WithdrawnStopsWork
PROPERTIES ValidationSettles RemovalSettles
CHECK_DEADLOCK FALSE
