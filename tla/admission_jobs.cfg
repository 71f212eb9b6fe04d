CONSTANTS
  Intents = {i1}
  Uploaders = {u1, u2}
  Workers = {w1, w2}
  Sweepers = {}
  Bodies = {b1, b2}
  SafeBodies = {b1}
  MaxAttempts = 2
  None = None
SPECIFICATION Spec
SYMMETRY Symmetry
INVARIANTS TypeOK LeaseDiscipline NoSilentStall RemovalAgrees AdmittedIsSafe IndInv
PROPERTIES TriggersAccept ImplementsContract
CHECK_DEADLOCK FALSE
