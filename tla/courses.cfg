CONSTANTS
  MaxVersions = 2
  Requests = {q1, q2}
  Actors = {a1}
  Metas = {m1}
  Curricula = {empty, k1}
  Empty = empty
  Policies = {"self_review_allowed"}
  Room <- OneEdited
  None = None
SPECIFICATION FairSpec
INVARIANTS PublishedExactly FactsTellPointer RightHeld
PROPERTIES RequestsSettle TriggersAccept ImplementsContract
CHECK_DEADLOCK FALSE
