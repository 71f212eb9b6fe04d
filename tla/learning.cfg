CONSTANTS
  k1 = k1
  l1 = l1
  l2 = l2
  Members = {m1}
  Invitations = {i1}
  Invited <- AllInvited
  InvitedRoles <- AllRoles
  Updates = {u1, u2}
  Roles = {learner}
  MaxRow = 2
  Versions = {v1, v2}
  Contents = {k1}
  Lessons = {l1, l2}
  LessonsOf <- BothLessons
  RequiredOf <- OneRequired
  Learner = learner
  Enrollments = {e1}
  Requests = {q1, q2}
  MaxProgress = 2
  None = None
SPECIFICATION Spec
INVARIANTS ProgressTells
PROPERTIES ActsInForce GivenOnce
CHECK_DEADLOCK FALSE
SYMMETRY Twins
