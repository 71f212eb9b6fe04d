CONSTANTS
  Members = {m1}
  Invitations = {i1, i2}
  Invited <- AllInvited
  InvitedRoles <- RoleEach
  Updates = {u1}
  Roles = {learner, author}
  MaxRow = 3
  None = None
SPECIFICATION MembershipSpec
INVARIANTS RolesAreOneDecision
CHECK_DEADLOCK FALSE
