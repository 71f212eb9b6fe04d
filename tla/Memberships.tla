---------------------------- MODULE Memberships ----------------------------
(***************************************************************************)
(* The memberships of one tenant (tenancy/services.py): invitations, their *)
(* acceptance and expiry, and the updates an administrator makes.          *)
(*                                                                         *)
(* An acceptance or an update is one READ COMMITTED transaction of three   *)
(* steps: it reads the membership without a lock; it locks the row if it   *)
(* is to write it, and starts the DELETE of the roles, which sees the rows *)
(* committed by then; it inserts the new roles and commits.  Rows that two *)
(* DELETEs see are gone once either commits, in whichever order they lock  *)
(* them.                                                                   *)
(***************************************************************************)
EXTENDS Naturals, FiniteSets

CONSTANTS
    Members,        \* people the tenant knows or invites
    Invitations,    \* TenantInvitation rows
    Invited,        \* the person whose verified email each invitation names
    InvitedRoles,   \* its TenantInvitationRole rows
    Updates,        \* calls of update_membership in progress
    Roles,          \* ROLE_CODES
    MaxRow,         \* bound: row_version up to which a membership is updated
    None

Changes == Invitations \cup Updates

ASSUME ChangesAssumption == Invitations \cap Updates = {}
ASSUME InvitedAssumption ==
    /\ Invited \in [Invitations -> Members]
    /\ InvitedRoles \in [Invitations -> (SUBSET Roles) \ {{}}]
ASSUME NoMemberAssumption == None \notin Members \cup {"active", "inactive"}

VARIABLES
    member,         \* the TenantMembership rows
    roles,          \* the MembershipRole rows, each with the change that made it
    invitation,     \* the TenantInvitation rows
    change          \* the transactions in progress

membership == <<member, roles, invitation>>
membershipVars == <<member, roles, invitation, change>>

-----------------------------------------------------------------------------
MemberRows == [status : {"none", "active", "inactive"}, row : Nat]
RoleRows   == [role : Roles, by : Changes]

\* overdue: expires_at has passed.
InvitationRows == [status : {"none", "active", "accepted", "expired"}, overdue : BOOLEAN]

\* read: the membership as it was read; gone: the role rows the DELETE sees.
ChangeStates ==
    [pc     : {"idle", "read", "write"},
     member : Members \cup {None},
     read   : MemberRows,
     status : {"active", "inactive", None},      \* what an update asks for
     roles  : SUBSET Roles,                      \* none are given: they stay
     gone   : SUBSET RoleRows]

NoMember == [status |-> "none", row |-> 0]
Still    == [pc |-> "idle", member |-> None, read |-> NoMember, status |-> None,
             roles |-> {}, gone |-> {}]

MembershipTypeOK ==
    /\ member \in [Members -> MemberRows]
    /\ roles \in [Members -> SUBSET RoleRows]
    /\ invitation \in [Invitations -> InvitationRows]
    /\ change \in [Changes -> ChangeStates]

MembershipInit ==
    /\ member = [m \in Members |-> NoMember]
    /\ roles = [m \in Members |-> {}]
    /\ invitation = [i \in Invitations |-> [status |-> "none", overdue |-> FALSE]]
    /\ change = [x \in Changes |-> Still]

Proceeds(x, state) == change' = [change EXCEPT ![x] = state]

\* The change writes the membership's row: an update does, and an acceptance that
\* found no active membership.
WritesMember(x) == x \in Updates \/ change[x].read.status # "active"

\* No change in progress holds the membership's row.
RowFree(m) ==
    \A x \in Changes :
        change[x].pc = "write" /\ change[x].member = m => ~WritesMember(x)

-----------------------------------------------------------------------------
\* create_invitation
Invite(i) ==
    /\ invitation[i].status = "none"
    /\ invitation' = [invitation EXCEPT ![i].status = "active"]
    /\ UNCHANGED <<member, roles, change>>

\* 24 hours have passed.
Overdue(i) ==
    /\ invitation[i].status = "active"
    /\ ~invitation[i].overdue
    /\ invitation' = [invitation EXCEPT ![i].overdue = TRUE]
    /\ UNCHANGED <<member, roles, change>>

\* An acceptance that comes too late records the expiry, in a transaction of its own.
Expire(i) ==
    /\ change[i].pc = "idle"
    /\ invitation[i].status = "active"
    /\ invitation[i].overdue
    /\ invitation' = [invitation EXCEPT ![i].status = "expired"]
    /\ UNCHANGED <<member, roles, change>>

\* Mutant: an invitation that was accepted is accepted once more.
ReadForAcceptanceAgain(i) ==
    /\ change[i].pc = "idle"
    /\ invitation[i].status \in {"active", "accepted"}
    /\ ~invitation[i].overdue
    /\ Proceeds(i, [Still EXCEPT !.pc = "read", !.member = Invited[i],
                                 !.read = member[Invited[i]], !.roles = InvitedRoles[i]])
    /\ UNCHANGED membership

\* accept_invitation holds the invitation from here on; once accepted, it answers
\* without a change.
ReadForAcceptance(i) ==
    /\ change[i].pc = "idle"
    /\ invitation[i].status = "active"
    /\ ~invitation[i].overdue
    /\ Proceeds(i, [Still EXCEPT !.pc = "read", !.member = Invited[i],
                                 !.read = member[Invited[i]], !.roles = InvitedRoles[i]])
    /\ UNCHANGED membership

\* get_or_create: if there was no membership, the one another acceptance has made by
\* now, if any.
Found(i) ==
    IF change[i].read.status = "none" THEN member[Invited[i]] ELSE change[i].read

\* The acceptance writes the membership's row unless it found it active.
ClearForAcceptance(i) ==
    /\ change[i].pc = "read"
    /\ change[i].read.status # "active" => RowFree(Invited[i])
    /\ Proceeds(i, [change[i] EXCEPT !.pc = "write", !.read = Found(i),
                                     !.gone = roles[Invited[i]]])
    /\ UNCHANGED membership

-----------------------------------------------------------------------------
\* update_membership: the client names the row it has seen, that of this read.
ReadForUpdate(u, m) ==
    /\ change[u].pc = "idle"
    /\ member[m].status # "none"
    /\ member[m].row < MaxRow
    /\ \E status \in {"active", "inactive", None},
          codes \in SUBSET Roles :
          /\ status # None \/ codes # {}
          /\ Proceeds(u, [Still EXCEPT !.pc = "read", !.member = m, !.read = member[m],
                                       !.status = status, !.roles = codes])
    /\ UNCHANGED membership

ClearForUpdate(u) ==
    LET m == change[u].member IN
    /\ change[u].pc = "read"
    /\ RowFree(m)
    /\ member[m].row = change[u].read.row
    /\ Proceeds(u, [change[u] EXCEPT
                       !.pc = "write",
                       !.gone = IF change[u].roles = {} THEN {} ELSE roles[m]])
    /\ UNCHANGED membership

VersionConflict(u) ==
    LET m == change[u].member IN
    /\ change[u].pc = "read"
    /\ RowFree(m)
    /\ member[m].row # change[u].read.row
    /\ Proceeds(u, Still)
    /\ UNCHANGED membership

-----------------------------------------------------------------------------
Given(x) == [role : change[x].roles, by : {x}]

Kept(x) == roles[change[x].member] \ change[x].gone

\* Two rows of one role are one too many (uq_membership_roles_edge).
Doubled(x) == \E r \in Given(x), k \in Kept(x) : r.role = k.role

\* What the change makes of the membership's row.
Written(x) ==
    LET read == change[x].read IN
    IF x \in Updates
    THEN [status |-> IF change[x].status = None THEN read.status ELSE change[x].status,
          row    |-> read.row + 1]
    ELSE [status |-> "active", row |-> read.row + 1]

Commit(x) ==
    LET m == change[x].member IN
    /\ change[x].pc = "write"
    /\ ~Doubled(x)
    /\ member' = IF WritesMember(x) THEN [member EXCEPT ![m] = Written(x)] ELSE member
    /\ roles' = [roles EXCEPT ![m] = Kept(x) \cup Given(x)]
    /\ invitation' = IF x \in Invitations
                     THEN [invitation EXCEPT ![x].status = "accepted"]
                     ELSE invitation
    /\ Proceeds(x, Still)

\* The transaction is rolled back: a role it inserts is there, it is one of a circle
\* of transactions that wait for one another, or its process dies.
Abort(x) ==
    /\ change[x].pc # "idle"
    /\ Proceeds(x, Still)
    /\ UNCHANGED membership

-----------------------------------------------------------------------------
\* A change takes the lock of m's row.
Locks(m) ==
    \/ \E i \in Invitations :
          Invited[i] = m /\ change[i].read.status # "active" /\ ClearForAcceptance(i)
    \/ \E u \in Updates : change[u].member = m /\ ClearForUpdate(u)

\* It does not.
Moves(m) ==
    \/ \E i \in Invitations :
          /\ Invited[i] = m
          /\ \/ Invite(i) \/ Overdue(i) \/ Expire(i) \/ ReadForAcceptance(i)
             \/ change[i].read.status = "active" /\ ClearForAcceptance(i)
    \/ \E u \in Updates : \/ ReadForUpdate(u, m)
                          \/ change[u].member = m /\ VersionConflict(u)
    \/ \E x \in Changes : change[x].member = m /\ (Commit(x) \/ Abort(x))

MembershipNext == \E m \in Members : Locks(m) \/ Moves(m)

MembershipSpec == MembershipInit /\ [][MembershipNext]_membershipVars

-----------------------------------------------------------------------------
(* What must always hold                                                    *)

\* GivenOnce: an invitation gives its roles in the one step that accepts it, however
\* many acceptances of it come, and together with whatever updates; one that was
\* accepted or has expired stays so.
GivenOnce ==
    [][\A i \in Invitations :
          /\ invitation[i].status \in {"accepted", "expired"} =>
                invitation'[i].status = invitation[i].status
          /\ \A m \in Members : \A r \in roles'[m] \ roles[m] :
                r.by = i => /\ m = Invited[i] /\ r.role \in InvitedRoles[i]
                            /\ invitation[i].status = "active"
                            /\ invitation'[i].status = "accepted"]_membershipVars

\* RolesAreOneDecision: the roles of a membership are those of one acceptance or one
\* update ("Concurrent invitation acceptance and role changes remain single-effect
\* and auditable").
RolesAreOneDecision ==
    \A m \in Members : \A r, s \in roles[m] : r.by = s.by

=============================================================================
