-------------------------- MODULE MembershipProofs --------------------------
(***************************************************************************)
(* Proofs about Memberships, for any sets of members, invitations, updates *)
(* and roles, and any bound: which roles a member may have at any moment,  *)
(* whatever acceptances and updates run together, and what holds besides   *)
(* as long as no acceptance runs together with another change of the same  *)
(* membership.                                                             *)
(***************************************************************************)
EXTENDS Memberships, TLAPS

-----------------------------------------------------------------------------
(* What is proved                                                           *)

\* RolesStand: a person has a membership exactly if they have a role: an update never
\* leaves a member without one, and nobody has a role without a membership.
RolesStand == \A m \in Members : member[m].status = "none" <=> roles[m] = {}

\* Accounted: a role that came with an invitation is one it named, is held by the
\* person it named, and the invitation is accepted.
AccountedBy(m, r) ==
    r.by \in Invitations => /\ m = Invited[r.by] /\ r.role \in InvitedRoles[r.by]
                            /\ invitation[r.by].status = "accepted"

Accounted == \A m \in Members : \A r \in roles[m] : AccountedBy(m, r)

\* A change of m's membership is in progress.
Busy(x, m) == change[x].pc # "idle" /\ change[x].member = m

\* AcceptancesApart: while an acceptance is in progress no other change of the same
\* membership is.  Nothing in the code sees to it: the theorems below that assume it
\* say what the code leaves to chance otherwise.
AcceptancesApart ==
    \A i \in Invitations, x \in Changes, m \in Members : Busy(i, m) /\ Busy(x, m) => x = i

\* RowsCount: whatever changes a membership's row counts it up by one.
Counts(m) == member'[m] # member[m] => member'[m].row = member[m].row + 1
RowsCount == [][\A m \in Members : Counts(m)]_membershipVars

-----------------------------------------------------------------------------
(* The inductive invariant.                                                 *)

\* A change in progress is of a member, who has a membership by now if there was one as
\* it was read; an acceptance holds the invitation, which is open, from its first step
\* on; an update is of a membership there is, and deletes no roles if it gives none.
ChangeHolds(x) ==
    change[x].pc # "idle" =>
        /\ change[x].member \in Members
        /\ change[x].read.status # "none" => member[change[x].member].status # "none"
        /\ x \in Updates => change[x].read.status # "none"
        /\ change[x].pc = "write" /\ change[x].roles = {} => change[x].gone = {}
        /\ x \in Invitations =>
              /\ invitation[x].status = "active"
              /\ change[x].member = Invited[x]
              /\ change[x].roles = InvitedRoles[x]

\* x holds the row of the membership it changes.
HoldsRow(x) == change[x].pc = "write" /\ WritesMember(x)

\* One change holds a membership's row at a time.
RowHeldOnce ==
    \A x, y \in Changes :
        HoldsRow(x) /\ HoldsRow(y) /\ change[x].member = change[y].member => x = y

MembershipInv ==
    /\ MembershipTypeOK
    /\ \A x \in Changes : ChangeHolds(x)
    /\ RowHeldOnce
    /\ RolesStand
    /\ Accounted

\* What a change has read is still so, as long as acceptances stay apart: the
\* membership, as an acceptance read it; the row it is to write; and the roles it is to
\* delete.
ReadStands(x) ==
    LET m == change[x].member IN
    /\ x \in Invitations /\ change[x].pc = "read" => change[x].read = member[m]
    /\ HoldsRow(x) => change[x].read.row = member[m].row
    /\ change[x].pc = "write" /\ change[x].roles # {} => change[x].gone = roles[m]

ApartInv ==
    /\ \A x \in Changes : ReadStands(x)
    /\ RolesAreOneDecision

-----------------------------------------------------------------------------
(* What the actions do.                                                     *)

\* An invitation is no update, and None is no member.
LEMMA Apart ==
    /\ \A i \in Invitations : i \notin Updates /\ i \in Changes
    /\ \A u \in Updates : u \in Changes /\ u \notin Invitations
    /\ None \notin Members
    /\ \A i \in Invitations :
          Invited[i] \in Members /\ InvitedRoles[i] \in SUBSET Roles /\ InvitedRoles[i] # {}
  BY ChangesAssumption, InvitedAssumption, NoMemberAssumption
  DEF ChangesAssumption, InvitedAssumption, NoMemberAssumption, Changes

LEMMA StillType == Still \in ChangeStates
  BY DEF Still, ChangeStates, NoMember, MemberRows

\* One change goes on.
Changed(x) ==
    /\ change' \in [Changes -> ChangeStates]
    /\ \A y \in Changes : y # x => change'[y] = change[y]

LEMMA ProceedsType ==
    ASSUME MembershipTypeOK, NEW x \in Changes, NEW state \in ChangeStates, Proceeds(x, state)
    PROVE  Changed(x) /\ change'[x] = state
  BY DEF MembershipTypeOK, Proceeds, Changed

\* What a change in progress may go on to without a trace in the tables.
Reading(x) ==
    /\ Changed(x) /\ UNCHANGED membership
    /\ change'[x].pc = "read"
    /\ change[x].pc = "idle"
    /\ change'[x].member \in Members
    /\ change'[x].read = member[change'[x].member]
    /\ x \in Updates => change'[x].read.status # "none"
    /\ x \in Invitations =>
          /\ invitation[x].status = "active"
          /\ change'[x].member = Invited[x]
          /\ change'[x].roles = InvitedRoles[x]

Clearing(x) ==
    LET m == change[x].member IN
    /\ Changed(x) /\ UNCHANGED membership
    /\ change[x].pc = "read" /\ change'[x].pc = "write"
    /\ change'[x].member = m
    /\ change'[x].roles = change[x].roles
    /\ change'[x].read \in {change[x].read, member[m]}
    /\ x \in Updates => /\ change'[x].read = change[x].read
                        /\ change[x].read.row = member[m].row
    /\ WritesMember(x)' => RowFree(m)
    /\ change'[x].gone = IF change[x].roles = {} THEN {} ELSE roles[m]

Leaving(x) ==
    /\ Changed(x) /\ UNCHANGED membership
    /\ change'[x] = Still

\* What moves an invitation that no acceptance holds.
Asking(i) ==
    /\ UNCHANGED <<member, roles, change>>
    /\ invitation' \in [Invitations -> InvitationRows]
    /\ \A j \in Invitations : j # i => invitation'[j] = invitation[j]
    /\ \/ invitation[i].status = "none" /\ invitation'[i].status = "active"
       \/ invitation'[i].status = invitation[i].status
       \/ /\ invitation[i].status = "active" /\ invitation'[i].status = "expired"
          /\ change[i].pc = "idle"

LEMMA AskingEffect ==
    ASSUME MembershipInv, NEW i \in Invitations, Invite(i) \/ Overdue(i) \/ Expire(i)
    PROVE  Asking(i)
<1>0. invitation \in [Invitations -> InvitationRows]
  BY DEF MembershipInv, MembershipTypeOK
<1>1. ASSUME NEW status \in {"active", "expired"},
             invitation' = [invitation EXCEPT ![i].status = status]
      PROVE  /\ invitation' \in [Invitations -> InvitationRows]
             /\ \A j \in Invitations : j # i => invitation'[j] = invitation[j]
             /\ invitation'[i].status = status
  BY <1>0, <1>1 DEF InvitationRows
<1>2. CASE Invite(i)
  BY <1>1, <1>2 DEF Invite, Asking
<1>3. CASE Overdue(i)
  BY <1>0, <1>3 DEF Overdue, Asking, InvitationRows
<1>4. CASE Expire(i)
  BY <1>1, <1>4 DEF Expire, Asking
<1>. QED BY <1>2, <1>3, <1>4

LEMMA ReadingEffect ==
    ASSUME MembershipInv, NEW x \in Changes,
           \/ x \in Invitations /\ ReadForAcceptance(x)
           \/ x \in Updates /\ \E m \in Members : ReadForUpdate(x, m)
    PROVE  Reading(x)
<1>0. MembershipTypeOK
  BY DEF MembershipInv
<1>1. ASSUME NEW m \in Members, NEW status \in {"active", "inactive", None}, NEW codes \in SUBSET Roles,
             Proceeds(x, [Still EXCEPT !.pc = "read", !.member = m, !.read = member[m],
                                       !.status = status, !.roles = codes])
      PROVE  /\ Changed(x) /\ change'[x].pc = "read"
             /\ change'[x].member = m /\ change'[x].read = member[m]
  <2>. DEFINE state == [Still EXCEPT !.pc = "read", !.member = m, !.read = member[m],
                                     !.status = status, !.roles = codes]
  <2>1. member[m] \in MemberRows
    BY <1>0 DEF MembershipTypeOK
  <2>2. /\ state \in ChangeStates
        /\ state.pc = "read" /\ state.member = m /\ state.read = member[m]
    BY <2>1 DEF Still, ChangeStates
  <2>3. Proceeds(x, state)
    BY <1>1
  <2>. HIDE DEF state
  <2>. QED BY <1>0, <2>2, <2>3, ProceedsType
<1>2. CASE x \in Invitations /\ ReadForAcceptance(x)
  <2>. DEFINE state == [Still EXCEPT !.pc = "read", !.member = Invited[x],
                                     !.read = member[Invited[x]], !.roles = InvitedRoles[x]]
  <2>1. Invited[x] \in Members /\ InvitedRoles[x] \in SUBSET Roles /\ x \notin Updates
    BY <1>2, Apart
  <2>2. member[Invited[x]] \in MemberRows
    BY <1>0, <2>1 DEF MembershipTypeOK
  <2>3. /\ state \in ChangeStates
        /\ state.pc = "read" /\ state.member = Invited[x] /\ state.roles = InvitedRoles[x]
        /\ state.read = member[Invited[x]]
    BY <2>1, <2>2 DEF Still, ChangeStates
  <2>4. Proceeds(x, state) /\ UNCHANGED membership /\ change[x].pc = "idle"
        /\ invitation[x].status = "active"
    BY <1>2 DEF ReadForAcceptance
  <2>. HIDE DEF state
  <2>. QED BY <1>0, <2>1, <2>3, <2>4, ProceedsType DEF Reading
<1>3. ASSUME x \in Updates, NEW m \in Members, ReadForUpdate(x, m)
      PROVE  Reading(x)
  <2>1. PICK status \in {"active", "inactive", None}, codes \in SUBSET Roles :
          Proceeds(x, [Still EXCEPT !.pc = "read", !.member = m, !.read = member[m],
                                    !.status = status, !.roles = codes])
    BY <1>3 DEF ReadForUpdate
  <2>2. UNCHANGED membership /\ change[x].pc = "idle" /\ member[m].status # "none"
    BY <1>3 DEF ReadForUpdate
  <2>3. /\ Changed(x) /\ change'[x].pc = "read"
        /\ change'[x].member = m /\ change'[x].read = member[m]
    BY <1>1, <2>1
  <2>. QED BY <1>3, <2>2, <2>3, Apart DEF Reading
<1>. QED BY <1>2, <1>3

LEMMA ClearingEffect ==
    ASSUME MembershipInv, NEW x \in Changes,
           \/ x \in Invitations /\ ClearForAcceptance(x)
           \/ x \in Updates /\ ClearForUpdate(x)
    PROVE  /\ Clearing(x)
           /\ x \in Invitations /\ change[x].read.status = "active" => ~WritesMember(x)'
<1>. DEFINE m == change[x].member
            gone == IF change[x].roles = {} THEN {} ELSE roles[m]
<1>0. MembershipTypeOK /\ change[x] \in ChangeStates /\ ChangeHolds(x)
  BY DEF MembershipInv, MembershipTypeOK
<1>1. change[x].pc = "read" /\ UNCHANGED membership /\ m \in Members
  BY <1>0 DEF ClearForAcceptance, ClearForUpdate, ChangeHolds
<1>2. member[m] \in MemberRows /\ gone \in SUBSET RoleRows
  BY <1>0, <1>1 DEF MembershipTypeOK
<1>3. CASE x \in Invitations /\ ClearForAcceptance(x)
  <2>. DEFINE read == Found(x)
              state == [change[x] EXCEPT !.pc = "write", !.read = read, !.gone = gone]
  <2>1. /\ m = Invited[x] /\ change[x].roles = InvitedRoles[x] /\ InvitedRoles[x] # {}
        /\ x \notin Updates
    BY <1>0, <1>1, <1>3, Apart DEF ChangeHolds
  <2>2. /\ read \in {change[x].read, member[m]}
        /\ change[x].read.status = "active" => read = change[x].read
    BY <2>1 DEF Found
  <2>3. read \in MemberRows
    BY <1>0, <1>2, <2>2 DEF ChangeStates
  <2>4. Proceeds(x, state)
    BY <1>3, <2>1 DEF ClearForAcceptance
  <2>5. change[x].read.status # "active" => RowFree(m)
    BY <1>3, <2>1 DEF ClearForAcceptance
  <2>. HIDE DEF gone, read
  <2>6. /\ state \in ChangeStates
        /\ state.pc = "write" /\ state.member = m /\ state.roles = change[x].roles
        /\ state.read = read /\ state.gone = gone
    BY <1>0, <1>2, <2>3 DEF ChangeStates
  <2>. HIDE DEF state
  <2>7. Changed(x) /\ change'[x] = state
    BY <1>0, <2>4, <2>6, ProceedsType
  <2>8. change[x].read.status = "active" => ~WritesMember(x)'
    BY <2>1, <2>2, <2>6, <2>7 DEF WritesMember
  <2>. QED BY <1>1, <2>1, <2>2, <2>5, <2>6, <2>7, <2>8 DEF Clearing, gone
<1>4. CASE x \in Updates /\ ClearForUpdate(x)
  <2>. DEFINE state == [change[x] EXCEPT !.pc = "write", !.gone = gone]
  <2>1. Proceeds(x, state) /\ RowFree(m) /\ change[x].read.row = member[m].row
    BY <1>4 DEF ClearForUpdate
  <2>. HIDE DEF gone
  <2>2. /\ state \in ChangeStates
        /\ state.pc = "write" /\ state.member = m /\ state.roles = change[x].roles
        /\ state.read = change[x].read /\ state.gone = gone
    BY <1>0, <1>2 DEF ChangeStates
  <2>. HIDE DEF state
  <2>3. Changed(x) /\ change'[x] = state
    BY <1>0, <2>1, <2>2, ProceedsType
  <2>. QED BY <1>1, <1>4, <2>1, <2>2, <2>3, Apart DEF Clearing, gone
<1>. QED BY <1>3, <1>4

LEMMA LeavingEffect ==
    ASSUME MembershipInv, NEW x \in Changes, VersionConflict(x) \/ Abort(x)
    PROVE  Leaving(x)
  BY StillType, ProceedsType DEF MembershipInv, VersionConflict, Abort, Leaving

\* A commit writes typed rows: the membership's unless the change leaves it, the roles
\* it keeps and gives, and the invitation it accepts.
Committing(x, m) ==
    /\ Changed(x) /\ change'[x] = Still
    /\ m = change[x].member /\ m \in Members
    /\ change[x].pc = "write"
    /\ member' \in [Members -> MemberRows]
    /\ roles' \in [Members -> SUBSET RoleRows]
    /\ invitation' \in [Invitations -> InvitationRows]
    /\ \A n \in Members : n # m \/ ~WritesMember(x) => member'[n] = member[n]
    /\ WritesMember(x) => member'[m] = Written(x)
    /\ \A n \in Members : n # m => roles'[n] = roles[n]
    /\ roles'[m] = Kept(x) \cup Given(x)
    /\ \A i \in Invitations : i # x => invitation'[i] = invitation[i]
    /\ x \in Invitations => invitation'[x].status = "accepted"

LEMMA CommittingEffect ==
    ASSUME MembershipInv, NEW x \in Changes, Commit(x)
    PROVE  Committing(x, change[x].member)
<1>. DEFINE m == change[x].member
<1>0. /\ MembershipTypeOK /\ change[x] \in ChangeStates /\ change[x].pc = "write" /\ m \in Members
      /\ member \in [Members -> MemberRows] /\ roles \in [Members -> SUBSET RoleRows]
      /\ invitation \in [Invitations -> InvitationRows]
  BY DEF MembershipInv, MembershipTypeOK, Commit, ChangeHolds
<1>1. Written(x) \in MemberRows
  <2>1. change[x].read \in MemberRows /\ change[x].status \in {"active", "inactive", None}
    BY <1>0 DEF ChangeStates
  <2>. QED BY <2>1 DEF Written, MemberRows
<1>2. /\ member' \in [Members -> MemberRows]
      /\ \A n \in Members : n # m \/ ~WritesMember(x) => member'[n] = member[n]
      /\ WritesMember(x) => member'[m] = Written(x)
  <2>. DEFINE row == Written(x)
  <2>1. member' = IF WritesMember(x) THEN [member EXCEPT ![m] = row] ELSE member
    BY DEF Commit
  <2>2. row \in MemberRows
    BY <1>1
  <2>. HIDE DEF m, row
  <2>3. /\ member' \in [Members -> MemberRows]
        /\ \A n \in Members : n # m \/ ~WritesMember(x) => member'[n] = member[n]
        /\ WritesMember(x) => member'[m] = row
    BY <1>0, <2>1, <2>2
  <2>. QED BY <2>3 DEF row
<1>3. Given(x) \in SUBSET RoleRows /\ Kept(x) \in SUBSET RoleRows
  <2>1. change[x].roles \in SUBSET Roles
    BY <1>0 DEF ChangeStates
  <2>2. Given(x) \in SUBSET RoleRows
    BY <2>1 DEF Given, RoleRows
  <2>. QED BY <1>0, <2>2 DEF Kept
<1>4. /\ roles' \in [Members -> SUBSET RoleRows]
      /\ \A n \in Members : n # m => roles'[n] = roles[n]
      /\ roles'[m] = Kept(x) \cup Given(x)
  <2>. DEFINE new == Kept(x) \cup Given(x)
  <2>1. roles' = [roles EXCEPT ![m] = new]
    BY DEF Commit
  <2>2. new \in SUBSET RoleRows
    BY <1>3
  <2>. HIDE DEF m, new
  <2>3. roles' \in [Members -> SUBSET RoleRows] /\ roles'[m] = new
        /\ \A n \in Members : n # m => roles'[n] = roles[n]
    BY <1>0, <2>1, <2>2
  <2>. QED BY <2>3 DEF new
<1>5. /\ invitation' \in [Invitations -> InvitationRows]
      /\ \A i \in Invitations : i # x => invitation'[i] = invitation[i]
      /\ x \in Invitations => invitation'[x].status = "accepted"
  <2>1. CASE x \in Invitations
    <3>1. invitation' = [invitation EXCEPT ![x].status = "accepted"]
      BY <2>1 DEF Commit
    <3>. QED BY <1>0, <2>1, <3>1 DEF InvitationRows
  <2>2. CASE x \notin Invitations
    <3>1. invitation' = invitation
      BY <2>2 DEF Commit
    <3>. QED BY <1>0, <2>2, <3>1
  <2>. QED BY <2>1, <2>2
<1>6. Changed(x) /\ change'[x] = Still
  BY <1>0, StillType, ProceedsType DEF Commit
<1>. QED BY <1>0, <1>2, <1>4, <1>5, <1>6 DEF Committing

\* Every step takes a membership's row, or does what the effects above say.
Taking(m) == \E x \in Changes : Clearing(x) /\ change[x].member = m

Moving ==
    \/ \E i \in Invitations : Asking(i)
    \/ \E x \in Changes :
          \/ Reading(x)
          \/ Clearing(x) /\ ~WritesMember(x)'
          \/ Leaving(x)
          \/ Committing(x, change[x].member)

LEMMA LocksCases ==
    ASSUME MembershipInv, NEW m \in Members, Locks(m)
    PROVE  Taking(m)
<1>1. ASSUME NEW i \in Invitations, Invited[i] = m, ClearForAcceptance(i)
      PROVE  Taking(m)
  <2>1. i \in Changes /\ ChangeHolds(i)
    BY Apart DEF MembershipInv
  <2>2. change[i].member = m
    BY <1>1, <2>1 DEF ClearForAcceptance, ChangeHolds
  <2>. QED BY <1>1, <2>1, <2>2, ClearingEffect DEF Taking
<1>2. ASSUME NEW u \in Updates, change[u].member = m, ClearForUpdate(u)
      PROVE  Taking(m)
  BY <1>2, ClearingEffect, Apart DEF Taking
<1>. QED BY <1>1, <1>2 DEF Locks

LEMMA MovesCases ==
    ASSUME MembershipInv, NEW m \in Members, Moves(m)
    PROVE  Moving
<1>1. ASSUME NEW i \in Invitations,
             \/ Invite(i) \/ Overdue(i) \/ Expire(i) \/ ReadForAcceptance(i)
             \/ change[i].read.status = "active" /\ ClearForAcceptance(i)
      PROVE  Moving
  <2>1. i \in Changes
    BY Apart
  <2>2. CASE Invite(i) \/ Overdue(i) \/ Expire(i)
    BY <2>2, AskingEffect DEF Moving
  <2>3. CASE ReadForAcceptance(i)
    BY <2>1, <2>3, ReadingEffect DEF Moving
  <2>4. CASE change[i].read.status = "active" /\ ClearForAcceptance(i)
    BY <2>1, <2>4, ClearingEffect DEF Moving
  <2>. QED BY <1>1, <2>2, <2>3, <2>4
<1>2. ASSUME NEW u \in Updates, ReadForUpdate(u, m) \/ VersionConflict(u)
      PROVE  Moving
  BY <1>2, Apart, ReadingEffect, LeavingEffect DEF Moving
<1>3. ASSUME NEW x \in Changes, Commit(x) \/ Abort(x)
      PROVE  Moving
  BY <1>3, CommittingEffect, LeavingEffect DEF Moving
<1>. QED BY <1>1, <1>2, <1>3 DEF Moves

-----------------------------------------------------------------------------
(* The invariant is kept.                                                   *)

\* What GivenOnce asks of one step.
GivesOnce(i) ==
    /\ invitation[i].status \in {"accepted", "expired"} =>
          invitation'[i].status = invitation[i].status
    /\ \A m \in Members : \A r \in roles'[m] \ roles[m] :
          r.by = i => /\ m = Invited[i] /\ r.role \in InvitedRoles[i]
                      /\ invitation[i].status = "active"
                      /\ invitation'[i].status = "accepted"

\* A change that is not about to write a membership leaves its row free.
LEMMA RowStaysFree ==
    ASSUME NEW x \in Changes, Changed(x), NEW m, RowFree(m),
           \/ change'[x].pc # "write"
           \/ change'[x].member # m
           \/ ~WritesMember(x)'
    PROVE  RowFree(m)'
<1>1. \A y \in Changes : y # x => WritesMember(y)' = WritesMember(y)
  BY DEF Changed, WritesMember
<1>. QED BY <1>1 DEF RowFree, Changed

\* The other changes hold the rows they held.
LEMMA RowHeldOnceKept ==
    ASSUME NEW x \in Changes, Changed(x), RowHeldOnce,
           HoldsRow(x)' => RowFree(change'[x].member)
    PROVE  RowHeldOnce'
<1>1. \A y \in Changes : y # x => change'[y] = change[y] /\ (HoldsRow(y)' <=> HoldsRow(y))
  BY DEF Changed, HoldsRow, WritesMember
<1>2. \A y \in Changes : HoldsRow(x)' /\ HoldsRow(y) => change[y].member # change'[x].member
  BY DEF RowFree, HoldsRow
<1>3. ASSUME NEW y \in Changes, NEW z \in Changes,
             HoldsRow(y)', HoldsRow(z)', change'[y].member = change'[z].member
      PROVE  y = z
  <2>1. CASE y # x /\ z # x
    <3>1. HoldsRow(y) /\ HoldsRow(z) /\ change[y].member = change[z].member
      BY <1>1, <1>3, <2>1
    <3>. QED BY <3>1 DEF RowHeldOnce
  <2>2. CASE y = x /\ z # x
    BY <1>1, <1>2, <1>3, <2>2
  <2>3. CASE y # x /\ z = x
    BY <1>1, <1>2, <1>3, <2>3
  <2>. QED BY <2>1, <2>2, <2>3
<1>. QED BY <1>3 DEF RowHeldOnce

LEMMA AskingKeeps ==
    ASSUME MembershipInv, NEW i \in Invitations, Asking(i)
    PROVE  MembershipInv' /\ \A j \in Invitations : GivesOnce(j)
<1>1. MembershipTypeOK'
  BY DEF MembershipInv, MembershipTypeOK, Asking
<1>2. \A x \in Changes : ChangeHolds(x)'
  BY DEF MembershipInv, ChangeHolds, Asking
<1>3. RowHeldOnce' /\ RolesStand'
  BY DEF MembershipInv, RowHeldOnce, HoldsRow, WritesMember, RolesStand, Asking
<1>4. Accounted'
  <2>1. \A j \in Invitations :
          invitation[j].status = "accepted" => invitation'[j].status = "accepted"
    BY DEF Asking
  <2>. QED BY <2>1 DEF MembershipInv, Accounted, AccountedBy, Asking
<1>5. \A j \in Invitations : GivesOnce(j)
  BY DEF Asking, GivesOnce
<1>. QED BY <1>1, <1>2, <1>3, <1>4, <1>5 DEF MembershipInv

LEMMA QuietChange ==
    ASSUME MembershipInv, NEW x \in Changes, Changed(x), UNCHANGED membership, ChangeHolds(x)',
           HoldsRow(x)' => RowFree(change'[x].member)
    PROVE  MembershipInv' /\ \A j \in Invitations : GivesOnce(j)
<1>0. UNCHANGED <<member, roles, invitation>>
  BY DEF membership
<1>1. MembershipTypeOK'
  BY <1>0 DEF MembershipInv, MembershipTypeOK, Changed
<1>2. \A y \in Changes : ChangeHolds(y)'
  BY <1>0 DEF MembershipInv, ChangeHolds, Changed
<1>3. RowHeldOnce'
  BY RowHeldOnceKept DEF MembershipInv
<1>4. RolesStand' /\ Accounted'
  BY <1>0 DEF MembershipInv, RolesStand, Accounted, AccountedBy
<1>5. \A j \in Invitations : GivesOnce(j)
  BY <1>0 DEF GivesOnce
<1>. QED BY <1>1, <1>2, <1>3, <1>4, <1>5 DEF MembershipInv

LEMMA ReadingKeeps ==
    ASSUME MembershipInv, NEW x \in Changes, Reading(x)
    PROVE  MembershipInv' /\ \A j \in Invitations : GivesOnce(j)
<1>1. ChangeHolds(x)'
  BY DEF Reading, ChangeHolds, membership
<1>2. ~HoldsRow(x)'
  BY DEF Reading, HoldsRow
<1>. QED BY <1>1, <1>2, QuietChange DEF Reading

LEMMA ClearingKeeps ==
    ASSUME MembershipInv, NEW x \in Changes, Clearing(x)
    PROVE  MembershipInv' /\ \A j \in Invitations : GivesOnce(j)
<1>1. ChangeHolds(x)
  BY DEF MembershipInv
<1>2. ChangeHolds(x)'
  BY <1>1 DEF Clearing, ChangeHolds, membership
<1>3. HoldsRow(x)' => RowFree(change'[x].member)
  BY DEF Clearing, HoldsRow
<1>. QED BY <1>2, <1>3, QuietChange DEF Clearing

LEMMA LeavingKeeps ==
    ASSUME MembershipInv, NEW x \in Changes, Leaving(x)
    PROVE  MembershipInv' /\ \A j \in Invitations : GivesOnce(j)
<1>1. ChangeHolds(x)' /\ ~HoldsRow(x)'
  BY DEF Leaving, ChangeHolds, HoldsRow, Still
<1>. QED BY <1>1, QuietChange DEF Leaving

\* What a commit leaves in force: memberships there are stay, the one it is of has roles,
\* and invitations that were accepted stay so.
LEMMA CommitStands ==
    ASSUME MembershipInv, NEW x \in Changes, NEW m, Committing(x, m)
    PROVE  /\ \A n \in Members : member[n].status # "none" => member'[n].status # "none"
           /\ member'[m].status # "none" /\ roles'[m] # {}
           /\ \A i \in Invitations :
                 invitation[i].status = "accepted" => invitation'[i].status = "accepted"
           /\ \A r \in Given(x) : r.by = x /\ r.role \in change[x].roles
<1>0. /\ ChangeHolds(x) /\ change[x] \in ChangeStates /\ change[x].pc = "write"
      /\ m = change[x].member /\ m \in Members /\ RolesStand
  BY DEF MembershipInv, MembershipTypeOK, Committing
<1>1. /\ change[x].read.status # "none" => member[m].status # "none"
      /\ x \in Updates => change[x].read.status # "none"
      /\ change[x].roles = {} => change[x].gone = {}
      /\ x \in Invitations => change[x].roles = InvitedRoles[x]
  BY <1>0 DEF ChangeHolds
<1>2. member'[m].status # "none"
  <2>1. CASE WritesMember(x)
    <3>1. Written(x).status # "none"
      BY <1>0, <1>1, NoMemberAssumption DEF Written, ChangeStates, NoMemberAssumption
    <3>. QED BY <2>1, <3>1 DEF Committing
  <2>2. CASE ~WritesMember(x)
    BY <1>0, <1>1, <2>2 DEF WritesMember, Committing
  <2>. QED BY <2>1, <2>2
<1>3. roles'[m] # {}
  <2>1. CASE change[x].roles = {}
    <3>1. x \in Updates /\ Kept(x) = roles[m]
      BY <1>0, <1>1, <2>1, Apart DEF Kept, Changes
    <3>. QED BY <1>0, <1>1, <3>1 DEF RolesStand, Committing
  <2>2. ASSUME NEW role \in change[x].roles
        PROVE  roles'[m] # {}
    <3>1. [role |-> role, by |-> x] \in Given(x)
      BY <2>2 DEF Given
    <3>. QED BY <3>1 DEF Committing
  <2>. QED BY <2>1, <2>2
<1>4. \A n \in Members : member[n].status # "none" => member'[n].status # "none"
  BY <1>2 DEF Committing
<1>5. \A i \in Invitations :
        invitation[i].status = "accepted" => invitation'[i].status = "accepted"
  BY DEF Committing
<1>6. \A r \in Given(x) : r.by = x /\ r.role \in change[x].roles
  BY DEF Given
<1>. QED BY <1>2, <1>3, <1>4, <1>5, <1>6

LEMMA CommittingKeeps ==
    ASSUME MembershipInv, NEW x \in Changes, NEW m, Committing(x, m)
    PROVE  MembershipInv' /\ \A j \in Invitations : GivesOnce(j)
<1>0. /\ Changed(x) /\ change'[x].pc = "idle"
      /\ m = change[x].member /\ m \in Members /\ change[x].pc = "write"
      /\ x \in Invitations => /\ invitation[x].status = "active" /\ invitation'[x].status = "accepted"
                              /\ m = Invited[x] /\ change[x].roles = InvitedRoles[x]
  BY DEF MembershipInv, ChangeHolds, Committing, Still
<1>1. MembershipTypeOK'
  BY DEF MembershipTypeOK, Committing, Changed
<1>2. ASSUME NEW y \in Changes
      PROVE  ChangeHolds(y)'
  <2>1. CASE y = x
    BY <1>0, <2>1 DEF ChangeHolds
  <2>2. CASE y # x
    <3>1. change'[y] = change[y] /\ ChangeHolds(y)
      BY <1>0, <2>2 DEF Changed, MembershipInv
    <3>2. y \in Invitations => invitation'[y] = invitation[y]
      BY <2>2 DEF Committing
    <3>. QED BY <3>1, <3>2, CommitStands DEF ChangeHolds
  <2>. QED BY <2>1, <2>2
<1>3. RowHeldOnce'
  BY <1>0, RowHeldOnceKept DEF MembershipInv, HoldsRow
<1>4. RolesStand'
  <2>1. ASSUME NEW n \in Members, n # m
        PROVE  member'[n] = member[n] /\ roles'[n] = roles[n]
    BY <2>1 DEF Committing
  <2>. QED BY <2>1, CommitStands DEF MembershipInv, RolesStand
<1>5. ASSUME NEW n \in Members, NEW r \in roles'[n]
      PROVE  AccountedBy(n, r)'
  <2>1. CASE r \in roles[n]
    <3>1. AccountedBy(n, r)
      BY <2>1 DEF MembershipInv, Accounted
    <3>. QED BY <3>1, CommitStands DEF AccountedBy
  <2>2. CASE r \notin roles[n]
    <3>1. n = m /\ r \in Given(x)
      BY <1>0, <2>2 DEF Committing, Kept
    <3>2. r.by = x /\ r.role \in change[x].roles
      BY <3>1, CommitStands
    <3>. QED BY <1>0, <3>1, <3>2 DEF AccountedBy
  <2>. QED BY <2>1, <2>2
<1>6. ASSUME NEW j \in Invitations
      PROVE  GivesOnce(j)
  <2>1. \A n \in Members : \A r \in roles'[n] \ roles[n] :
          n = m /\ r.by = x /\ r.role \in change[x].roles
    <3>1. ASSUME NEW n \in Members, NEW r \in roles'[n] \ roles[n]
          PROVE  n = m /\ r \in Given(x)
      BY <1>0 DEF Committing, Kept
    <3>. QED BY <3>1, CommitStands
  <2>2. CASE j = x
    BY <1>0, <2>1, <2>2 DEF GivesOnce
  <2>3. CASE j # x
    BY <2>1, <2>3 DEF GivesOnce, Committing
  <2>. QED BY <2>2, <2>3
<1>. QED BY <1>1, <1>2, <1>3, <1>4, <1>5, <1>6 DEF MembershipInv, Accounted

LEMMA MovingKeeps ==
    ASSUME MembershipInv, Moving \/ \E m \in Members : Taking(m)
    PROVE  MembershipInv' /\ \A j \in Invitations : GivesOnce(j)
  BY AskingKeeps, ReadingKeeps, ClearingKeeps, LeavingKeeps, CommittingKeeps DEF Moving, Taking

LEMMA MembershipNextCases ==
    ASSUME MembershipInv, MembershipNext
    PROVE  Moving \/ \E m \in Members : Taking(m)
  BY LocksCases, MovesCases DEF MembershipNext

LEMMA MembershipsSame ==
    ASSUME MembershipInv, UNCHANGED membershipVars
    PROVE  MembershipInv'
<1>0. UNCHANGED <<member, roles, invitation, change>>
  BY DEF membershipVars
<1>1. MembershipTypeOK' /\ \A x \in Changes : ChangeHolds(x)'
  BY <1>0 DEF MembershipInv, MembershipTypeOK, ChangeHolds
<1>2. RowHeldOnce' /\ RolesStand' /\ Accounted'
  BY <1>0 DEF MembershipInv, RowHeldOnce, HoldsRow, WritesMember, RolesStand, Accounted, AccountedBy
<1>. QED BY <1>1, <1>2 DEF MembershipInv

LEMMA MembershipsStart == MembershipInit => MembershipInv /\ ApartInv
<1>. SUFFICES ASSUME MembershipInit PROVE MembershipInv /\ ApartInv
  OBVIOUS
<1>0. /\ member = [m \in Members |-> NoMember]
      /\ roles = [m \in Members |-> {}]
      /\ invitation = [i \in Invitations |-> [status |-> "none", overdue |-> FALSE]]
      /\ change = [x \in Changes |-> Still]
  BY DEF MembershipInit
<1>1. MembershipTypeOK
  <2>1. NoMember \in MemberRows
    BY DEF NoMember, MemberRows
  <2>2. [status |-> "none", overdue |-> FALSE] \in InvitationRows
    BY DEF InvitationRows
  <2>. QED BY <1>0, <2>1, <2>2, StillType DEF MembershipTypeOK
<1>2. \A x \in Changes : ChangeHolds(x) /\ ReadStands(x) /\ ~HoldsRow(x)
  BY <1>0 DEF ChangeHolds, ReadStands, HoldsRow, Still
<1>3. RolesStand /\ Accounted /\ RolesAreOneDecision
  BY <1>0 DEF RolesStand, Accounted, RolesAreOneDecision, NoMember
<1>. QED BY <1>1, <1>2, <1>3 DEF MembershipInv, ApartInv, RowHeldOnce

-----------------------------------------------------------------------------
(* As long as acceptances stay apart.                                       *)

\* A change that commits on a membership is the only one whose reading it could outdate.
LEMMA CommitAlone ==
    ASSUME MembershipInv, AcceptancesApart, NEW x \in Changes, NEW m, Committing(x, m),
           NEW y \in Changes, y # x, Busy(y, m)
    PROVE  x \in Updates /\ y \in Updates /\ ~HoldsRow(y)
<1>0. Busy(x, m) /\ m \in Members /\ change[x].pc = "write" /\ change[x].member = m
  BY DEF Committing, Busy
<1>1. x \notin Invitations /\ y \notin Invitations
  BY <1>0 DEF AcceptancesApart
<1>2. x \in Updates /\ y \in Updates
  BY <1>1 DEF Changes
<1>3. HoldsRow(x)
  BY <1>0, <1>2 DEF HoldsRow, WritesMember
<1>. QED BY <1>0, <1>2, <1>3 DEF MembershipInv, RowHeldOnce, Busy

LEMMA QuietApart ==
    ASSUME MembershipInv, ApartInv, NEW x \in Changes, Changed(x), UNCHANGED membership,
           ReadStands(x)'
    PROVE  ApartInv' /\ \A m \in Members : Counts(m)
<1>0. UNCHANGED <<member, roles, invitation>>
  BY DEF membership
<1>1. ASSUME NEW y \in Changes, y # x
      PROVE  ReadStands(y)'
  <2>1. change'[y] = change[y] /\ ReadStands(y)
    BY <1>1 DEF Changed, ApartInv
  <2>. QED BY <1>0, <2>1 DEF ReadStands, HoldsRow, WritesMember
<1>2. RolesAreOneDecision'
  BY <1>0 DEF ApartInv, RolesAreOneDecision
<1>3. \A m \in Members : Counts(m)
  BY <1>0 DEF Counts
<1>. QED BY <1>1, <1>2, <1>3 DEF ApartInv

LEMMA CommitApart ==
    ASSUME MembershipInv, ApartInv, AcceptancesApart, NEW x \in Changes, NEW m, Committing(x, m)
    PROVE  ApartInv' /\ \A n \in Members : Counts(n)
<1>0. /\ ReadStands(x) /\ change[x].pc = "write" /\ change[x].member = m /\ m \in Members
      /\ Changed(x) /\ change'[x].pc = "idle"
  BY DEF ApartInv, Committing, Still
<1>1. ASSUME NEW y \in Changes
      PROVE  ReadStands(y)'
  <2>1. CASE y = x
    BY <1>0, <2>1 DEF ReadStands, HoldsRow
  <2>2. CASE y # x
    <3>1. change'[y] = change[y] /\ ReadStands(y) /\ ChangeHolds(y)
          /\ (HoldsRow(y)' <=> HoldsRow(y))
      BY <1>0, <2>2 DEF Changed, ApartInv, MembershipInv, HoldsRow, WritesMember
    <3>2. CASE ~Busy(y, m)
      <4>1. CASE change[y].pc = "idle"
        BY <3>1, <4>1 DEF ReadStands, HoldsRow
      <4>2. CASE change[y].pc # "idle"
        <5>1. change[y].member # m /\ change[y].member \in Members
          BY <3>1, <3>2, <4>2 DEF ChangeHolds, Busy
        <5>2. member'[change[y].member] = member[change[y].member]
              /\ roles'[change[y].member] = roles[change[y].member]
          BY <5>1 DEF Committing
        <5>. QED BY <3>1, <5>2 DEF ReadStands
      <4>. QED BY <4>1, <4>2
    <3>3. CASE Busy(y, m)
      <4>1. y \in Updates /\ y \notin Invitations /\ ~HoldsRow(y)
        BY <2>2, <3>3, CommitAlone, Apart
      <4>2. change[y].pc # "write"
        BY <4>1 DEF HoldsRow, WritesMember
      <4>. QED BY <3>1, <4>1, <4>2 DEF ReadStands
    <3>. QED BY <3>2, <3>3
  <2>. QED BY <2>1, <2>2
<1>2. \A n \in Members : Counts(n)
  <2>1. CASE WritesMember(x)
    <3>1. change[x].read.row = member[m].row
      BY <1>0, <2>1 DEF ReadStands, HoldsRow
    <3>2. member'[m].row = member[m].row + 1
      BY <2>1, <3>1 DEF Committing, Written
    <3>. QED BY <3>2 DEF Counts, Committing
  <2>2. CASE ~WritesMember(x)
    BY <2>2 DEF Counts, Committing
  <2>. QED BY <2>1, <2>2
<1>3. ASSUME NEW n \in Members, NEW r \in roles'[n], NEW s \in roles'[n]
      PROVE  r.by = s.by
  <2>1. CASE n # m
    BY <2>1 DEF Committing, ApartInv, RolesAreOneDecision
  <2>2. CASE n = m /\ change[x].roles = {}
    <3>1. Given(x) = {}
      BY <2>2 DEF Given
    <3>2. r \in roles[m] /\ s \in roles[m]
      BY <1>0, <2>2, <3>1 DEF Committing, Kept
    <3>. QED BY <1>0, <3>2 DEF ApartInv, RolesAreOneDecision
  <2>3. CASE n = m /\ change[x].roles # {}
    <3>1. Kept(x) = {}
      BY <1>0, <2>3 DEF ReadStands, Kept
    <3>2. r \in Given(x) /\ s \in Given(x)
      BY <2>3, <3>1 DEF Committing
    <3>. QED BY <3>2, CommitStands
  <2>. QED BY <2>1, <2>2, <2>3
<1>. QED BY <1>1, <1>2, <1>3 DEF ApartInv, RolesAreOneDecision

LEMMA ReadingApart ==
    ASSUME MembershipInv, ApartInv, NEW x \in Changes, Reading(x)
    PROVE  ApartInv' /\ \A m \in Members : Counts(m)
<1>1. ReadStands(x)'
  BY DEF Reading, ReadStands, HoldsRow, membership
<1>. QED BY <1>1, QuietApart DEF Reading

LEMMA ClearingApart ==
    ASSUME MembershipInv, ApartInv, NEW x \in Changes, Clearing(x)
    PROVE  ApartInv' /\ \A m \in Members : Counts(m)
<1>0. ReadStands(x) /\ change[x].pc = "read" /\ UNCHANGED <<member, roles>>
  BY DEF ApartInv, Clearing, membership
<1>1. change'[x].read.row = member[change[x].member].row
  BY <1>0 DEF Clearing, ReadStands, Changes
<1>2. ReadStands(x)'
  BY <1>0, <1>1 DEF Clearing, ReadStands, HoldsRow
<1>. QED BY <1>2, QuietApart DEF Clearing

LEMMA MovingApart ==
    ASSUME MembershipInv, ApartInv, AcceptancesApart,
           Moving \/ \E m \in Members : Taking(m)
    PROVE  ApartInv' /\ \A m \in Members : Counts(m)
<1>1. ASSUME NEW i \in Invitations, Asking(i)
      PROVE  ApartInv' /\ \A m \in Members : Counts(m)
  BY <1>1 DEF Asking, ApartInv, ReadStands, HoldsRow, WritesMember, RolesAreOneDecision, Counts
<1>2. ASSUME NEW x \in Changes, Leaving(x)
      PROVE  ApartInv' /\ \A m \in Members : Counts(m)
  <2>1. ReadStands(x)'
    BY <1>2 DEF Leaving, ReadStands, HoldsRow, Still
  <2>. QED BY <1>2, <2>1, QuietApart DEF Leaving
<1>. QED BY <1>1, <1>2, ReadingApart, ClearingApart, CommitApart DEF Moving, Taking

LEMMA ApartSame ==
    ASSUME ApartInv, UNCHANGED membershipVars
    PROVE  ApartInv'
  BY DEF membershipVars, ApartInv, ReadStands, HoldsRow, WritesMember, RolesAreOneDecision

-----------------------------------------------------------------------------
(* The theorems.                                                            *)

\* The inductive invariant: what changes in progress hold, and what they leave behind.
THEOREM MembershipsHold == MembershipSpec => []MembershipInv
<1>1. MembershipInit => MembershipInv
  BY MembershipsStart
<1>2. MembershipInv /\ [MembershipNext]_membershipVars => MembershipInv'
  BY MembershipNextCases, MovingKeeps, MembershipsSame
<1>. QED BY <1>1, <1>2, PTL DEF MembershipSpec

\* Whatever acceptances and updates run together, in whatever order their reads, locks
\* and commits come: every row has the shape the schema gives it; a member has a role
\* and who is none has none; and a role that came with an invitation is one it named,
\* of the person it named, and the invitation is spent.
THEOREM MembershipsStand == MembershipSpec => [](MembershipTypeOK /\ RolesStand /\ Accounted)
<1>1. MembershipInv => MembershipTypeOK /\ RolesStand /\ Accounted
  BY DEF MembershipInv
<1>. QED BY <1>1, MembershipsHold, PTL

\* An invitation gives its roles once, in the step that accepts it.
THEOREM AcceptancesGiveOnce == MembershipSpec => GivenOnce
<1>. DEFINE A == \A i \in Invitations : GivesOnce(i)
<1>1. MembershipInv /\ [MembershipNext]_membershipVars => [A]_membershipVars
  BY MembershipNextCases, MovingKeeps
<1>2. [A]_membershipVars <=> [\A i \in Invitations :
          /\ invitation[i].status \in {"accepted", "expired"} =>
                invitation'[i].status = invitation[i].status
          /\ \A m \in Members : \A r \in roles'[m] \ roles[m] :
                r.by = i => /\ m = Invited[i] /\ r.role \in InvitedRoles[i]
                            /\ invitation[i].status = "active"
                            /\ invitation'[i].status = "accepted"]_membershipVars
  BY Zenon DEF GivesOnce
<1>. HIDE DEF A
<1>. QED BY <1>1, <1>2, MembershipsHold, PTL DEF MembershipSpec, GivenOnce

\* The roles of a membership are those of one decision, and its row counts its changes
\* one by one, in every execution in which no acceptance runs together with another
\* change of the same membership, however many updates do: concurrent acceptances are
\* all that can mix two decisions, or number two rows alike.
THEOREM DecisionsStandApart ==
    MembershipSpec /\ []AcceptancesApart => []RolesAreOneDecision /\ RowsCount
<1>. DEFINE A == \A m \in Members : Counts(m)
<1>1. MembershipInit => ApartInv
  BY MembershipsStart
<1>2. MembershipInv /\ ApartInv /\ AcceptancesApart /\ [MembershipNext]_membershipVars
         => ApartInv' /\ [A]_membershipVars
  BY MembershipNextCases, MovingApart, ApartSame
<1>3. ApartInv => RolesAreOneDecision
  BY DEF ApartInv
<1>. HIDE DEF A
<1>4. MembershipSpec /\ []AcceptancesApart => []RolesAreOneDecision /\ [][A]_membershipVars
  BY <1>1, <1>2, <1>3, MembershipsHold, PTL DEF MembershipSpec
<1>. QED BY <1>4 DEF RowsCount, A

=============================================================================
