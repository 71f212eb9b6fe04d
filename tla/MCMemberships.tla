--------------------------- MODULE MCMemberships ---------------------------
(* Instances of Memberships for TLC. *)
EXTENDS Memberships, TLC

\* Every invitation names every person there is, a single one.
AllInvited == [i \in Invitations |-> CHOOSE m \in Members : TRUE]

\* Each invitation brings one role; different ones, different roles.
RoleEach == CHOOSE f \in [Invitations -> {{r} : r \in Roles}] :
    \A i, j \in Invitations : f[i] = f[j] => i = j

=============================================================================
