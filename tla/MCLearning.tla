----------------------------- MODULE MCLearning -----------------------------
(* Instances of Learning for TLC. *)
EXTENDS Learning, TLC

CONSTANTS k1, l1, l2

\* Every invitation names every person there is, a single one, and brings every role.
AllInvited == [i \in Invitations |-> CHOOSE m \in Members : TRUE]
AllRoles   == [i \in Invitations |-> Roles]

\* One content: a required lesson and an optional one.
BothLessons == [k \in Contents |-> {l1, l2}]
OneRequired == [k \in Contents |-> {l1}]

\* Requests in progress, and updates, differ in nothing but their names.
Twins == Permutations(Requests) \cup Permutations(Updates)

=============================================================================
