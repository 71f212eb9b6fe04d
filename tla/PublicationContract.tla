------------------------ MODULE PublicationContract ------------------------
(***************************************************************************)
(* What is left of CourseContract for those who only read what a course    *)
(* has published: a version says the same from its publication on, the     *)
(* course shows the version published last, or none once it is withdrawn,  *)
(* and a version it no longer shows stays published.                       *)
(***************************************************************************)
CONSTANTS Versions, None

VARIABLES
    says,       \* what each version that was published says
    public,     \* the versions that are published
    shown       \* the published version the course shows

vars == <<says, public, shown>>

Init ==
    /\ says = [v \in Versions |-> None]
    /\ public = {}
    /\ shown = None

Publish(v, text) ==
    /\ says[v] = None
    /\ says' = [says EXCEPT ![v] = text]
    /\ public' = public \cup {v}
    /\ shown' = v

Withdraw(v) ==
    /\ shown = v
    /\ public' = public \ {v}
    /\ shown' = None
    /\ UNCHANGED says

Next ==
    \E v \in Versions :
        \/ says'[v] # None /\ Publish(v, says'[v])
        \/ Withdraw(v)

Spec == Init /\ [][Next]_vars

=============================================================================
