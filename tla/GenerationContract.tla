------------------------- MODULE GenerationContract -------------------------
(***************************************************************************)
(* What course generation promises about one ingested source version, with *)
(* no leases, attempts, worker calls or reviewers in sight: a run is       *)
(* planned, approved, written and accepted in this order, each only once;  *)
(* what is accepted was written for the plan that was approved, and under  *)
(* a right to generate that is in force.                                   *)
(***************************************************************************)
CONSTANTS Runs, Plans, Outputs, None

VARIABLES
    right,      \* the right to generate: "pending", "active" or "ended"
    stage,      \* how far each run has come
    plan,       \* the plan of a run that was planned
    text        \* the lessons of a run that was written

vars == <<right, stage, plan, text>>

Underway == {"requested", "planned", "approved", "written"}

Init ==
    /\ right = "pending"
    /\ stage = [r \in Runs |-> "none"]
    /\ plan = [r \in Runs |-> None]
    /\ text = [r \in Runs |-> None]

\* review_operation_authorization, decision "activate"
Grant ==
    /\ right = "pending"
    /\ right' = "active"
    /\ UNCHANGED <<stage, plan, text>>

\* Denial, revocation, expiry, and the block of the version
End ==
    /\ right' = "ended"
    /\ UNCHANGED <<stage, plan, text>>

Moves(r, from, to) ==
    /\ stage[r] \in from
    /\ stage' = [stage EXCEPT ![r] = to]

\* start_generation, when no run is under way
Request(r) ==
    /\ right = "active"
    /\ \A q \in Runs : stage[q] \notin Underway
    /\ Moves(r, {"none"}, "requested")
    /\ UNCHANGED <<right, plan, text>>

\* _persist_blueprint
Plan(r, p) ==
    /\ Moves(r, {"requested"}, "planned")
    /\ plan' = [plan EXCEPT ![r] = p]
    /\ UNCHANGED <<right, text>>

\* approve_blueprint
Approve(r) ==
    /\ Moves(r, {"planned"}, "approved")
    /\ UNCHANGED <<right, plan, text>>

\* _persist_lessons
Write(r, t) ==
    /\ Moves(r, {"approved"}, "written")
    /\ text' = [text EXCEPT ![r] = [plan |-> plan[r], content |-> t]]
    /\ UNCHANGED <<right, plan>>

\* reject_generation
Decline(r) ==
    /\ Moves(r, {"planned", "written"}, "declined")
    /\ UNCHANGED <<right, plan, text>>

\* canonicalize_generation
Accept(r) ==
    /\ right = "active"
    /\ Moves(r, {"written"}, "accepted")
    /\ UNCHANGED <<right, plan, text>>

\* _claim and _finish_failure
Fail(r) ==
    /\ Moves(r, {"requested", "approved"}, "failed")
    /\ UNCHANGED <<right, plan, text>>

\* _claim and _finish_failure, rights_blocked
Block(r) ==
    /\ right = "ended"
    /\ Moves(r, {"requested", "approved"}, "blocked")
    /\ UNCHANGED <<right, plan, text>>

Next ==
    \/ Grant
    \/ End
    \/ \E r \in Runs :
          \/ Request(r)
          \/ \E p \in Plans : Plan(r, p)
          \/ Approve(r)
          \/ \E t \in Outputs : Write(r, t)
          \/ Decline(r)
          \/ Accept(r)
          \/ Fail(r)
          \/ Block(r)

Spec == Init /\ [][Next]_vars

=============================================================================
