------------------------- MODULE AdmissionContract -------------------------
(***************************************************************************)
(* What source admission promises to the rest of the system, with no       *)
(* intents, claims, jobs, leases, attempts or storage in sight: a version  *)
(* receives at most one body, under a granted right, becomes admitted only *)
(* if that body is safe and the right still stands, can be withdrawn for   *)
(* good, and has its bytes reported erased only after it was withdrawn.    *)
(***************************************************************************)
CONSTANTS Bodies, SafeBodies, None

VARIABLES
    stage,      \* where the version stands
    granted,    \* the store authorization is active
    content,    \* the body taken into the inventory, if any
    erased      \* removal has been reported complete

vars == <<stage, granted, content, erased>>

Init ==
    /\ stage = "review"
    /\ granted = FALSE
    /\ content = None
    /\ erased = FALSE

\* review_authorization, decision "activate"
Grant ==
    /\ stage = "review"
    /\ stage' = "open"
    /\ granted' = TRUE
    /\ UNCHANGED <<content, erased>>

\* review_authorization, decision "deny"
Refuse ==
    /\ stage = "review"
    /\ stage' = "rejected"
    /\ UNCHANGED <<granted, content, erased>>

\* _reject_before_storage
TurnAway ==
    /\ stage = "open"
    /\ stage' = "rejected"
    /\ UNCHANGED <<granted, content, erased>>

\* upload_to_intent, the transaction that records the object
Receive(b) ==
    /\ stage = "open"
    /\ granted
    /\ stage' = "held"
    /\ content' = b
    /\ UNCHANGED <<granted, erased>>

\* run_validation_job, the transaction that records the result
Conclude(outcome) ==
    /\ stage = "held"
    /\ granted
    /\ outcome = "admitted" => content \in SafeBodies
    /\ stage' = outcome
    /\ UNCHANGED <<granted, content, erased>>

\* Revocation, expiry and dispute end the grant; a cancellation keeps it, and
\* cannot withdraw what is already admitted.
Withdraw ==
    /\ \/ /\ stage \in {"open", "held", "admitted"}
          /\ granted
          /\ granted' = FALSE
       \/ /\ stage \in {"review", "open", "held"}
          /\ UNCHANGED granted
    /\ stage' = "withdrawn"
    /\ UNCHANGED <<content, erased>>

\* run_removal_job, the transaction that records the observed absence
Erase ==
    /\ stage = "withdrawn"
    /\ content # None
    /\ ~erased
    /\ erased' = TRUE
    /\ UNCHANGED <<stage, granted, content>>

Next ==
    \/ Grant
    \/ Refuse
    \/ TurnAway
    \/ \E b \in Bodies : Receive(b)
    \/ \E outcome \in {"admitted", "rejected"} : Conclude(outcome)
    \/ Withdraw
    \/ Erase

Spec == Init /\ [][Next]_vars

=============================================================================
