------------------------- MODULE IngestionContract -------------------------
(***************************************************************************)
(* What ingestion promises about one source version, with no leases,       *)
(* attempts, worker calls or stages in sight: at most one run is open, a   *)
(* run ends once, every run that ends ready delivers the same normalized   *)
(* output, and a run is blocked only when the right to extract has ended,  *)
(* which it does for good.                                                 *)
(***************************************************************************)
CONSTANTS Runs, Projections, None

VARIABLES
    rights,     \* the right to extract: "pending", "active" or "ended"
    run,        \* the runs: "none", "open", "ready", "failed" or "blocked"
    output      \* the normalized artifacts of the version, if any

vars == <<rights, run, output>>

Init ==
    /\ rights = "pending"
    /\ run = [r \in Runs |-> "none"]
    /\ output = None

\* review_operation_authorization, decision "activate"
Grant ==
    /\ rights = "pending"
    /\ rights' = "active"
    /\ UNCHANGED <<run, output>>

\* Denial, revocation, expiry, and the block of the version
End ==
    /\ rights' = "ended"
    /\ UNCHANGED <<run, output>>

\* start_ingestion, when no run is open
Request(r) ==
    /\ rights = "active"
    /\ \A q \in Runs : run[q] # "open"
    /\ run[r] = "none"
    /\ run' = [run EXCEPT ![r] = "open"]
    /\ UNCHANGED <<rights, output>>

\* _persist_ready: the first delivery decides, every later one repeats it
Deliver(r, pages) ==
    /\ run[r] = "open"
    /\ output \in {None, pages}
    /\ run' = [run EXCEPT ![r] = "ready"]
    /\ output' = pages
    /\ UNCHANGED rights

\* _claim and _finish_failure
Fail(r) ==
    /\ run[r] = "open"
    /\ run' = [run EXCEPT ![r] = "failed"]
    /\ UNCHANGED <<rights, output>>

\* _claim and _finish_failure, rights_blocked
Block(r) ==
    /\ run[r] = "open"
    /\ rights = "ended"
    /\ run' = [run EXCEPT ![r] = "blocked"]
    /\ UNCHANGED <<rights, output>>

Next ==
    \/ Grant
    \/ End
    \/ \E r \in Runs :
          \/ Request(r)
          \/ \E pages \in Projections : Deliver(r, pages)
          \/ Fail(r)
          \/ Block(r)

Spec == Init /\ [][Next]_vars

=============================================================================
