---------------------------- MODULE IngestionRun ----------------------------
(***************************************************************************)
(* Ingestion of one admitted source version: the authorizations of the     *)
(* later operations (services.py), the runs and their leased attempts, and *)
(* the calls of run_ingestion that carry them out (ingestion.py).          *)
(*                                                                         *)
(* A transaction of a call locks the run's row, decides, and commits.  It  *)
(* reads the rights without a lock, so a transaction that found them in    *)
(* force is two steps here: the checks, after which the call holds the     *)
(* row, and the commit; a decision no other transaction can disturb is     *)
(* one.  Clocks are abstracted: a lease or a right that has run out is a   *)
(* flag a step clears, at any moment.                                      *)
(***************************************************************************)
EXTENDS Naturals

CONSTANTS
    Runs,           \* ingestion runs the version may be given
    Calls,          \* calls of run_ingestion
    WorkerId,       \* the worker_id each call is made with
    Strip,          \* worker_id.strip(), as the lease records it
    Operations,     \* operations that need an authorization of their own
    Projections,    \* normalized sources an extraction may yield
    MaxAttempts,    \* DocumentIngestionRun.max_attempts
    None

Ids == {WorkerId[c] : c \in Calls} \cup {Strip[WorkerId[c]] : c \in Calls}

ASSUME OperationsAssumption == {"extract", "ocr"} \subseteq Operations
ASSUME AttemptsAssumption == MaxAttempts \in Nat \ {0}
ASSUME NoneAssumption == None \notin Ids /\ None \notin Projections

VARIABLES
    admitted,       \* SourceVersion.admission_status = "admitted"
    rightsLive,     \* the declaration's valid_until is still ahead
    auth,           \* SourceUseAuthorization.status by operation
    run,            \* the DocumentIngestionRun rows
    attempt,        \* the DocumentIngestionAttempt rows, by run and number
    artifacts,      \* pages, elements, sections and artifacts of the version
    call            \* local state of the calls

rights == <<admitted, rightsLive, auth>>
vars   == <<admitted, rightsLive, auth, run, attempt, artifacts, call>>

-----------------------------------------------------------------------------
Attempts == 1 .. MaxAttempts
Working  == {"claimed", "extracting", "normalizing", "quality_check"}
Open     == Working \cup {"queued", "retryable"}
Terminal == {"ready_for_generation", "failed", "rights_blocked"}

RunRows ==
    [status   : {"none"} \cup Open \cup Terminal,
     owner    : Ids \cup {None},        \* lease_owner
     live     : BOOLEAN,                \* lease_expires_at is still ahead
     attempts : 0 .. MaxAttempts,       \* attempt_count
     output   : Projections \cup {None}]    \* output_manifest_sha256

Outcomes == {"none", "running", "completed", "retryable", "failed", "rights_blocked"}

\* pc names the next step: the stage to advance to, the work to do, or how to
\* end.  checked: the call's transaction holds the row and is about to commit.
CallStates ==
    [pc      : {"idle", "claim", "extracting", "extract", "normalizing",
                "normalize", "quality_check", "persist", "finish"},
     checked : BOOLEAN,
     run     : Runs \cup {None},
     attempt : 0 .. MaxAttempts,
     failure : {"none", "retryable", "permanent", "rights"},
     pages   : Projections \cup {None}]

NoRun    == [status |-> "none", owner |-> None, live |-> FALSE, attempts |-> 0,
             output |-> None]
IdleCall == [pc |-> "idle", checked |-> FALSE, run |-> None, attempt |-> 0,
             failure |-> "none", pages |-> None]

TypeOK ==
    /\ admitted \in BOOLEAN
    /\ rightsLive \in BOOLEAN
    /\ auth \in [Operations -> {"none", "requested", "active", "denied", "revoked"}]
    /\ run \in [Runs -> RunRows]
    /\ attempt \in [Runs -> [Attempts -> Outcomes]]
    /\ artifacts \in Projections \cup {None}
    /\ call \in [Calls -> CallStates]

\* An admitted version none of whose later operations was asked for yet.
Init ==
    /\ admitted = TRUE
    /\ rightsLive = TRUE
    /\ auth = [op \in Operations |-> "none"]
    /\ run = [r \in Runs |-> NoRun]
    /\ attempt = [r \in Runs |-> [n \in Attempts |-> "none"]]
    /\ artifacts = None
    /\ call = [c \in Calls |-> IdleCall]

\* A run's row is saved; a call goes on in another state, or to _finish_failure.
Becomes(r, row) == run' = [run EXCEPT ![r] = row]
Goes(c, state) == call' = [call EXCEPT ![c] = state]
GiveUp(c, failure) == Goes(c, [call[c] EXCEPT !.pc = "finish", !.failure = failure])

-----------------------------------------------------------------------------
(* Rights.  While a version is admitted its store authorization stands, and *)
(* it ends with the same declaration (AdmittedIsSafe of SourceAdmission).   *)

StoreActive == admitted /\ rightsLive

Decision(op, from, to) ==
    /\ StoreActive
    /\ auth[op] = from
    /\ auth' = [auth EXCEPT ![op] = to]
    /\ UNCHANGED <<admitted, rightsLive, run, attempt, artifacts, call>>

RequestAuthorization(op) == Decision(op, "none", "requested")
ActivateAuthorization(op) == Decision(op, "requested", "active")
DenyAuthorization(op) == Decision(op, "requested", "denied")
RevokeAuthorization(op) == Decision(op, "active", "revoked")

\* Revocation, expiry or dispute of the store authorization: the version is
\* blocked for good.
BlockVersion ==
    /\ admitted
    /\ admitted' = FALSE
    /\ UNCHANGED <<rightsLive, auth, run, attempt, artifacts, call>>

RightsLapse ==
    /\ rightsLive
    /\ rightsLive' = FALSE
    /\ UNCHANGED <<admitted, auth, run, attempt, artifacts, call>>

\* _active_extract_authorization, and the checks start_ingestion repeats
ExtractActive == admitted /\ rightsLive /\ auth["extract"] = "active"

\* Mutant: start_ingestion does not look for an open run.
StartIngestionUnchecked(r) ==
    /\ ExtractActive
    /\ run[r].status = "none"
    /\ Becomes(r, [run[r] EXCEPT !.status = "queued"])
    /\ UNCHANGED <<rights, attempt, artifacts, call>>

\* start_ingestion locks the document, as every decision on the rights does; it
\* hands back the open run if there is one.
StartIngestion(r) ==
    /\ ExtractActive
    /\ run[r].status = "none"
    /\ \A q \in Runs : run[q].status \notin Open
    /\ Becomes(r, [run[r] EXCEPT !.status = "queued"])
    /\ UNCHANGED <<rights, attempt, artifacts, call>>

-----------------------------------------------------------------------------
(* _claim                                                                   *)

\* Mutant: the run is read without select_for_update.
RowFreeAlways(r) == TRUE

\* No transaction in progress holds the run's row.
RowFree(r) == \A c \in Calls : call[c].checked => call[c].run # r

LeaseExpired(r) == run[r].status \in Working /\ ~run[r].live

\* Mutant: an expired lease is never taken over.
TakeableWaiting(r) == RowFree(r) /\ run[r].status \in {"queued", "retryable"}

Takeable(r) ==
    /\ RowFree(r)
    /\ run[r].status \in {"queued", "retryable"} \/ LeaseExpired(r)

\* The attempts of a run once those still running were closed with an outcome.
Closed(r, outcome) ==
    [n \in Attempts |-> IF attempt[r][n] = "running" THEN outcome ELSE attempt[r][n]]

\* Mutant: the lease's owner is left in the row.
UnleasedOwned(r, status) == [run[r] EXCEPT !.status = status, !.live = FALSE]

\* A run's row in a state that has no lease.
Unleased(r, status) ==
    [run[r] EXCEPT !.status = status, !.owner = None, !.live = FALSE]

ClaimExhausted(r) ==
    /\ Takeable(r)
    /\ run[r].attempts >= MaxAttempts
    /\ Becomes(r, Unleased(r, "failed"))
    /\ attempt' = [attempt EXCEPT ![r] = Closed(r, "retryable")]
    /\ UNCHANGED <<rights, artifacts, call>>

ClaimBlocked(r) ==
    /\ Takeable(r)
    /\ run[r].attempts < MaxAttempts
    /\ ~ExtractActive
    /\ Becomes(r, Unleased(r, "rights_blocked"))
    /\ attempt' = [attempt EXCEPT ![r] = Closed(r, "retryable")]
    /\ UNCHANGED <<rights, artifacts, call>>

\* Mutant: the retry budget is not looked at.
ClaimCheckUnbounded(c, r) ==
    /\ call[c].pc = "idle"
    /\ Takeable(r)
    /\ ExtractActive
    /\ Goes(c, [call[c] EXCEPT !.pc = "claim", !.checked = TRUE, !.run = r])
    /\ UNCHANGED <<rights, run, attempt, artifacts>>

ClaimCheck(c, r) ==
    /\ call[c].pc = "idle"
    /\ Takeable(r)
    /\ run[r].attempts < MaxAttempts
    /\ ExtractActive
    /\ Goes(c, [call[c] EXCEPT !.pc = "claim", !.checked = TRUE, !.run = r])
    /\ UNCHANGED <<rights, run, attempt, artifacts>>

ClaimCommit(c) ==
    LET r == call[c].run
        n == run[r].attempts + 1
    IN
    /\ call[c].pc = "claim"
    /\ Becomes(r, [run[r] EXCEPT !.status = "claimed", !.owner = Strip[WorkerId[c]],
                                 !.live = TRUE, !.attempts = n])
    /\ attempt' = [attempt EXCEPT ![r] = [Closed(r, "retryable") EXCEPT ![n] = "running"]]
    /\ Goes(c, [call[c] EXCEPT !.pc = "extracting", !.checked = FALSE, !.attempt = n])
    /\ UNCHANGED <<rights, artifacts>>

-----------------------------------------------------------------------------
(* _advance, and the work between the stages                                *)

\* Mutant: any lease will do.
OwnsAny(c) == run[call[c].run].owner # None

\* The call's worker id is the one the lease of its run records.
Owns(c) == run[call[c].run].owner = WorkerId[c]

\* Mutant: the stage the run is in is not compared.
HoldsStageAny(c, status) ==
    /\ run[call[c].run].status \in Working
    /\ Owns(c)
    /\ run[call[c].run].live

\* What _advance and _persist_ready ask of the row.
HoldsStage(c, status) ==
    /\ run[call[c].run].status = status
    /\ Owns(c)
    /\ run[call[c].run].live

\* A transaction of call c is to start on its run, and no other holds the row.
Begins(c, pc) ==
    /\ call[c].pc = pc
    /\ ~call[c].checked
    /\ RowFree(call[c].run)

\* A transaction that needs the run in a state passes its checks, or aborts:
\* the rights have ended, or the lease is not the call's any more, which is
\* raised to the caller.
PassChecks(c, status) ==
    /\ HoldsStage(c, status)
    /\ ExtractActive
    /\ Goes(c, [call[c] EXCEPT !.checked = TRUE])

FindRightsEnded(c, status) ==
    /\ HoldsStage(c, status)
    /\ ~ExtractActive
    /\ GiveUp(c, "rights")

\* Mutant: a lost lease is reported as ended rights.
ConflictBlocks(c, status) ==
    /\ ~HoldsStage(c, status)
    /\ GiveUp(c, "rights")

Conflict(c, status) ==
    /\ ~HoldsStage(c, status)
    /\ Goes(c, IdleCall)

\* The start of a transaction that needs the run in a state.
Check(c, pc, status) ==
    /\ Begins(c, pc)
    /\ PassChecks(c, status) \/ FindRightsEnded(c, status) \/ Conflict(c, status)
    /\ UNCHANGED <<rights, run, attempt, artifacts>>

AdvanceCheck(c) ==
    \/ Check(c, "extracting", "claimed")
    \/ Check(c, "normalizing", "extracting")
    \/ Check(c, "quality_check", "normalizing")

AdvanceCommit(c, status, work) ==
    /\ call[c].pc = status
    /\ call[c].checked
    /\ Becomes(call[c].run, [run[call[c].run] EXCEPT !.status = status, !.live = TRUE])
    /\ Goes(c, [call[c] EXCEPT !.pc = work, !.checked = FALSE])
    /\ UNCHANGED <<rights, attempt, artifacts>>

Advance(c) ==
    \/ AdvanceCommit(c, "extracting", "extract")
    \/ AdvanceCommit(c, "normalizing", "normalize")
    \/ AdvanceCommit(c, "quality_check", "persist")

\* Storage is unreadable or the extractor was killed (retryable), the checksum
\* differs or the document is refused (permanent), or the text was extracted.
Extract(c) ==
    /\ call[c].pc = "extract"
    /\ \/ \E failure \in {"retryable", "permanent"} : GiveUp(c, failure)
       \/ Goes(c, [call[c] EXCEPT !.pc = "normalizing"])
    /\ UNCHANGED <<rights, run, attempt, artifacts>>

Normalize(c) ==
    /\ call[c].pc = "normalize"
    /\ \/ GiveUp(c, "permanent")
       \/ \E pages \in Projections :
             Goes(c, [call[c] EXCEPT !.pc = "quality_check", !.pages = pages])
    /\ UNCHANGED <<rights, run, attempt, artifacts>>

\* A page without text: _ocr_reason locks the run and asks for the ocr
\* authorization; there is no OCR adapter, so the attempt fails either way.
RequireOcr(c) ==
    /\ call[c].pc = "normalize"
    /\ RowFree(call[c].run)
    /\ auth' = [auth EXCEPT !["ocr"] = IF @ = "none" THEN "requested" ELSE @]
    /\ GiveUp(c, "retryable")
    /\ UNCHANGED <<admitted, rightsLive, run, attempt, artifacts>>

-----------------------------------------------------------------------------
(* _persist_ready and _finish_failure                                       *)

PersistCheck(c) == Check(c, "persist", "quality_check")

\* Mutant: what an earlier run stored is kept without a comparison.
PersistCommitUncompared(c) ==
    LET r == call[c].run
        n == run[r].attempts
    IN
    /\ call[c].pc = "persist"
    /\ call[c].checked
    /\ artifacts' = IF artifacts = None THEN call[c].pages ELSE artifacts
    /\ Becomes(r, [Unleased(r, "ready_for_generation") EXCEPT !.output = call[c].pages])
    /\ attempt' = [attempt EXCEPT ![r][n] = "completed"]
    /\ Goes(c, IdleCall)
    /\ UNCHANGED rights

\* The first run of a version creates its pages, elements, sections and
\* artifacts under stable ids; a later one finds them and compares.
PersistCommit(c) ==
    LET r == call[c].run
        n == run[r].attempts
    IN
    /\ call[c].pc = "persist"
    /\ call[c].checked
    /\ artifacts \in {None, call[c].pages}
    /\ artifacts' = call[c].pages
    /\ Becomes(r, [Unleased(r, "ready_for_generation") EXCEPT !.output = call[c].pages])
    /\ attempt' = [attempt EXCEPT ![r][n] = "completed"]
    /\ Goes(c, IdleCall)
    /\ UNCHANGED rights

\* _assert_existing: what is stored differs, and the transaction aborts.
PersistMismatch(c) ==
    /\ call[c].pc = "persist"
    /\ call[c].checked
    /\ artifacts \notin {None, call[c].pages}
    /\ Goes(c, IdleCall)
    /\ UNCHANGED <<rights, run, attempt, artifacts>>

\* Mutant: the budget is compared one attempt too late.
FailedStatusLate(r, failure) ==
    IF failure = "rights" THEN "rights_blocked"
    ELSE IF failure = "permanent" \/ run[r].attempts > MaxAttempts THEN "failed"
    ELSE "retryable"

\* The status a run takes when a call gives it up.
FailedStatus(r, failure) ==
    IF failure = "rights" THEN "rights_blocked"
    ELSE IF failure = "permanent" \/ run[r].attempts >= MaxAttempts THEN "failed"
    ELSE "retryable"

\* What _finish_failure asks of the rows: neither the lease's expiry nor the
\* stage is looked at.
MayFinish(c) ==
    LET r == call[c].run IN
    /\ run[r].status \in Working
    /\ Owns(c)
    /\ attempt[r][run[r].attempts] = "running"

FinishFailure(c) ==
    LET r == call[c].run
        n == run[r].attempts
        status == FailedStatus(r, call[c].failure)
    IN
    /\ Begins(c, "finish")
    /\ MayFinish(c)
    /\ Becomes(r, Unleased(r, status))
    /\ attempt' = [attempt EXCEPT ![r][n] = status]
    /\ Goes(c, IdleCall)
    /\ UNCHANGED <<rights, artifacts>>

FinishConflict(c) ==
    /\ Begins(c, "finish")
    /\ ~MayFinish(c)
    /\ Goes(c, IdleCall)
    /\ UNCHANGED <<rights, run, attempt, artifacts>>

-----------------------------------------------------------------------------
LeaseLapse(r) ==
    /\ run[r].live
    /\ Becomes(r, [run[r] EXCEPT !.live = FALSE])
    /\ UNCHANGED <<rights, attempt, artifacts, call>>

\* The calling process dies, or an unexpected error leaves the call; an open
\* transaction is rolled back.
Crash(c) ==
    /\ call[c].pc # "idle"
    /\ Goes(c, IdleCall)
    /\ UNCHANGED <<rights, run, attempt, artifacts>>

Decide ==
    \/ \E op \in Operations :
          \/ RequestAuthorization(op)
          \/ ActivateAuthorization(op)
          \/ DenyAuthorization(op)
          \/ RevokeAuthorization(op)
    \/ BlockVersion
    \/ RightsLapse

\* What a call of run_ingestion does once its claim passed the checks.
Continue(c) ==
    \/ ClaimCommit(c)
    \/ AdvanceCheck(c)
    \/ Advance(c)
    \/ Extract(c)
    \/ Normalize(c)
    \/ RequireOcr(c)
    \/ PersistCheck(c)
    \/ PersistCommit(c)
    \/ PersistMismatch(c)
    \/ FinishFailure(c)
    \/ FinishConflict(c)

\* run_ingestion is called for a run.
Claim(r) ==
    \/ ClaimExhausted(r)
    \/ ClaimBlocked(r)
    \/ \E c \in Calls : ClaimCheck(c, r)

Next ==
    \/ Decide
    \/ \E r \in Runs : StartIngestion(r) \/ Claim(r) \/ LeaseLapse(r)
    \/ \E c \in Calls : Continue(c) \/ Crash(c)

Spec == Init /\ [][Next]_vars

\* Calls that are not killed go on, leases run out, and the worker process keeps
\* calling run_ingestion for the runs that are open.
Fairness ==
    /\ \A c \in Calls : WF_vars(Continue(c))
    /\ \A r \in Runs : WF_vars(Claim(r)) /\ WF_vars(LeaseLapse(r))

FairSpec == Spec /\ Fairness

-----------------------------------------------------------------------------
(* Safety.                                                                  *)

RunLeased(r) ==
    /\ run[r].status \in Working <=> run[r].owner # None
    /\ run[r].live => run[r].status \in Working
    /\ run[r].status \in {"none", "queued"} => run[r].attempts = 0
    /\ run[r].status \in Working => run[r].attempts > 0
    /\ \A n \in Attempts :
          /\ attempt[r][n] = "none" <=> n > run[r].attempts
          /\ attempt[r][n] = "running" <=> n = run[r].attempts /\ run[r].status \in Working

\* A run is leased exactly while it is in a working stage; then its last attempt
\* is running (_finish_failure and _persist_ready look that row up) and no other
\* attempt ever is; attempt_count is the number of attempts recorded.
LeaseDiscipline == \A r \in Runs : RunLeased(r)

RunExplained(r) ==
    \A n \in Attempts :
        /\ attempt[r][n] \in {"completed", "failed", "rights_blocked"} => n = run[r].attempts
        /\ attempt[r][n] = "completed" => run[r].status = "ready_for_generation"
        /\ attempt[r][n] = "failed" => run[r].status = "failed"
        /\ attempt[r][n] = "rights_blocked" => run[r].status = "rights_blocked"
        /\ n = run[r].attempts =>
              /\ run[r].status = "ready_for_generation" => attempt[r][n] = "completed"
              /\ run[r].status = "retryable" => attempt[r][n] = "retryable" /\ n < MaxAttempts

\* A run and the attempts it spent tell the same story, whichever call ended
\* which: only the last attempt can have completed, failed or been blocked, and
\* it did exactly if the run ended that way; a run that waits for a retry, or
\* ended without its last attempt, lost that attempt to a lease or a retry.
AttemptsExplainRun == \A r \in Runs : RunExplained(r)

\* Reprocessing a version repeats its output: every run that is ready delivers
\* what the version's artifacts hold, there are artifacts exactly if some run is
\* ready, and a run that is not ready delivers nothing.
OneOutput ==
    /\ \A r \in Runs :
          IF run[r].status = "ready_for_generation"
          THEN run[r].output = artifacts /\ artifacts # None
          ELSE run[r].output = None
    /\ artifacts # None => \E r \in Runs : run[r].status = "ready_for_generation"

\* At most one run of a version is open (uq_ingestion_runs_active_version).
OneOpenRun ==
    \A r, q \in Runs : run[r].status \in Open /\ run[q].status \in Open => r = q

\* A run is blocked only when the right to extract has ended for good, however
\* late the call that found it ended reports; and no run exists without a right
\* that was once in force.
BlockedForGood ==
    \A r \in Runs :
        /\ run[r].status = "rights_blocked" => ~ExtractActive
        /\ run[r].status # "none" => auth["extract"] \in {"active", "revoked"}

\* The stage whose commit follows a step of a call.
Stage(pc) ==
    IF pc = "extracting" THEN {"claimed"}
    ELSE IF pc = "normalizing" THEN {"extracting"}
    ELSE IF pc = "quality_check" THEN {"normalizing"}
    ELSE {"quality_check"}

Stands(c) ==
    LET r == call[c].run IN
    /\ call[c].pc = "claim" => call[c].checked
    /\ call[c].checked =>
          /\ call[c].pc \in {"claim", "extracting", "normalizing", "quality_check", "persist"}
          /\ \A d \in Calls : call[d].checked /\ call[d].run = r => d = c
          /\ IF call[c].pc = "claim"
             THEN /\ run[r].status \in {"queued", "retryable"} \/ LeaseExpired(r)
                  /\ run[r].attempts < MaxAttempts
             ELSE run[r].status \in Stage(call[c].pc) /\ Owns(c)

\* Between its checks and its commit a call finds the run as it was checked: it
\* holds the row alone, and nothing but the clock and the rights has moved.
ChecksStand == \A c \in Calls : Stands(c)

Carries(c) ==
    LET r == call[c].run IN
    /\ call[c].pc # "idle" => r \in Runs /\ run[r].status # "none"
    /\ call[c].pc \notin {"idle", "claim"} => call[c].attempt \in 1 .. run[r].attempts
    /\ call[c].pc \in {"quality_check", "persist"} => call[c].pages \in Projections
    /\ call[c].pc = "finish" => call[c].failure # "none"
    /\ call[c].failure = "rights" => call[c].pc # "idle" /\ ~ExtractActive

\* What a call in progress carries: a run that exists, the attempt it opened, the
\* text it is about to store, the reason it gives up.
CallsCarry == \A c \in Calls : Carries(c)

\* The inductive invariant the proofs rest on.
IndInv ==
    /\ TypeOK
    /\ LeaseDiscipline
    /\ AttemptsExplainRun
    /\ OneOutput
    /\ OneOpenRun
    /\ BlockedForGood
    /\ ChecksStand
    /\ CallsCarry

\* The transitions enforce_ingestion_run_mutation lets one transaction make.
MayMove(from, to) ==
    \/ from = "none" /\ to = "queued"
    \/ from = "queued" /\ to \in {"claimed", "rights_blocked"}
    \/ from = "claimed" /\ to = "extracting"
    \/ from = "extracting" /\ to = "normalizing"
    \/ from = "normalizing" /\ to = "quality_check"
    \/ from = "quality_check" /\ to = "ready_for_generation"
    \/ from \in Working \cup {"retryable"}
          /\ to \in {"claimed", "retryable", "failed", "rights_blocked"}

\* enforce_ingestion_run_mutation: a run is requested under an active authorization of
\* an admitted version, moves by its arrows, and is written no more once it has ended.
RunTrigger(r) ==
    /\ run[r].status = "none" /\ run'[r] # run[r] => admitted /\ auth["extract"] = "active"
    /\ run'[r].status # run[r].status => MayMove(run[r].status, run'[r].status)
    /\ run[r].status \in Terminal => run'[r] = run[r]

AttemptTrigger(r, n) ==
    attempt[r][n] \notin {"none", "running"} => attempt'[r][n] = attempt[r][n]

\* Pages, elements, sections and artifacts are created and never changed.
ArtifactsTrigger == artifacts # None => artifacts' = artifacts

\* The database's triggers never have to refuse what a call writes: stages are
\* taken one by one, and neither the row of a run that has ended, nor an attempt
\* that was closed, nor what was delivered is written again, whatever late call
\* comes back.
TriggersAccept ==
    [][/\ \A r \in Runs : RunTrigger(r) /\ \A n \in Attempts : AttemptTrigger(r, n)
       /\ ArtifactsTrigger]_vars

\* While no two calls share a worker id, an attempt is ended by the call that
\* opened it, or closed as retryable by a claim after its lease ran out.
AttemptsEndedByTheirCall ==
    [][\A r \in Runs, n \in Attempts :
          attempt[r][n] = "running" /\ attempt'[r][n] # "running" =>
             \/ ~run[r].live /\ attempt'[r][n] = "retryable"
             \/ \E c \in Calls : /\ call[c].run = r
                                 /\ call[c].attempt = n
                                 /\ call'[c].pc = "idle"]_vars

-----------------------------------------------------------------------------
(* Progress.                                                                *)

\* A run that was asked for ends, ready, failed or blocked, even if calls die
\* and outlive their leases, unless calls go on dying for ever.
RunsSettle ==
    <>[][\A c \in Calls : ~Crash(c)]_vars =>
        \A r \in Runs : run[r].status \in Open ~> run[r].status \in Terminal

-----------------------------------------------------------------------------
(* What the documents say and the code does not do.                         *)

\* In-flight work checks the operation before every stage commit and stops
\* without marking output ready once the rights have ended (F-004 execution
\* document): no run becomes ready while the right to extract is gone.
ReadyUnderRights ==
    [][\A r \in Runs :
          run'[r].status = "ready_for_generation" /\ run[r].status # "ready_for_generation"
             => ExtractActive]_vars

-----------------------------------------------------------------------------
(* The promise this component keeps.                                        *)

Rights ==
    IF ExtractActive THEN "active"
    ELSE IF admitted /\ rightsLive /\ auth["extract"] \in {"none", "requested"} THEN "pending"
    ELSE "ended"

RunState(status) ==
    IF status \in Open THEN "open"
    ELSE IF status = "ready_for_generation" THEN "ready"
    ELSE IF status = "rights_blocked" THEN "blocked"
    ELSE status

Contract == INSTANCE IngestionContract WITH
    rights <- Rights,
    run    <- [r \in Runs |-> RunState(run[r].status)],
    output <- artifacts

\* Every behaviour of runs, leases, crashes and ended rights is, seen from
\* outside, a behaviour of IngestionContract.
ImplementsContract == Contract!Spec

=============================================================================
