--------------------------- MODULE GenerationRun ---------------------------
(***************************************************************************)
(* Course generation for one ingested source version                      *)
(* (course_generation/services.py): the runs and their leased attempts,    *)
(* the blueprint each run plans, the lessons it writes for the approved    *)
(* blueprint, the calls of run_generation that do both, and the reviewers  *)
(* who approve, reject and canonicalize what they have read.               *)
(*                                                                         *)
(* As in IngestionRun, a transaction that found the right to generate in   *)
(* force without locking it is two steps, the checks and the commit, and   *)
(* the call holds the run's row between them; every other transaction is   *)
(* one step.  Clocks are abstracted to flags a step clears.                *)
(***************************************************************************)
EXTENDS Naturals

CONSTANTS
    Runs,           \* generation runs of the ingested version
    Calls,          \* calls of run_generation
    WorkerId,       \* the stripped worker_id each call is made with
    Reviewers,      \* people who review runs
    Plans,          \* blueprints the adapter may plan
    Outputs,        \* lessons the adapter may write
    MaxAttempts,    \* CourseGenerationRun.max_attempts
    None

Ids == {WorkerId[c] : c \in Calls}

ASSUME AttemptsAssumption == MaxAttempts \in Nat \ {0}
ASSUME NoneAssumption ==
    /\ None \notin Ids \cup Plans \cup Outputs \cup Runs \cup {"planning", "generating"}
    /\ None \notin [plan : Plans, content : Outputs]

VARIABLES
    right,          \* the generate authorization of the admitted version
    run,            \* the CourseGenerationRun rows
    attempt,        \* the CourseGenerationAttempt rows, by run and number
    blueprint,      \* the CourseBlueprint of each run
    lessons,        \* the GeneratedLessonArtifact rows of each run
    review,         \* decisions, rejections and canonicalizations of each run
    call,           \* local state of the calls
    seen            \* what each reviewer has read

rows == <<run, attempt, blueprint, lessons, review>>
vars == <<right, run, attempt, blueprint, lessons, review, call, seen>>

-----------------------------------------------------------------------------
Attempts == 1 .. MaxAttempts
Stages   == {"planning", "generating"}
Waiting  == {"queued", "generation_queued", "retryable"}
Review   == {"blueprint_review", "review_ready"}
Open     == Stages \cup Waiting \cup Review
Terminal == {"canonicalized", "rejected", "failed", "rights_blocked"}

RunRows ==
    [status    : {"none"} \cup Open \cup Terminal,
     owner     : Ids \cup {None},           \* lease_owner
     live      : BOOLEAN,                   \* lease_expires_at is still ahead
     attempts  : 0 .. MaxAttempts,          \* attempt_count
     version   : Nat,                       \* row_version
     blueprint : Plans \cup {None},         \* blueprint_content_sha256
     output    : Outputs \cup {None}]       \* output_manifest_sha256

AttemptRows ==
    [stage   : Stages \cup {None},
     outcome : {"none", "running", "completed", "retryable", "failed", "rights_blocked"}]

BlueprintRows ==
    [status : {"none", "reviewable", "approved", "rejected"}, plan : Plans \cup {None}]

LessonRows == [plan : Plans, content : Outputs] \cup {None}

\* BlueprintReviewDecision, CourseGenerationRejection, and the canonicalization
\* with the course draft made in the same transaction.
ReviewRows ==
    [decision : {"none", "approve", "reject"},
     reviewed : Plans \cup {None},
     refused  : Outputs \cup {None},
     course   : Outputs \cup {None}]

\* checked: the call's transaction holds the row and is about to commit.
CallStates ==
    [pc      : {"idle", "claim", "work", "persist", "finish"},
     checked : BOOLEAN,
     run     : Runs \cup {None},
     attempt : 0 .. MaxAttempts,
     stage   : Stages \cup {None},          \* the status its claim gave the run
     plan    : Plans \cup {None},
     output  : Outputs \cup {None},
     failure : {"none", "retryable", "permanent", "rights"}]

SeenStates ==
    [run     : Runs \cup {None},
     status  : {"none"} \cup Open \cup Terminal,
     version : Nat,
     plan    : Plans \cup {None},
     output  : Outputs \cup {None}]

NoRun       == [status |-> "none", owner |-> None, live |-> FALSE, attempts |-> 0,
                version |-> 1, blueprint |-> None, output |-> None]
NoAttempt   == [stage |-> None, outcome |-> "none"]
NoBlueprint == [status |-> "none", plan |-> None]
NoReview    == [decision |-> "none", reviewed |-> None, refused |-> None, course |-> None]
IdleCall    == [pc |-> "idle", checked |-> FALSE, run |-> None, attempt |-> 0,
                stage |-> None, plan |-> None, output |-> None, failure |-> "none"]
NothingSeen == [run |-> None, status |-> "none", version |-> 0, plan |-> None,
                output |-> None]

TypeOK ==
    /\ right \in {"pending", "active", "ended"}
    /\ run \in [Runs -> RunRows]
    /\ attempt \in [Runs -> [Attempts -> AttemptRows]]
    /\ blueprint \in [Runs -> BlueprintRows]
    /\ lessons \in [Runs -> LessonRows]
    /\ review \in [Runs -> ReviewRows]
    /\ call \in [Calls -> CallStates]
    /\ seen \in [Reviewers -> SeenStates]

\* An admitted version whose ingestion is ready and nothing was generated from.
Init ==
    /\ right = "pending"
    /\ run = [r \in Runs |-> NoRun]
    /\ attempt = [r \in Runs |-> [n \in Attempts |-> NoAttempt]]
    /\ blueprint = [r \in Runs |-> NoBlueprint]
    /\ lessons = [r \in Runs |-> None]
    /\ review = [r \in Runs |-> NoReview]
    /\ call = [c \in Calls |-> IdleCall]
    /\ seen = [v \in Reviewers |-> NothingSeen]

\* Mutant: the version is left as it is.
SavedAsIs(row) == row

\* A row is saved as it is written, under the next version; a call goes on in
\* another state, or to _finish_failure.
Saved(row) == [row EXCEPT !.version = @ + 1]
Becomes(r, row) == run' = [run EXCEPT ![r] = Saved(row)]
Goes(c, state) == call' = [call EXCEPT ![c] = state]
GiveUp(c, failure) == Goes(c, [call[c] EXCEPT !.pc = "finish", !.failure = failure])

\* No transaction in progress holds the run's row.
RowFree(r) == \A c \in Calls : call[c].checked => call[c].run # r

-----------------------------------------------------------------------------
(* The right to generate, as documents/services.py keeps it: granted once,  *)
(* and ended for good by a denial, a revocation, the clock, or the block of *)
(* the version.                                                             *)

GrantRight ==
    /\ right = "pending"
    /\ right' = "active"
    /\ UNCHANGED <<rows, call, seen>>

EndRight ==
    /\ right # "ended"
    /\ right' = "ended"
    /\ UNCHANGED <<rows, call, seen>>

\* start_generation locks the document, as every decision on the rights does; it
\* hands back the open run if there is one.
StartGeneration(r) ==
    /\ right = "active"
    /\ run[r].status = "none"
    /\ \A q \in Runs : run[q].status \notin Open
    /\ run' = [run EXCEPT ![r].status = "queued"]
    /\ UNCHANGED <<right, attempt, blueprint, lessons, review, call, seen>>

-----------------------------------------------------------------------------
(* _claim                                                                   *)

LeaseExpired(r) == run[r].status \in Stages /\ ~run[r].live

\* Mutant: an expired lease is never taken over.
TakeableWaiting(r) == RowFree(r) /\ run[r].status \in Waiting

Takeable(r) ==
    /\ RowFree(r)
    /\ run[r].status \in Waiting \/ LeaseExpired(r)

\* Mutant: the lease's owner is left in the row.
UnleasedOwned(row, status) == [row EXCEPT !.status = status, !.live = FALSE]

\* A row in a state that has no lease.
Unleased(row, status) ==
    [row EXCEPT !.status = status, !.owner = None, !.live = FALSE]

\* The row as _claim finds it, or leaves it when it takes back a lease that has
\* run out: a save of its own, before the one that decides.
Reclaimed(r) ==
    IF LeaseExpired(r) THEN Saved(Unleased(run[r], "retryable")) ELSE run[r]

\* The attempts of a run once those still running were closed as retryable.
Closed(r) ==
    [n \in Attempts |-> IF attempt[r][n].outcome = "running"
                        THEN [attempt[r][n] EXCEPT !.outcome = "retryable"]
                        ELSE attempt[r][n]]

ClaimExhausted(r) ==
    /\ Takeable(r)
    /\ run[r].attempts >= MaxAttempts
    /\ Becomes(r, Unleased(Reclaimed(r), "failed"))
    /\ attempt' = [attempt EXCEPT ![r] = Closed(r)]
    /\ UNCHANGED <<right, blueprint, lessons, review, call, seen>>

ClaimBlocked(r) ==
    /\ Takeable(r)
    /\ run[r].attempts < MaxAttempts
    /\ right # "active"
    /\ Becomes(r, Unleased(Reclaimed(r), "rights_blocked"))
    /\ attempt' = [attempt EXCEPT ![r] = Closed(r)]
    /\ UNCHANGED <<right, blueprint, lessons, review, call, seen>>

\* Mutant: the retry budget is not looked at.
ClaimCheckUnbounded(c, r) ==
    /\ call[c].pc = "idle"
    /\ Takeable(r)
    /\ right = "active"
    /\ Goes(c, [call[c] EXCEPT !.pc = "claim", !.checked = TRUE, !.run = r])
    /\ UNCHANGED <<right, rows, seen>>

ClaimCheck(c, r) ==
    /\ call[c].pc = "idle"
    /\ Takeable(r)
    /\ run[r].attempts < MaxAttempts
    /\ right = "active"
    /\ Goes(c, [call[c] EXCEPT !.pc = "claim", !.checked = TRUE, !.run = r])
    /\ UNCHANGED <<right, rows, seen>>

\* Mutant: whether the run already has an approved blueprint is not looked at.
NextStageForgetful(r) ==
    IF run[r].status = "generation_queued" THEN "generating" ELSE "planning"

NextStage(r) ==
    IF run[r].status = "generation_queued" \/ blueprint[r].status = "approved"
    THEN "generating" ELSE "planning"

ClaimCommit(c) ==
    LET r == call[c].run
        n == run[r].attempts + 1
        stage == NextStage(r)
    IN
    /\ call[c].pc = "claim"
    /\ Becomes(r, [Reclaimed(r) EXCEPT !.status = stage, !.owner = WorkerId[c],
                                       !.live = TRUE, !.attempts = n])
    /\ attempt' = [attempt EXCEPT
                      ![r] = [Closed(r) EXCEPT ![n] = [stage |-> stage, outcome |-> "running"]]]
    /\ Goes(c, [call[c] EXCEPT !.pc = "work", !.checked = FALSE,
                               !.attempt = n, !.stage = stage])
    /\ UNCHANGED <<right, blueprint, lessons, review, seen>>

-----------------------------------------------------------------------------
(* run_generation: what happens between claim and commit                    *)

\* The source_read transaction finds the right ended.
SourceBlocked(c) ==
    /\ call[c].pc = "work"
    /\ right # "active"
    /\ GiveUp(c, "rights")
    /\ UNCHANGED <<right, rows, seen>>

\* plan and _validate_blueprint: the blueprint is made from the source.
PlanWork(c) ==
    /\ call[c].pc = "work"
    /\ right = "active"
    /\ call[c].stage = "planning"
    /\ \E p \in Plans : Goes(c, [call[c] EXCEPT !.pc = "persist", !.plan = p])
    /\ UNCHANGED <<right, rows, seen>>

\* generate and _validate_lessons: the lessons are made from the blueprint the
\* source_read transaction found approved.
WriteWork(c) ==
    LET r == call[c].run IN
    /\ call[c].pc = "work"
    /\ right = "active"
    /\ call[c].stage = "generating"
    /\ blueprint[r].status = "approved"
    /\ \E o \in Outputs :
          Goes(c, [call[c] EXCEPT !.pc = "persist", !.plan = blueprint[r].plan, !.output = o])
    /\ UNCHANGED <<right, rows, seen>>

\* How the work may fail: the sections and elements read are not what the ingestion
\* promises; the adapter raises; the plan or the lessons do not fit the sections
\* or the blueprint, or there is no approved blueprint.
SourceFailures  == {"permanent"}
AdapterFailures == {"retryable"}
OutputFailures  == {"permanent"}

WorkFails(c) ==
    /\ call[c].pc = "work"
    /\ right = "active"
    /\ \E failure \in SourceFailures \cup AdapterFailures \cup OutputFailures :
          GiveUp(c, failure)
    /\ UNCHANGED <<right, rows, seen>>

\* The call's worker id is the one the lease of its run records, and the last
\* attempt of the run is running.
Owns(c) == run[call[c].run].owner = WorkerId[c]

LastRunning(r) ==
    run[r].attempts > 0 /\ attempt[r][run[r].attempts].outcome = "running"

\* Mutant: the stage the run is in is not compared.
HoldsStageAny(c) ==
    LET r == call[c].run IN
    /\ LastRunning(r)
    /\ run[r].status \in Stages
    /\ Owns(c)
    /\ run[r].live

\* What _persist_blueprint and _persist_lessons ask of the row.
HoldsStage(c) ==
    LET r == call[c].run IN
    /\ LastRunning(r)
    /\ run[r].status = call[c].stage
    /\ Owns(c)
    /\ run[r].live

\* A transaction of call c is to start on its run, and no other holds the row.
Begins(c, pc) ==
    /\ call[c].pc = pc
    /\ ~call[c].checked
    /\ RowFree(call[c].run)

PersistCheck(c) ==
    /\ Begins(c, "persist")
    /\ HoldsStage(c)
    /\ right = "active"
    /\ Goes(c, [call[c] EXCEPT !.checked = TRUE])
    /\ UNCHANGED <<right, rows, seen>>

PersistBlocked(c) ==
    /\ Begins(c, "persist")
    /\ HoldsStage(c)
    /\ right # "active"
    /\ GiveUp(c, "rights")
    /\ UNCHANGED <<right, rows, seen>>

\* Mutant: a lost lease is reported as an ended right.
PersistConflictBlocks(c) ==
    /\ Begins(c, "persist")
    /\ ~HoldsStage(c)
    /\ GiveUp(c, "rights")
    /\ UNCHANGED <<right, rows, seen>>

\* A lease lost, or merely run out, is a CourseGenerationError that is not
\* retryable: the call goes on to fail the run.
PersistConflict(c) ==
    /\ Begins(c, "persist")
    /\ ~HoldsStage(c)
    /\ GiveUp(c, "permanent")
    /\ UNCHANGED <<right, rows, seen>>

Completed(r) ==
    [attempt[r] EXCEPT ![run[r].attempts].outcome = "completed"]

PersistBlueprint(c) ==
    LET r == call[c].run IN
    /\ call[c].pc = "persist"
    /\ call[c].checked
    /\ call[c].stage = "planning"
    /\ blueprint' = [blueprint EXCEPT ![r] = [status |-> "reviewable", plan |-> call[c].plan]]
    /\ Becomes(r, [Unleased(run[r], "blueprint_review") EXCEPT !.blueprint = call[c].plan])
    /\ attempt' = [attempt EXCEPT ![r] = Completed(r)]
    /\ Goes(c, IdleCall)
    /\ UNCHANGED <<right, lessons, review, seen>>

PersistLessons(c) ==
    LET r == call[c].run IN
    /\ call[c].pc = "persist"
    /\ call[c].checked
    /\ call[c].stage = "generating"
    /\ lessons' = [lessons EXCEPT ![r] = [plan |-> call[c].plan, content |-> call[c].output]]
    /\ Becomes(r, [Unleased(run[r], "review_ready") EXCEPT !.output = call[c].output])
    /\ attempt' = [attempt EXCEPT ![r] = Completed(r)]
    /\ Goes(c, IdleCall)
    /\ UNCHANGED <<right, blueprint, review, seen>>

-----------------------------------------------------------------------------
(* _finish_failure                                                          *)

FailedStatus(r, failure) ==
    IF failure = "rights" THEN "rights_blocked"
    ELSE IF failure = "permanent" \/ run[r].attempts >= MaxAttempts THEN "failed"
    ELSE "retryable"

\* What _finish_failure asks of the rows: neither the lease's expiry nor the
\* stage is looked at.
MayFinish(c) ==
    LET r == call[c].run IN
    /\ LastRunning(r)
    /\ run[r].status \in Stages
    /\ Owns(c)

FinishFailure(c) ==
    LET r == call[c].run
        status == FailedStatus(r, call[c].failure)
    IN
    /\ Begins(c, "finish")
    /\ MayFinish(c)
    /\ Becomes(r, Unleased(run[r], status))
    /\ attempt' = [attempt EXCEPT ![r][run[r].attempts].outcome = status]
    /\ Goes(c, IdleCall)
    /\ UNCHANGED <<right, blueprint, lessons, review, seen>>

FinishConflict(c) ==
    /\ Begins(c, "finish")
    /\ ~MayFinish(c)
    /\ Goes(c, IdleCall)
    /\ UNCHANGED <<right, rows, seen>>

-----------------------------------------------------------------------------
(* Reviewers                                                                *)

\* get_generation reads the run first and its blueprint in a later statement,
\* so the two may not belong together.
ReadRun(v, r) ==
    /\ run[r].status # "none"
    /\ seen' = [seen EXCEPT ![v] = [run |-> r, status |-> run[r].status,
                                    version |-> run[r].version, plan |-> None,
                                    output |-> run[r].output]]
    /\ UNCHANGED <<right, rows, call>>

ReadBlueprint(v) ==
    /\ seen[v].run # None
    /\ seen[v].plan = None
    /\ blueprint[seen[v].run].plan # None
    /\ seen' = [seen EXCEPT ![v].plan = blueprint[seen[v].run].plan]
    /\ UNCHANGED <<right, rows, call>>

\* A decision names the version its reviewer read, and locks the run.
StillAsRead(v) ==
    /\ seen[v].run # None
    /\ RowFree(seen[v].run)
    /\ run[seen[v].run].version = seen[v].version

\* The reviewer's plan is the one both the run and its open blueprint carry.
PlanAsRead(v) ==
    LET r == seen[v].run IN
    /\ run[r].status = "blueprint_review"
    /\ blueprint[r].status = "reviewable"
    /\ seen[v].plan = blueprint[r].plan
    /\ seen[v].plan = run[r].blueprint

ApproveBlueprint(v) ==
    LET r == seen[v].run IN
    /\ StillAsRead(v)
    /\ PlanAsRead(v)
    /\ review' = [review EXCEPT ![r].decision = "approve", ![r].reviewed = seen[v].plan]
    /\ blueprint' = [blueprint EXCEPT ![r].status = "approved"]
    /\ Becomes(r, [run[r] EXCEPT !.status = "generation_queued"])
    /\ UNCHANGED <<right, attempt, lessons, call, seen>>

RejectBlueprint(v) ==
    LET r == seen[v].run IN
    /\ StillAsRead(v)
    /\ PlanAsRead(v)
    /\ review' = [review EXCEPT ![r].decision = "reject", ![r].reviewed = seen[v].plan]
    /\ blueprint' = [blueprint EXCEPT ![r].status = "rejected"]
    /\ Becomes(r, [run[r] EXCEPT !.status = "rejected"])
    /\ UNCHANGED <<right, attempt, lessons, call, seen>>

\* Mutant: the state the run is in is not compared.
OutputAsReadAnywhere(v) ==
    seen[v].output # None /\ seen[v].output = run[seen[v].run].output

OutputAsRead(v) ==
    LET r == seen[v].run IN
    /\ run[r].status = "review_ready"
    /\ seen[v].output = run[r].output

RejectOutput(v) ==
    LET r == seen[v].run IN
    /\ StillAsRead(v)
    /\ OutputAsRead(v)
    /\ review' = [review EXCEPT ![r].refused = seen[v].output]
    /\ Becomes(r, [run[r] EXCEPT !.status = "rejected"])
    /\ UNCHANGED <<right, attempt, blueprint, lessons, call, seen>>

\* Mutant: the scope is not locked, and the right is not looked at.
ScopeLockedUnchecked(r) == blueprint[r].status = "approved" /\ lessons[r] # None

\* _lock_canonicalization_scope: document, version, ingestion run and
\* authorization stay locked, so the right cannot end before the commit.
ScopeLocked(r) ==
    /\ right = "active"
    /\ blueprint[r].status = "approved"
    /\ lessons[r] # None

\* The curriculum of the course draft, put together from the stored lessons.
DraftOf(r) == lessons[r].content

Canonicalize(v) ==
    LET r == seen[v].run IN
    /\ StillAsRead(v)
    /\ OutputAsRead(v)
    /\ ScopeLocked(r)
    /\ review' = [review EXCEPT ![r].course = DraftOf(r)]
    /\ Becomes(r, [run[r] EXCEPT !.status = "canonicalized"])
    /\ UNCHANGED <<right, attempt, blueprint, lessons, call, seen>>

-----------------------------------------------------------------------------
LeaseLapse(r) ==
    /\ run[r].live
    /\ run' = [run EXCEPT ![r].live = FALSE]
    /\ UNCHANGED <<right, attempt, blueprint, lessons, review, call, seen>>

\* The calling process dies; an open transaction is rolled back.
Crash(c) ==
    /\ call[c].pc # "idle"
    /\ Goes(c, IdleCall)
    /\ UNCHANGED <<right, rows, seen>>

\* What a call of run_generation does once its claim passed the checks.
Continue(c) ==
    \/ ClaimCommit(c)
    \/ SourceBlocked(c)
    \/ PlanWork(c)
    \/ WriteWork(c)
    \/ WorkFails(c)
    \/ PersistCheck(c)
    \/ PersistBlocked(c)
    \/ PersistConflict(c)
    \/ PersistBlueprint(c)
    \/ PersistLessons(c)
    \/ FinishFailure(c)
    \/ FinishConflict(c)

\* run_generation is called for a run.
Claim(r) ==
    \/ ClaimExhausted(r)
    \/ ClaimBlocked(r)
    \/ \E c \in Calls : ClaimCheck(c, r)

Reads(v) == (\E r \in Runs : ReadRun(v, r)) \/ ReadBlueprint(v)

Decides(v) ==
    \/ ApproveBlueprint(v)
    \/ RejectBlueprint(v)
    \/ RejectOutput(v)
    \/ Canonicalize(v)

Next ==
    \/ GrantRight
    \/ EndRight
    \/ \E r \in Runs : StartGeneration(r) \/ Claim(r) \/ LeaseLapse(r)
    \/ \E c \in Calls : Continue(c) \/ Crash(c)
    \/ \E v \in Reviewers : Reads(v) \/ Decides(v)

Spec == Init /\ [][Next]_vars

\* Calls that are not killed go on, leases run out, and run_generation is called
\* again and again for the runs that wait for a worker.
Fairness ==
    /\ \A c \in Calls : WF_vars(Continue(c))
    /\ \A r \in Runs : WF_vars(Claim(r)) /\ WF_vars(LeaseLapse(r))

FairSpec == Spec /\ Fairness

-----------------------------------------------------------------------------
(* Safety.                                                                  *)

RunLeased(r) ==
    /\ run[r].status \in Stages <=> run[r].owner # None
    /\ run[r].live => run[r].status \in Stages
    /\ run[r].status \in {"none", "queued"} => run[r].attempts = 0
    /\ run[r].status \in Stages => run[r].attempts > 0
    /\ \A n \in Attempts :
          /\ n > run[r].attempts => attempt[r][n] = NoAttempt
          /\ n <= run[r].attempts => attempt[r][n].outcome # "none"
          /\ attempt[r][n].outcome = "running" <=>
                n = run[r].attempts /\ run[r].status \in Stages
    /\ run[r].status \in Stages => attempt[r][run[r].attempts].stage = run[r].status

\* A run is leased exactly while a worker plans or writes (the lease-shape check
\* of the database); then its last attempt runs, in the run's stage, and no other
\* attempt does; attempt_count is the number of attempts recorded.
LeaseDiscipline == \A r \in Runs : RunLeased(r)

Completes(r, n, stage) ==
    attempt[r][n].outcome = "completed" /\ attempt[r][n].stage = stage

RunExplained(r) ==
    /\ blueprint[r].status # "none" <=> \E n \in Attempts : Completes(r, n, "planning")
    /\ lessons[r] # None <=> \E n \in Attempts : Completes(r, n, "generating")
    /\ \A m, n \in Attempts :
          /\ Completes(r, n, "planning") /\ m > n => attempt[r][m].stage # "planning"
          /\ attempt[r][n].stage = "generating" =>
                \E k \in Attempts : k < n /\ Completes(r, k, "planning")
          /\ Completes(r, n, "generating") => n = run[r].attempts
          /\ attempt[r][n].outcome \in {"failed", "rights_blocked"} =>
                n = run[r].attempts /\ run[r].status = attempt[r][n].outcome
    /\ run[r].status = "retryable" =>
          /\ run[r].attempts \in 1 .. MaxAttempts - 1
          /\ attempt[r][run[r].attempts].outcome = "retryable"

\* The attempts of a run are its history: there is a blueprint, or there are
\* lessons, exactly if one attempt of that stage completed; no attempt plans once
\* a blueprint exists, and none writes before; whatever was failed, blocked or
\* completed last is what the run's status says.
AttemptsExplainRun == \A r \in Runs : RunExplained(r)

RunReviewed(r) ==
    LET row == run[r]
        plan == blueprint[r].plan
    IN
    /\ row.blueprint = plan
    /\ blueprint[r].status = "none" <=> plan = None
    /\ blueprint[r].status = "reviewable" <=> row.status = "blueprint_review"
    /\ blueprint[r].status = "approved" <=> review[r].decision = "approve"
    /\ blueprint[r].status = "rejected" <=> review[r].decision = "reject"
    /\ review[r].reviewed = IF review[r].decision = "none" THEN None ELSE plan
    /\ row.status \in {"none", "queued", "planning"} => blueprint[r].status = "none"
    /\ row.status \in {"generation_queued", "generating", "review_ready", "canonicalized"} =>
          blueprint[r].status = "approved"
    /\ row.output = IF lessons[r] = None THEN None ELSE lessons[r].content
    /\ lessons[r] # None =>
          /\ lessons[r].plan = plan
          /\ blueprint[r].status = "approved"
          /\ row.status \in {"review_ready", "canonicalized", "rejected"}
    /\ row.status \in {"review_ready", "canonicalized"} => lessons[r] # None
    /\ row.status = "rejected" <=> review[r].decision = "reject" \/ review[r].refused # None
    /\ row.status = "canonicalized" <=> review[r].course # None
    /\ review[r].refused \in {None, row.output}
    /\ review[r].course \in {None, row.output}

\* Nothing gets past a human gate: lessons exist only for the very blueprint that
\* was approved, a course draft holds exactly the lessons that were reviewed, and
\* a run has at most one final decision, with its evidence beside it; the rows
\* keep the shapes the database checks (result shape, exact evidence).
ReviewedExactly == \A r \in Runs : RunReviewed(r)

\* A row version stands for what was read under it: while a run's version is the
\* one a reviewer read, so are its status and its lessons, and the blueprint read
\* is the one it has; a decision that names the version is about nothing else,
\* whichever workers and reviewers moved the run in between.
VersionsTell ==
    \A v \in Reviewers :
        LET r == seen[v].run IN
        r # None =>
            /\ r \in Runs /\ run[r].status # "none"
            /\ seen[v].version <= run[r].version
            /\ seen[v].plan \in {None, blueprint[r].plan}
            /\ seen[v].version = run[r].version =>
                  seen[v].status = run[r].status /\ seen[v].output = run[r].output

\* At most one run of an ingestion is under way (uq_generation_runs_active_ingestion).
OneOpenRun ==
    \A r, q \in Runs : run[r].status \in Open /\ run[q].status \in Open => r = q

\* A run is blocked only when the right to generate has ended for good, however
\* late the call that found it ended reports; and no run exists without a right
\* that was once in force.
BlockedForGood ==
    \A r \in Runs :
        /\ run[r].status = "rights_blocked" => right = "ended"
        /\ run[r].status # "none" => right # "pending"

Stands(c) ==
    LET r == call[c].run IN
    /\ call[c].pc = "claim" => call[c].checked
    /\ call[c].checked =>
          /\ call[c].pc \in {"claim", "persist"}
          /\ \A d \in Calls : call[d].checked /\ call[d].run = r => d = c
          /\ IF call[c].pc = "claim"
             THEN /\ run[r].status \in Waiting \/ LeaseExpired(r)
                  /\ run[r].attempts < MaxAttempts
             ELSE run[r].status = call[c].stage /\ Owns(c)

\* Between its checks and its commit a call finds the run as it was checked: it
\* holds the row alone, and nothing but the clock and the right has moved.
ChecksStand == \A c \in Calls : Stands(c)

Carries(c) ==
    LET r == call[c].run IN
    /\ call[c].pc # "idle" => r \in Runs /\ run[r].status # "none"
    /\ call[c].pc \notin {"idle", "claim"} =>
          /\ call[c].attempt \in 1 .. run[r].attempts
          /\ call[c].stage = attempt[r][call[c].attempt].stage
          /\ call[c].stage = "generating" => blueprint[r].status = "approved"
    /\ call[c].pc = "persist" =>
          /\ call[c].stage = "planning" => call[c].plan \in Plans
          /\ call[c].stage = "generating" =>
                call[c].plan = blueprint[r].plan /\ call[c].output \in Outputs
    /\ call[c].pc = "finish" => call[c].failure # "none"
    /\ call[c].failure = "rights" => right = "ended"

\* What a call in progress carries: a run that exists, the attempt it opened and
\* its stage, what it is about to store, the reason it gives up.
CallsCarry == \A c \in Calls : Carries(c)

\* The inductive invariant the proofs rest on.
IndInv ==
    /\ TypeOK
    /\ LeaseDiscipline
    /\ AttemptsExplainRun
    /\ ReviewedExactly
    /\ VersionsTell
    /\ OneOpenRun
    /\ BlockedForGood
    /\ ChecksStand
    /\ CallsCarry

\* The transitions enforce_generation_run_mutation lets one save make.
MayMove(from, to) ==
    \/ from = "none" /\ to = "queued"
    \/ from = "queued" /\ to \in {"planning", "failed", "rights_blocked"}
    \/ from = "planning"
          /\ to \in {"planning", "blueprint_review", "retryable", "failed", "rights_blocked"}
    \/ from = "blueprint_review" /\ to \in {"generation_queued", "rejected"}
    \/ from = "generation_queued" /\ to \in {"generating", "failed", "rights_blocked"}
    \/ from = "generating"
          /\ to \in {"generating", "review_ready", "retryable", "failed", "rights_blocked"}
    \/ from = "review_ready" /\ to \in {"canonicalized", "rejected"}
    \/ from = "retryable" /\ to \in {"planning", "generating", "failed", "rights_blocked"}

\* The evidence it asks of a human decision, in the same transaction.
Evidenced(r, from, to) ==
    /\ from = "blueprint_review" /\ to = "generation_queued" =>
          review'[r].decision = "approve" /\ review'[r].reviewed = run[r].blueprint
    /\ from = "blueprint_review" /\ to = "rejected" =>
          review'[r].decision = "reject" /\ review'[r].reviewed = run[r].blueprint
    /\ from = "review_ready" /\ to = "rejected" => review'[r].refused = run[r].output
    /\ from = "review_ready" /\ to = "canonicalized" => review'[r].course = run[r].output

\* A row is inserted under a right in force; afterwards one save, or the two of a
\* claim that takes back a lease, moves the status and the version together, and
\* nothing changes once the run has ended.
RunTrigger(r) ==
    LET from == run[r].status
        to   == run'[r].status
    IN
    /\ from = "none" /\ to # from => right = "active"
    /\ from # to =>
          /\ MayMove(from, to)
          /\ Evidenced(r, from, to)
          /\ from # "none" => run'[r].version \in run[r].version + 1 .. run[r].version + 2
    /\ from \in Terminal => run'[r] = run[r]

AttemptTrigger(r, n) ==
    attempt[r][n].outcome \notin {"none", "running"} => attempt'[r][n] = attempt[r][n]

\* Only the decision moves a blueprint, and only its status.
BlueprintTrigger(r) ==
    blueprint[r].status # "none" /\ blueprint'[r] # blueprint[r] =>
        /\ blueprint[r].status = "reviewable"
        /\ blueprint'[r].status \in {"approved", "rejected"}
        /\ blueprint'[r].plan = blueprint[r].plan

\* Lessons, decisions, rejections and canonicalizations are only inserted.
EvidenceTrigger(r) ==
    /\ lessons[r] # None => lessons'[r] = lessons[r]
    /\ review[r].decision # "none" =>
          review'[r].decision = review[r].decision /\ review'[r].reviewed = review[r].reviewed
    /\ review[r].refused # None => review'[r].refused = review[r].refused
    /\ review[r].course # None => review'[r].course = review[r].course

\* The database's triggers never have to refuse what is written: a run takes the
\* transitions one by one, human decisions come with their evidence, and neither
\* a run that has ended, a closed attempt, a blueprint's content, the lessons nor
\* a decision is ever written again, whatever late call or reviewer comes back.
TriggersAccept ==
    [][\A r \in Runs :
          /\ RunTrigger(r)
          /\ BlueprintTrigger(r)
          /\ EvidenceTrigger(r)
          /\ \A n \in Attempts : AttemptTrigger(r, n)]_vars

-----------------------------------------------------------------------------
(* Progress.                                                                *)

\* A run that waits for a worker or is in its hands comes before a reviewer or
\* ends, even if calls die and outlive their leases, unless calls go on dying for
\* ever.
RunsSettle ==
    <>[][\A c \in Calls : ~Crash(c)]_vars =>
        \A r \in Runs :
            run[r].status \in Waiting \cup Stages ~> run[r].status \in Review \cup Terminal

-----------------------------------------------------------------------------
(* The promise this component keeps.                                        *)

\* How far a run has come, whatever became of its attempts.
StageOf(r) ==
    LET status == run[r].status IN
    IF \/ status \in {"queued", "planning"}
       \/ status = "retryable" /\ blueprint[r].status = "none"
    THEN "requested"
    ELSE IF status \in {"generation_queued", "generating", "retryable"} THEN "approved"
    ELSE IF status = "blueprint_review" THEN "planned"
    ELSE IF status = "review_ready" THEN "written"
    ELSE IF status = "canonicalized" THEN "accepted"
    ELSE IF status = "rejected" THEN "declined"
    ELSE IF status = "rights_blocked" THEN "blocked"
    ELSE status

Contract == INSTANCE GenerationContract WITH
    stage <- [r \in Runs |-> StageOf(r)],
    plan  <- [r \in Runs |-> blueprint[r].plan],
    text  <- lessons

\* Every behaviour of runs, leases, crashes, reviewers and ended rights is, seen
\* from outside, a behaviour of GenerationContract.
ImplementsContract == Contract!Spec

=============================================================================
