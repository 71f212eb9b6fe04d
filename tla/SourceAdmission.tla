-------------------------- MODULE SourceAdmission --------------------------
(***************************************************************************)
(* Admission of one source version: rights review, upload through opaque   *)
(* targets (upload intents), quarantine storage, validation and removal    *)
(* jobs, and the reconciler's orphan pass, as written in                   *)
(* lms/modules/documents/services.py over PostgreSQL at READ COMMITTED.    *)
(*                                                                         *)
(* A transaction locks the rows it decides on (document and version, or    *)
(* the job or target it was called for, then those) before it writes, so   *)
(* it is one action; one the database aborts is none.  Storage and         *)
(* inspector calls run between transactions and are actions of their own;  *)
(* so are the crashes of the processes that make them.  Clocks are         *)
(* abstracted: a deadline is a flag that a step clears, at any moment.     *)
(***************************************************************************)
EXTENDS Naturals

CONSTANTS
    Intents,        \* upload intents the version may be issued
    Uploaders,      \* requests to the opaque upload target
    Workers,        \* calls of run_validation_job and run_removal_job
    Sweepers,       \* calls of _reconcile_orphan_storage
    Bodies,         \* request bodies, told apart by their digest
    SafeBodies,     \* the bodies the inspector accepts
    MaxAttempts,    \* DocumentJob.max_attempts
    None

ASSUME BodiesAssumption == SafeBodies \subseteq Bodies /\ None \notin Bodies
ASSUME NoneAssumption   == None \notin Intents /\ None \notin Workers
ASSUME AttemptsAssumption == MaxAttempts \in Nat \ {0}

VARIABLES
    auth,           \* SourceUseAuthorization.status of the store operation
    rightsLive,     \* the declaration's valid_until is still ahead
    version,        \* SourceVersion.admission_status
    removal,        \* SourceVersion.removal_status
    intent,         \* the upload intents' rows
    object,         \* the StorageObject row, if any
    file,           \* quarantine storage: the bytes under each intent's locator
    job,            \* the DocumentJob rows, one per stage
    attempt,        \* the DocumentJobAttempt rows, by stage and attempt number
    uploader,       \* local state of the upload requests
    worker,         \* local state of the job runs
    sweeper         \* local state of the orphan passes

rows  == <<auth, version, removal, intent, object, job, attempt>>
procs == <<uploader, worker, sweeper>>
vars  == <<auth, rightsLive, version, removal, intent, object, file, job,
           attempt, uploader, worker, sweeper>>

-----------------------------------------------------------------------------
Stages == {"validate_admission", "remove_quarantine_object"}
Attempts == 1 .. MaxAttempts

Authorizations == {"requested", "active", "denied", "revoked", "expired", "disputed"}

Versions == {"rights_pending", "upload_pending", "quarantined", "validating",
             "admitted", "rejected", "cancelled", "blocked"}

\* The states a trusted or reviewer decision may still block.
Blockable == {"upload_pending", "quarantined", "validating", "admitted"}
Cancellable == {"rights_pending", "upload_pending", "quarantined", "validating"}
Withdrawn == {"cancelled", "blocked"}

IntentRows ==
    [status    : {"unissued", "active", "consumed", "expired", "cancelled"},
     live      : BOOLEAN,               \* expires_at is still ahead
     claim     : Bodies \cup {None},    \* upload_claim_digest
     claimLive : BOOLEAN]               \* upload_claim_expires_at is still ahead

ObjectRows ==
    [status : {"none", "present", "missing", "deleted"},
     intent : Intents \cup {None},
     body   : Bodies \cup {None}]

JobRows ==
    [status   : {"none", "pending", "claimed", "retryable", "completed",
                 "failed", "cancelled"},
     owner    : Workers \cup {None},
     live     : BOOLEAN,                \* lease_expires_at is still ahead
     attempts : 0 .. MaxAttempts]

Outcomes == {"none", "running", "retryable", "failed", "completed", "cancelled"}

UploaderStates ==
    [pc     : {"idle", "put", "release", "record", "cleanup"},
     intent : Intents \cup {None},
     body   : Bodies \cup {None}]

WorkerStates ==
    [pc      : {"idle", "read", "decide", "delete", "check", "settle"},
     attempt : 0 .. MaxAttempts,
     result  : {"none", "admitted", "rejected", "missing", "unavailable", "absent"}]

SweeperStates ==
    [pc      : {"idle", "query", "delete", "check", "release"},
     found   : SUBSET Intents,          \* locators listed and not yet handled
     current : Intents \cup {None}]

NoIntent   == [status |-> "unissued", live |-> FALSE, claim |-> None, claimLive |-> FALSE]
NoObject   == [status |-> "none", intent |-> None, body |-> None]
NoJob      == [status |-> "none", owner |-> None, live |-> FALSE, attempts |-> 0]
PendingJob == [status |-> "pending", owner |-> None, live |-> FALSE, attempts |-> 0]
IdleUpload  == [pc |-> "idle", intent |-> None, body |-> None]
IdleWorker  == [pc |-> "idle", attempt |-> 0, result |-> "none"]
IdleSweeper == [pc |-> "idle", found |-> {}, current |-> None]

TypeOK ==
    /\ auth \in Authorizations
    /\ rightsLive \in BOOLEAN
    /\ version \in Versions
    /\ removal \in {"not_required", "pending", "completed", "failed"}
    /\ intent \in [Intents -> IntentRows]
    /\ object \in ObjectRows
    /\ file \in [Intents -> Bodies \cup {None}]
    /\ job \in [Stages -> JobRows]
    /\ attempt \in [Stages -> [Attempts -> Outcomes]]
    /\ uploader \in [Uploaders -> UploaderStates]
    /\ worker \in [Workers -> WorkerStates]
    /\ sweeper \in [Sweepers -> SweeperStates]

\* create_admission: the declaration, the requested store authorization and
\* version 1 of the document, before any upload target exists.
Init ==
    /\ auth = "requested"
    /\ rightsLive = TRUE
    /\ version = "rights_pending"
    /\ removal = "not_required"
    /\ intent = [i \in Intents |-> NoIntent]
    /\ object = NoObject
    /\ file = [i \in Intents |-> None]
    /\ job = [s \in Stages |-> NoJob]
    /\ attempt = [s \in Stages |-> [n \in Attempts |-> "none"]]
    /\ uploader = [u \in Uploaders |-> IdleUpload]
    /\ worker = [w \in Workers |-> IdleWorker]
    /\ sweeper = [s \in Sweepers |-> IdleSweeper]

AuthorizationIsActive == auth = "active" /\ rightsLive

\* An intent's row once its upload claim is cleared, in the given status.
Unclaimed(i, status) ==
    [status |-> status, live |-> intent[i].live, claim |-> None, claimLive |-> FALSE]

\* The job rows once stage s has left its lease for the given status.
Unleased(s, status) ==
    [job EXCEPT ![s] = [status |-> status, owner |-> None, live |-> FALSE,
                        attempts |-> job[s].attempts]]

-----------------------------------------------------------------------------
(* Rights review, trusted blocks and cancellation.                         *)

ReviewActivate ==
    /\ auth = "requested"
    /\ rightsLive
    /\ version = "rights_pending"       \* source_versions_lifecycle trigger
    /\ auth' = "active"
    /\ version' = "upload_pending"
    /\ UNCHANGED <<rightsLive, removal, intent, object, file, job, attempt, procs>>

ReviewDeny ==
    /\ auth = "requested"
    /\ version = "rights_pending"       \* source_versions_lifecycle trigger
    /\ auth' = "denied"
    /\ version' = "rejected"
    /\ UNCHANGED <<rightsLive, removal, intent, object, file, job, attempt, procs>>

\* The removal job is created only for an object still in the inventory.
ScheduleRemoval(jobs) ==
    IF object.status = "present"
    THEN /\ removal' = "pending"
         /\ job' = IF jobs["remove_quarantine_object"].status = "none"
                   THEN [jobs EXCEPT !["remove_quarantine_object"] = PendingJob]
                   ELSE jobs
    ELSE /\ removal' = "not_required"
         /\ job' = jobs

\* Mutant of CancelledIntents: open targets are forgotten.
CancelledIntentsForgotten == intent

CancelledIntents ==
    [i \in Intents |->
        IF intent[i].status = "active" THEN Unclaimed(i, "cancelled") ELSE intent[i]]

CancelledValidation ==
    IF job["validate_admission"].status \in {"pending", "claimed", "retryable"}
    THEN Unleased("validate_admission", "cancelled")
    ELSE job

\* What revoke, a trusted block and a cancellation all write besides their own
\* status: the version, its open targets, its validation and its removal job.
StopAdmission(terminal) ==
    /\ version' = terminal
    /\ intent' = CancelledIntents
    /\ ScheduleRemoval(CancelledValidation)
    /\ UNCHANGED <<rightsLive, object, file, attempt, procs>>

ReviewRevoke ==
    /\ auth = "active"
    /\ version \in Blockable
    /\ auth' = "revoked"
    /\ StopAdmission("blocked")

BlockAuthorization(status) ==
    /\ auth = "active"
    /\ status = "expired" => ~rightsLive
    /\ version \in Blockable
    /\ auth' = status
    /\ StopAdmission("blocked")

CancelAdmission ==
    /\ version \in Cancellable
    /\ StopAdmission("cancelled")
    /\ UNCHANGED auth

-----------------------------------------------------------------------------
(* Upload targets and the upload itself.                                   *)

Overdue(i) == intent[i].status = "active" /\ ~intent[i].live

\* Mutant of CreateUploadIntent: no conflict with a target still open.
CreateUploadIntentUnchecked(i) ==
    /\ intent[i].status = "unissued"
    /\ AuthorizationIsActive
    /\ version = "upload_pending"
    /\ intent' = [intent EXCEPT ![i] =
                    [status |-> "active", live |-> TRUE, claim |-> None, claimLive |-> FALSE]]
    /\ UNCHANGED <<auth, rightsLive, version, removal, object, file, job, attempt, procs>>

\* Overdue active intents are expired first.  The check constraint
\* ck_source_intents_upload_claim lets only an active intent hold a claim, so
\* the transaction aborts while an overdue intent still holds one.
CreateUploadIntent(i) ==
    /\ intent[i].status = "unissued"
    /\ AuthorizationIsActive
    /\ version = "upload_pending"
    /\ \A j \in Intents : intent[j].status = "active" => Overdue(j) /\ intent[j].claim = None
    /\ intent' = [j \in Intents |->
                    IF j = i
                    THEN [status |-> "active", live |-> TRUE, claim |-> None, claimLive |-> FALSE]
                    ELSE IF Overdue(j) THEN [intent[j] EXCEPT !.status = "expired"]
                    ELSE intent[j]]
    /\ UNCHANGED <<auth, rightsLive, version, removal, object, file, job, attempt, procs>>

\* An upload to an overdue target commits the expiry and answers 410; the same
\* constraint aborts it while a claim is held.
UploadExpired(i) ==
    /\ Overdue(i)
    /\ intent[i].claim = None
    /\ intent' = [intent EXCEPT ![i].status = "expired"]
    /\ UNCHANGED <<auth, rightsLive, version, removal, object, file, job, attempt, procs>>

\* _reject_before_storage: wrong media type, too large or empty.  It looks at
\* neither the authorization nor the version; the constraint on claims and the
\* version trigger decide whether it commits.
RejectBeforeStorage(i) ==
    /\ intent[i].status = "active"
    /\ intent[i].live
    /\ intent[i].claim = None
    /\ version \in {"rights_pending", "upload_pending", "quarantined", "validating"}
    /\ intent' = [intent EXCEPT ![i].status = "consumed"]
    /\ version' = "rejected"
    /\ UNCHANGED <<auth, rightsLive, removal, object, file, job, attempt, procs>>

\* First transaction of upload_to_intent: claim the intent for this body.
ClaimIntent(u, i, b) ==
    /\ uploader[u].pc = "idle"
    /\ intent[i].status = "active"
    /\ intent[i].live
    /\ version = "upload_pending"
    /\ AuthorizationIsActive
    /\ ~intent[i].claimLive
    /\ intent' = [intent EXCEPT ![i].claim = b, ![i].claimLive = TRUE]
    /\ uploader' = [uploader EXCEPT ![u] = [pc |-> "put", intent |-> i, body |-> b]]
    /\ UNCHANGED <<auth, rightsLive, version, removal, object, file, job, attempt,
                   worker, sweeper>>

\* LocalQuarantineStorage.put: a temporary file, then os.replace.  Two requests
\* writing the one temporary file of a target at once are not told apart.
StoragePut(u) ==
    /\ uploader[u].pc = "put"
    /\ file' = [file EXCEPT ![uploader[u].intent] = uploader[u].body]
    /\ uploader' = [uploader EXCEPT ![u].pc = "record"]
    /\ UNCHANGED <<rightsLive, rows, worker, sweeper>>

StoragePutFails(u) ==
    /\ uploader[u].pc = "put"
    /\ uploader' = [uploader EXCEPT ![u].pc = "release"]
    /\ UNCHANGED <<rightsLive, rows, file, worker, sweeper>>

\* After an OSError the claim is released if it still names this body.
ReleaseClaim(u) ==
    LET i == uploader[u].intent IN
    /\ uploader[u].pc = "release"
    /\ intent' = IF intent[i].claim = uploader[u].body
                 THEN [intent EXCEPT ![i] = Unclaimed(i, intent[i].status)]
                 ELSE intent
    /\ uploader' = [uploader EXCEPT ![u] = IdleUpload]
    /\ UNCHANGED <<auth, rightsLive, version, removal, object, file, job, attempt,
                   worker, sweeper>>

\* The second transaction's re-check: the claim is compared by body digest, and
\* its own expiry is not looked at again.
UploadStillValid(u) ==
    LET i == uploader[u].intent IN
    /\ intent[i].status = "active"
    /\ intent[i].claim = uploader[u].body
    /\ intent[i].live
    /\ version = "upload_pending"
    /\ AuthorizationIsActive

\* The request then calls run_validation_job inline: one of the Workers.
RecordUpload(u) ==
    LET i == uploader[u].intent IN
    /\ uploader[u].pc = "record"
    /\ UploadStillValid(u)
    /\ object.status = "none"                           \* uq_source_objects_version
    /\ job["validate_admission"].status = "none"        \* one job per version and stage
    /\ object' = [status |-> "present", intent |-> i, body |-> uploader[u].body]
    /\ intent' = [intent EXCEPT ![i] = Unclaimed(i, "consumed")]
    /\ version' = "quarantined"
    /\ job' = [job EXCEPT !["validate_admission"] = PendingJob]
    /\ uploader' = [uploader EXCEPT ![u] = IdleUpload]
    /\ UNCHANGED <<auth, rightsLive, removal, file, attempt, worker, sweeper>>

DiscardUpload(u) ==
    /\ uploader[u].pc = "record"
    /\ ~UploadStillValid(u)
    /\ uploader' = [uploader EXCEPT ![u].pc = "cleanup"]
    /\ UNCHANGED <<rightsLive, rows, file, worker, sweeper>>

\* cleanup_orphan: the locator is the intent's, whoever stored under it last.
\* The deletion may fail; the request ends either way.
CleanupOrphan(u) ==
    /\ uploader[u].pc = "cleanup"
    /\ \/ file' = [file EXCEPT ![uploader[u].intent] = None]
       \/ UNCHANGED file
    /\ uploader' = [uploader EXCEPT ![u] = IdleUpload]
    /\ UNCHANGED <<rightsLive, rows, worker, sweeper>>

-----------------------------------------------------------------------------
(* Validation and removal jobs: claim, work between transactions, settle.  *)

\* Mutant of HeldBy: the status is compared, the lease owner is not.
HeldByAnyone(s, w) == job[s].status = "claimed"

HeldBy(s, w) == job[s].status = "claimed" /\ job[s].owner = w
LeaseExpired(s) == job[s].status = "claimed" /\ ~job[s].live

\* Mutant of Claimable: retryable jobs are not picked up.
ClaimableOnce(s) == job[s].status = "pending" \/ LeaseExpired(s)

Claimable(s) == job[s].status \in {"pending", "retryable"} \/ LeaseExpired(s)
Exhausted(s) == job[s].attempts = MaxAttempts

\* Mutant of ClosedAttempts: a reclaim leaves the lost attempt running.
ClosedAttemptsSkipped(s) == attempt[s]

\* The running attempt of an expired lease is closed when the job is reclaimed.
\* (The only attempt numbered 0 is the absent one of a job never claimed.)
ClosedAttempts(s) ==
    [n \in Attempts |->
        IF LeaseExpired(s) /\ n = job[s].attempts
        THEN IF Exhausted(s) THEN "failed" ELSE "retryable"
        ELSE attempt[s][n]]

\* An expired lease of the last attempt: the job fails without another run.
FailExhausted(s) ==
    /\ LeaseExpired(s)
    /\ Exhausted(s)
    /\ job' = Unleased(s, "failed")
    /\ attempt' = [attempt EXCEPT ![s] = ClosedAttempts(s)]
    /\ IF s = "validate_admission"
       THEN version' = "quarantined" /\ UNCHANGED removal
       ELSE removal' = "failed" /\ UNCHANGED version
    /\ UNCHANGED <<auth, rightsLive, intent, object, file, procs>>

\* Mutant of StartAttempt: max_attempts is not looked at.
StartAttemptUnbounded(s, w, pc) ==
    LET n == job[s].attempts + 1 IN
    /\ worker[w].pc = "idle"
    /\ Claimable(s)
    /\ job' = [job EXCEPT ![s] = [status |-> "claimed", owner |-> w, live |-> TRUE,
                                  attempts |-> n]]
    /\ attempt' = [attempt EXCEPT ![s] = ClosedAttempts(s)]
    /\ worker' = [worker EXCEPT ![w] = [pc |-> pc, attempt |-> n, result |-> "none"]]

\* claimed, attempt_count + 1, a new lease and a running attempt.
StartAttempt(s, w, pc) ==
    LET n == job[s].attempts + 1 IN
    /\ worker[w].pc = "idle"
    /\ Claimable(s)
    /\ ~Exhausted(s)
    /\ job' = [job EXCEPT ![s] = [status |-> "claimed", owner |-> w, live |-> TRUE,
                                  attempts |-> n]]
    /\ attempt' = [attempt EXCEPT ![s] = [ClosedAttempts(s) EXCEPT ![n] = "running"]]
    /\ worker' = [worker EXCEPT ![w] = [pc |-> pc, attempt |-> n, result |-> "none"]]

ClaimValidation(w) ==
    /\ AuthorizationIsActive
    /\ version \notin Withdrawn
    /\ StartAttempt("validate_admission", w, "read")
    /\ version' = "validating"
    /\ UNCHANGED <<auth, rightsLive, removal, intent, object, file, uploader, sweeper>>

\* Mutant of CancelBlockedValidation: without ck_document_jobs_lease_shape, an
\* expired lease is cancelled with its owner left in place.
CancelBlockedValidationLeased ==
    /\ Claimable("validate_admission")
    /\ ~AuthorizationIsActive \/ version \in Withdrawn
    /\ job' = [job EXCEPT !["validate_admission"].status = "cancelled"]
    /\ UNCHANGED <<auth, rightsLive, version, removal, intent, object, file, attempt, procs>>

\* authorization_blocked.  The lease columns are not cleared, so for an expired
\* lease ck_document_jobs_lease_shape aborts the transaction: only a pending or
\* retryable job gets here.
CancelBlockedValidation ==
    /\ job["validate_admission"].status \in {"pending", "retryable"}
    /\ ~AuthorizationIsActive \/ version \in Withdrawn
    /\ job' = Unleased("validate_admission", "cancelled")
    /\ UNCHANGED <<auth, rightsLive, version, removal, intent, object, file, attempt, procs>>

\* Mutant of Inspection: the checksum recorded at upload is not compared.
InspectionUnchecked(b) ==
    {"unavailable"} \cup
    (IF b = None THEN {"missing"} ELSE IF b \in SafeBodies THEN {"admitted"} ELSE {"rejected"})

\* storage.read, the checksum comparison and the inspector.  Reading may fail
\* and the inspector may be unavailable for any body.
Inspection(b) ==
    {"unavailable"} \cup
    (IF b = None THEN {"missing"}
     ELSE IF b = object.body /\ b \in SafeBodies THEN {"admitted"}
     ELSE {"rejected"})

\* A call's local state as it goes on to pc with what it has found out.
At(w, pc, result) == [pc |-> pc, attempt |-> worker[w].attempt, result |-> result]

ReadAndInspect(w) ==
    /\ worker[w].pc = "read"
    /\ \E r \in Inspection(file[object.intent]) :
          worker' = [worker EXCEPT ![w] = At(w, "decide", r)]
    /\ UNCHANGED <<rightsLive, rows, file, uploader, sweeper>>

\* The settling write of either stage: lease cleared, attempt closed.
Close(s, w, status, outcome) ==
    /\ job' = Unleased(s, status)
    /\ attempt' = [attempt EXCEPT ![s][worker[w].attempt] = outcome]
    /\ worker' = [worker EXCEPT ![w] = IdleWorker]

Retry(s, w) ==
    IF Exhausted(s) THEN Close(s, w, "failed", "failed")
                    ELSE Close(s, w, "retryable", "retryable")

\* Mutant of ResultCounts: a result counts whatever became of job and version.
ResultCountsAlways(w) == worker[w].pc = "decide"

\* The result counts while the lease is this call's and the rights hold.
ResultCounts(w) ==
    /\ worker[w].pc = "decide"
    /\ HeldBy("validate_admission", w)
    /\ AuthorizationIsActive
    /\ version \notin Withdrawn

Admit(w) ==
    /\ ResultCounts(w)
    /\ worker[w].result = "admitted"
    /\ version' = "admitted"
    /\ Close("validate_admission", w, "completed", "completed")
    /\ UNCHANGED <<auth, rightsLive, removal, intent, object, file, uploader, sweeper>>

Reject(w) ==
    /\ ResultCounts(w)
    /\ worker[w].result \in {"rejected", "missing"}
    /\ version' = "rejected"
    /\ Close("validate_admission", w, "completed", "failed")
    /\ object' = IF worker[w].result = "missing"
                 THEN [object EXCEPT !.status = "missing"]
                 ELSE object
    /\ UNCHANGED <<auth, rightsLive, removal, intent, file, uploader, sweeper>>

\* Mutant of Postpone: the version is not returned to quarantine.
PostponeInPlace(w) ==
    /\ ResultCounts(w)
    /\ worker[w].result = "unavailable"
    /\ Retry("validate_admission", w)
    /\ UNCHANGED <<auth, rightsLive, version, removal, intent, object, file, uploader, sweeper>>

Postpone(w) ==
    /\ ResultCounts(w)
    /\ worker[w].result = "unavailable"
    /\ version' = "quarantined"
    /\ Retry("validate_admission", w)
    /\ UNCHANGED <<auth, rightsLive, removal, intent, object, file, uploader, sweeper>>

\* result_discarded_after_block: the rights lapsed with nobody having blocked
\* the version yet.  The version's status is left as it is.
DiscardResult(w) ==
    /\ worker[w].pc = "decide"
    /\ HeldBy("validate_admission", w)
    /\ ~AuthorizationIsActive \/ version \in Withdrawn
    /\ Close("validate_admission", w, "cancelled", "cancelled")
    /\ UNCHANGED <<auth, rightsLive, version, removal, intent, object, file, uploader, sweeper>>

\* The job was cancelled under the worker: it closes its own attempt, unless
\* that one is already closed and document_attempts_immutable aborts.
AcknowledgeCancel(w) ==
    LET n == worker[w].attempt IN
    /\ worker[w].pc = "decide"
    /\ job["validate_admission"].status = "cancelled"
    /\ attempt' = IF attempt["validate_admission"][n] = "running"
                  THEN [attempt EXCEPT !["validate_admission"][n] = "cancelled"]
                  ELSE attempt
    /\ worker' = [worker EXCEPT ![w] = IdleWorker]
    /\ UNCHANGED <<auth, rightsLive, version, removal, intent, object, file, job,
                   uploader, sweeper>>

\* The lease went to another call: SOURCE_ADMISSION_STATE_CONFLICT.
LoseLease(w) ==
    /\ \/ /\ worker[w].pc = "decide"
          /\ ~HeldBy("validate_admission", w)
          /\ job["validate_admission"].status # "cancelled"
       \/ worker[w].pc = "settle" /\ ~HeldBy("remove_quarantine_object", w)
    /\ worker' = [worker EXCEPT ![w] = IdleWorker]
    /\ UNCHANGED <<rightsLive, rows, file, uploader, sweeper>>

ClaimRemoval(w) ==
    /\ StartAttempt("remove_quarantine_object", w, "delete")
    /\ UNCHANGED <<auth, rightsLive, version, removal, intent, object, file, uploader, sweeper>>

DeleteObject(w) ==
    /\ worker[w].pc = "delete"
    /\ \/ /\ file' = [file EXCEPT ![object.intent] = None]
          /\ worker' = [worker EXCEPT ![w] = At(w, "check", "none")]
       \/ /\ worker' = [worker EXCEPT ![w] = At(w, "settle", "unavailable")]
          /\ UNCHANGED file
    /\ UNCHANGED <<rightsLive, rows, uploader, sweeper>>

ObserveAbsence(w) ==
    /\ worker[w].pc = "check"
    /\ LET result == IF file[object.intent] = None THEN "absent" ELSE "unavailable"
       IN  worker' = [worker EXCEPT ![w] = At(w, "settle", result)]
    /\ UNCHANGED <<rightsLive, rows, file, uploader, sweeper>>

CompleteRemoval(w) ==
    /\ worker[w].pc = "settle"
    /\ HeldBy("remove_quarantine_object", w)
    /\ worker[w].result = "absent"
    /\ object' = [object EXCEPT !.status = "deleted"]
    /\ removal' = "completed"
    /\ Close("remove_quarantine_object", w, "completed", "completed")
    /\ UNCHANGED <<auth, rightsLive, version, intent, file, uploader, sweeper>>

\* Mutant of RemovalUnavailable: the last failure is still reported pending.
RemovalUnavailablePending(w) ==
    /\ worker[w].pc = "settle"
    /\ HeldBy("remove_quarantine_object", w)
    /\ worker[w].result = "unavailable"
    /\ removal' = "pending"
    /\ Retry("remove_quarantine_object", w)
    /\ UNCHANGED <<auth, rightsLive, version, intent, object, file, uploader, sweeper>>

RemovalUnavailable(w) ==
    /\ worker[w].pc = "settle"
    /\ HeldBy("remove_quarantine_object", w)
    /\ worker[w].result = "unavailable"
    /\ removal' = IF Exhausted("remove_quarantine_object") THEN "failed" ELSE "pending"
    /\ Retry("remove_quarantine_object", w)
    /\ UNCHANGED <<auth, rightsLive, version, intent, object, file, uploader, sweeper>>

-----------------------------------------------------------------------------
(* The reconciler's orphan pass; the jobs it then runs are Workers.        *)

ListLocators(s) ==
    /\ sweeper[s].pc = "idle"
    /\ sweeper' = [sweeper EXCEPT ![s] = [pc |-> "query", current |-> None,
                                          found |-> {i \in Intents : file[i] # None}]]
    /\ UNCHANGED <<rightsLive, rows, file, uploader, worker>>

\* The inventory is read without a lock, once for the whole pass.
QueryInventory(s) ==
    /\ sweeper[s].pc = "query"
    /\ sweeper' = [sweeper EXCEPT ![s].pc = "delete",
                    ![s].found = {i \in @ : ~(object.status = "present" /\ object.intent = i)}]
    /\ UNCHANGED <<rightsLive, rows, file, uploader, worker>>

\* A failed deletion leaves the locator to a later pass.
DeleteOrphan(s, i) ==
    /\ sweeper[s].pc = "delete"
    /\ i \in sweeper[s].found
    /\ \/ /\ file' = [file EXCEPT ![i] = None]
          /\ sweeper' = [sweeper EXCEPT ![s] = [pc |-> "check", current |-> i,
                                                found |-> sweeper[s].found \ {i}]]
       \/ /\ sweeper' = [sweeper EXCEPT ![s].found = @ \ {i}]
          /\ UNCHANGED file
    /\ UNCHANGED <<rightsLive, rows, uploader, worker>>

CheckOrphan(s) ==
    /\ sweeper[s].pc = "check"
    /\ sweeper' = IF file[sweeper[s].current] = None
                  THEN [sweeper EXCEPT ![s].pc = "release"]
                  ELSE [sweeper EXCEPT ![s].pc = "delete", ![s].current = None]
    /\ UNCHANGED <<rightsLive, rows, file, uploader, worker>>

\* An active intent loses its upload claim, live or not.
ReleaseOrphanClaim(s) ==
    LET i == sweeper[s].current IN
    /\ sweeper[s].pc = "release"
    /\ intent' = IF intent[i].status = "active"
                 THEN [intent EXCEPT ![i] = Unclaimed(i, intent[i].status)]
                 ELSE intent
    /\ sweeper' = [sweeper EXCEPT ![s].pc = "delete", ![s].current = None]
    /\ UNCHANGED <<auth, rightsLive, version, removal, object, file, job, attempt,
                   uploader, worker>>

EndPass(s) ==
    /\ sweeper[s].pc = "delete"
    /\ sweeper[s].found = {}
    /\ sweeper' = [sweeper EXCEPT ![s] = IdleSweeper]
    /\ UNCHANGED <<rightsLive, rows, file, uploader, worker>>

-----------------------------------------------------------------------------
(* Deadlines and crashes.                                                  *)

RightsLapse ==
    /\ rightsLive
    /\ rightsLive' = FALSE
    /\ UNCHANGED <<rows, file, procs>>

IntentLapse(i) ==
    /\ intent[i].live
    /\ intent' = [intent EXCEPT ![i].live = FALSE]
    /\ UNCHANGED <<auth, rightsLive, version, removal, object, file, job, attempt, procs>>

ClaimLapse(i) ==
    /\ intent[i].claimLive
    /\ intent' = [intent EXCEPT ![i].claimLive = FALSE]
    /\ UNCHANGED <<auth, rightsLive, version, removal, object, file, job, attempt, procs>>

LeaseLapse(s) ==
    /\ job[s].live
    /\ job' = [job EXCEPT ![s].live = FALSE]
    /\ UNCHANGED <<auth, rightsLive, version, removal, intent, object, file, attempt, procs>>

CrashUpload(u) ==
    /\ uploader[u].pc # "idle"
    /\ uploader' = [uploader EXCEPT ![u] = IdleUpload]
    /\ UNCHANGED <<rightsLive, rows, file, worker, sweeper>>

CrashWorker(w) ==
    /\ worker[w].pc # "idle"
    /\ worker' = [worker EXCEPT ![w] = IdleWorker]
    /\ UNCHANGED <<rightsLive, rows, file, uploader, sweeper>>

CrashSweeper(s) ==
    /\ sweeper[s].pc # "idle"
    /\ sweeper' = [sweeper EXCEPT ![s] = IdleSweeper]
    /\ UNCHANGED <<rightsLive, rows, file, uploader, worker>>

-----------------------------------------------------------------------------
Decide ==
    \/ ReviewActivate
    \/ ReviewDeny
    \/ ReviewRevoke
    \/ \E status \in {"expired", "disputed"} : BlockAuthorization(status)
    \/ CancelAdmission

Target ==
    \E i \in Intents : CreateUploadIntent(i) \/ UploadExpired(i) \/ RejectBeforeStorage(i)

\* What an upload request does once it holds a claim.
Upload(u) ==
    \/ StoragePut(u)
    \/ StoragePutFails(u)
    \/ ReleaseClaim(u)
    \/ RecordUpload(u)
    \/ DiscardUpload(u)
    \/ CleanupOrphan(u)

\* What a job run does once it holds a lease.
Run(w) ==
    \/ ReadAndInspect(w)
    \/ Admit(w)
    \/ Reject(w)
    \/ Postpone(w)
    \/ DiscardResult(w)
    \/ AcknowledgeCancel(w)
    \/ LoseLease(w)
    \/ DeleteObject(w)
    \/ ObserveAbsence(w)
    \/ CompleteRemoval(w)
    \/ RemovalUnavailable(w)

Sweep(s) ==
    \/ ListLocators(s)
    \/ QueryInventory(s)
    \/ \E i \in Intents : DeleteOrphan(s, i)
    \/ CheckOrphan(s)
    \/ ReleaseOrphanClaim(s)
    \/ EndPass(s)

Lapse ==
    \/ RightsLapse
    \/ \E i \in Intents : IntentLapse(i) \/ ClaimLapse(i)
    \/ \E s \in Stages : LeaseLapse(s)

Crash ==
    \/ \E u \in Uploaders : CrashUpload(u)
    \/ \E w \in Workers : CrashWorker(w)
    \/ \E s \in Sweepers : CrashSweeper(s)

\* Claims of jobs that owe work, and reclaims of expired leases.
Claim(w) == ClaimValidation(w) \/ ClaimRemoval(w)

Step ==
    \/ Decide
    \/ Target
    \/ \E u \in Uploaders, i \in Intents, b \in Bodies : ClaimIntent(u, i, b)
    \/ \E u \in Uploaders : Upload(u)
    \/ \E w \in Workers : Claim(w) \/ Run(w)
    \/ CancelBlockedValidation
    \/ \E s \in Stages : FailExhausted(s)
    \/ \E s \in Sweepers : Sweep(s)
    \/ Lapse

Next == Step \/ Crash

Spec == Init /\ [][Next]_vars

\* A pass of reconcile_pending runs pending and retryable jobs only: nothing in
\* the code calls a job again because its lease has expired.
ReconcileJob(w) ==
    \/ ~LeaseExpired("validate_admission") /\ ClaimValidation(w)
    \/ ~LeaseExpired("remove_quarantine_object") /\ ClaimRemoval(w)

\* Calls that are not killed go on, and reconcile_pending is called repeatedly.
Fairness ==
    /\ \A u \in Uploaders : WF_vars(Upload(u))
    /\ \A w \in Workers : WF_vars(Run(w)) /\ WF_vars(ReconcileJob(w))
    /\ WF_vars(CancelBlockedValidation)
    /\ \A s \in Sweepers : WF_vars(Sweep(s))

FairSpec == Spec /\ Fairness
CrashFreeSpec == Init /\ [][Step]_vars /\ Fairness

-----------------------------------------------------------------------------
(* Safety.                                                                 *)

\* A job is claimed exactly while some call owns it; a claimed job's last attempt
\* is running (a reclaim looks that row up and finds it) and no other attempt
\* ever is; attempt_count is the number of attempts recorded.
StageDiscipline(s) ==
    /\ (job[s].status = "claimed") <=> (job[s].owner # None)
    /\ job[s].live => job[s].status = "claimed"
    /\ job[s].status \in {"none", "pending"} => job[s].attempts = 0
    /\ job[s].status = "claimed" =>
          job[s].attempts > 0 /\ attempt[s][job[s].attempts] = "running"
    /\ \A n \in Attempts :
          /\ attempt[s][n] = "none" <=> n > job[s].attempts
          /\ attempt[s][n] = "running" =>
                n = job[s].attempts /\ job[s].status \in {"claimed", "cancelled"}

\* The leases and attempts of both stages, whichever calls crash, come back late
\* or reclaim each other's work.
LeaseDiscipline == \A s \in Stages : StageDiscipline(s)

\* A version in quarantine or under validation has a validation job that still
\* owes an answer, or has used up its attempts, or was dropped because the
\* rights had lapsed; a job that still owes an answer has such a version.
NoSilentStall ==
    LET status == job["validate_admission"].status IN
    /\ version = "quarantined" =>
          \/ status \in {"pending", "retryable", "failed"}
          \/ status = "cancelled" /\ ~rightsLive
    /\ version = "validating" =>
          \/ status = "claimed"
          \/ status = "cancelled" /\ ~rightsLive
    /\ status \in {"pending", "retryable"} => version = "quarantined"
    /\ status = "claimed" => version = "validating"

\* However uploads to one or several targets interleave, a version takes one
\* body into its inventory: while a target is open nothing was delivered, at
\* most one target is open, and what was delivered came through a target that
\* is consumed and got the version its validation job.
SingleDelivery ==
    /\ \A i, j \in Intents :
          intent[i].status = "active" /\ intent[j].status = "active" => i = j
    /\ \A i \in Intents :
          /\ intent[i].status = "active" => object.status = "none" /\ version = "upload_pending"
          /\ intent[i].claim # None => intent[i].status = "active"
          /\ intent[i].claimLive => intent[i].claim # None
    /\ object.status # "none" =>
          /\ object.intent \in Intents
          /\ object.body \in Bodies
          /\ intent[object.intent].status = "consumed"
          /\ job["validate_admission"].status # "none"
    /\ object.status = "none" => job["validate_admission"].status = "none"

\* The removal status tells the truth about the removal job and the inventory,
\* and no withdrawn version keeps a present object that nobody is to remove.
RemovalAgrees ==
    LET status == job["remove_quarantine_object"].status IN
    /\ removal = "not_required" <=> status = "none"
    /\ removal = "pending" <=> status \in {"pending", "claimed", "retryable"}
    /\ removal = "failed" <=> status = "failed"
    /\ removal = "completed" <=> status = "completed"
    /\ object.status = "deleted" <=> status = "completed"
    /\ removal # "not_required" => version \in Withdrawn /\ object.status # "none"
    /\ version \in Withdrawn /\ object.status = "present" => removal \in {"pending", "failed"}

\* An admitted version rests on a body the inspector accepted, read back intact
\* from quarantine, and on a store authorization nobody has taken back.
AdmittedIsSafe ==
    version = "admitted" =>
        /\ object.status = "present"
        /\ object.body \in SafeBodies
        /\ auth = "active"
        /\ job["validate_admission"].status = "completed"

\* Once a version is cancelled or blocked no target of it is open and no
\* validation of it will be claimed again, whoever was working on it; and a
\* version whose authorization was taken back is blocked.
WithdrawnStopsWork ==
    /\ version \in Withdrawn =>
          /\ \A i \in Intents : intent[i].status # "active"
          /\ job["validate_admission"].status \in {"none", "completed", "failed", "cancelled"}
    /\ auth \in {"revoked", "expired", "disputed"} => version = "blocked"

\* The version's state fits the decision on its rights and the state of its one
\* object: nothing is quarantined, validated or admitted without a standing
\* authorization and a present object, and what was taken back is blocked.
VersionAgrees ==
    /\ version = "rights_pending" => auth = "requested"
    /\ auth = "requested" => version \in {"rights_pending", "cancelled"}
    /\ version \in Blockable => auth = "active"
    /\ auth \in {"revoked", "expired", "disputed"} => version = "blocked"
    /\ version \in {"rights_pending", "upload_pending"} => object.status = "none"
    /\ version \in {"quarantined", "validating", "admitted"} => object.status = "present"
    /\ object.status = "missing" => version = "rejected"
    /\ version = "admitted" =>
          object.body \in SafeBodies /\ job["validate_admission"].status = "completed"

OnStage(w, s) ==
    IF s = "validate_admission" THEN worker[w].pc \in {"read", "decide"}
                                ELSE worker[w].pc \in {"delete", "check", "settle"}

\* A call works for an attempt of its stage, the latest one while it holds the
\* lease, on an object that was recorded.
CallAgrees(w, s) ==
    OnStage(w, s) =>
        /\ worker[w].attempt \in 1 .. job[s].attempts
        /\ HeldBy(s, w) => worker[w].attempt = job[s].attempts
        /\ object.status # "none"

\* A result that may be committed was found out by the call, and for this body.
ResultAgrees(w) ==
    /\ worker[w].pc = "decide" =>
          worker[w].result \in {"admitted", "rejected", "missing", "unavailable"}
    /\ worker[w].pc = "decide" /\ worker[w].result = "admitted" => object.body \in SafeBodies
    /\ worker[w].pc = "settle" => worker[w].result \in {"absent", "unavailable"}

\* Every call in progress knows what the rows say.
CallsAgree ==
    /\ \A w \in Workers : ResultAgrees(w) /\ \A s \in Stages : CallAgrees(w, s)
    /\ \A u \in Uploaders :
          uploader[u].pc # "idle" => uploader[u].intent \in Intents /\ uploader[u].body \in Bodies

\* The inductive invariant the proofs rest on.
IndInv ==
    /\ TypeOK
    /\ LeaseDiscipline
    /\ NoSilentStall
    /\ SingleDelivery
    /\ RemovalAgrees
    /\ VersionAgrees
    /\ CallsAgree

-----------------------------------------------------------------------------
(* The row triggers.  They raise, and so abort, a transaction that updates *)
(* a row otherwise.  ReviewActivate, ReviewDeny and RejectBeforeStorage    *)
(* have a guard for that, and AcknowledgeCancel a case; no other action    *)
(* looks at its row that way.                                              *)

\* What one row's status may become, as a set of pairs; an INSERT is a pair too.
Moves(from, to) == {<<a, b>> : a \in from, b \in to}
Kept(states) == {<<a, a>> : a \in states}

AuthorizationTrigger ==
    <<auth, auth'>> \in
        Kept(Authorizations)
            \cup Moves({"requested"}, {"active", "denied"})
            \cup Moves({"active"}, {"revoked", "expired", "disputed"})

\* A target that is no longer active keeps the evidence of its last claim.
IntentTrigger(i) ==
    /\ <<intent[i].status, intent'[i].status>> \in
        Kept({"unissued", "active", "consumed", "expired", "cancelled"})
            \cup Moves({"unissued"}, {"active"})
            \cup Moves({"active"}, {"consumed", "expired", "cancelled"})
    /\ intent[i].status # "active" => intent'[i].claim = intent[i].claim

VersionTrigger ==
    <<version, version'>> \in
        Kept(Versions)
            \cup Moves({"rights_pending"}, {"upload_pending", "rejected", "cancelled"})
            \cup Moves({"upload_pending"}, {"quarantined", "rejected", "cancelled", "blocked"})
            \cup Moves({"quarantined"}, {"validating", "rejected", "cancelled", "blocked"})
            \cup Moves({"validating"},
                       {"admitted", "rejected", "quarantined", "cancelled", "blocked"})
            \cup Moves({"admitted"}, {"blocked"})

\* What was observed when the bytes were recorded is never observed again.
ObjectTrigger ==
    /\ <<object.status, object'.status>> \in
        Kept({"none", "present", "missing", "deleted"})
            \cup Moves({"none"}, {"present"})
            \cup Moves({"present"}, {"missing", "deleted"})
    /\ object.status # "none" =>
          object'.intent = object.intent /\ object'.body = object.body

JobTrigger(s) ==
    /\ <<job[s].status, job'[s].status>> \in
        Kept({"none", "pending", "claimed", "retryable", "completed", "failed", "cancelled"})
            \cup Moves({"none"}, {"pending"})
            \cup Moves({"pending", "retryable"}, {"claimed", "cancelled"})
            \cup Moves({"claimed"}, {"completed", "retryable", "failed", "cancelled"})
    /\ job'[s].attempts \in {job[s].attempts, job[s].attempts + 1}

\* Recorded outcomes are final and no attempt number is used again.
AttemptTrigger(s, n) ==
    /\ attempt[s][n] \notin {"none", "running"} => attempt'[s][n] = attempt[s][n]
    /\ attempt[s][n] # "none" => attempt'[s][n] # "none"

\* Whatever stale call comes back, no step writes what a trigger refuses: what a
\* row has once settled stays, and a call that got to its write is not aborted.
TriggersAccept ==
    [][/\ AuthorizationTrigger
       /\ \A i \in Intents : IntentTrigger(i)
       /\ VersionTrigger
       /\ ObjectTrigger
       /\ \A s \in Stages : JobTrigger(s) /\ \A n \in Attempts : AttemptTrigger(s, n)]_vars

-----------------------------------------------------------------------------
(* Progress.                                                               *)

\* A validation that was asked for comes to an end: admitted, rejected, out of
\* attempts, or cancelled.  Holds while no call is killed.
ValidationSettles ==
    job["validate_admission"].status \in {"pending", "claimed", "retryable"}
        ~> job["validate_admission"].status \in {"completed", "failed", "cancelled"}

\* A requested removal is completed or reported failed.  Holds while no call is
\* killed.
RemovalSettles == removal = "pending" ~> removal \in {"completed", "failed"}

-----------------------------------------------------------------------------
(* What the documents say and the code does not do.                        *)

\* A worker crash and the expiry of its lease are recovered from: no job stays
\* claimed for good (test plan of feature 03, "expired lease, worker crash,
\* retry, ... converge").
CrashedJobRecovers ==
    \A s \in Stages : job[s].status = "claimed" ~> job[s].status # "claimed"

\* With no upload in flight, an overdue target can be expired, so that an upload
\* to it answers 410 and a new target can be issued (failure table of feature
\* 03, "expired target").
OverdueTargetExpires ==
    (\A u \in Uploaders : uploader[u].pc = "idle") =>
        \A i \in Intents : Overdue(i) => intent[i].claim = None

\* The orphan pass leaves alone the bytes of a present object ("Remove bounded
\* local objects that never received an inventory row").
OrphanPassSparesInventory ==
    [][sweeper' # sweeper /\ object.status = "present"
          => file'[object.intent] = file[object.intent]]_vars

-----------------------------------------------------------------------------
(* The promise this component keeps.                                       *)

Stage ==
    IF version = "rights_pending" THEN "review"
    ELSE IF version = "upload_pending" THEN "open"
    ELSE IF version \in {"quarantined", "validating"} THEN "held"
    ELSE IF version \in Withdrawn THEN "withdrawn"
    ELSE version

Contract == INSTANCE AdmissionContract WITH
    stage   <- Stage,
    granted <- (auth = "active"),
    content <- object.body,
    erased  <- (removal = "completed")

\* Every behaviour of uploads, job runs, orphan passes, lapses and crashes is,
\* seen from outside, a behaviour of AdmissionContract.
ImplementsContract == Contract!Spec

=============================================================================
