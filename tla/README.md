# Verification of the AI LMS backend

TLA+ models of the core of this repository's backend (`src/backend/src/lms`),
checked with TLC on small instances and, for the detailed modules, proved with
TLAPS for every value of the constants.

## The system

A multi-tenant learning platform. One pipeline runs through it:

    source PDF -> admission -> ingestion -> course generation -> course draft
               -> human review and publication -> enrollment and playback

Each stage is a Python module over PostgreSQL (Django ORM, READ COMMITTED, row
locks taken with `select_for_update`, triggers and check constraints as a second
line of defence) and is exposed through FastAPI. There is no scheduler: jobs run
when `reconcile_pending`, `run_ingestion` or `run_generation` is called
(`api/document_composition.py`, `api/generation_composition.py`).

| Component | State it keeps | Operations | Hard behaviour | What makes it correct |
|---|---|---|---|---|
| Source admission (`documents/services.py`, `storage.py`) | version, authorization, upload intents, storage object, document jobs and attempts; files in quarantine | create, review, block, cancel, issue target, upload, validate, remove, reconcile | storage and inspector calls between transactions, leases, crashes, late calls, deadlines | one body per version; admitted only if safe and authorized; removal reported truthfully; leases exclusive; nothing stalls |
| Ingestion (`documents/ingestion.py`) | runs (queued, claimed, extracting, ..., ready, failed, blocked), attempts, pages, elements, sections, artifacts | start, claim, advance, persist, fail | leases owned by a caller-chosen worker id, rights ending between any two steps, late and dead calls, a version ingested again | one open run per version; one output for all its ready runs; attempts tell how the run ended; blocked only for rights that ended |
| Operation authorizations (`documents/services.py:653-846`) | one row per version and operation | request, review | read by ingestion and generation between their steps | reviewer separation; terminal states final |
| Course generation (`course_generation/services.py`) | runs, attempts, blueprints, lessons, decisions, canonicalizations | start, claim, plan, approve, generate, reject, canonicalize | two leased phases and two human gates on what was read before, one attempt budget, rights ending between steps | lessons only for the approved blueprint, a draft of exactly the reviewed lessons; attempts tell the run; blocked only for rights that ended |
| Courses (`courses/services.py`, `repositories.py`, `api/course_composition.py`) | course, versions, published pointer, successor link, reviews, facts | create, edit, submit, approve, publish, withdraw, archive, successor | decisions on unlocked reads, optimistic row versions, two lock orders, the source's rights | published is what was submitted and approved; the facts tell the pointer; every request ends |
| Learning (`learning/services.py`, `repositories.py`) | enrollments, course and lesson progress, facts | enroll, revoke, open, complete, reopen | several devices, memberships and enrollments that end, courses withdrawn | the aggregate adds up; nothing is done for what has ended |
| Tenancy (`tenancy/services.py`) | memberships, their roles, invitations | invite, accept, expire, update | acceptance that locks no active membership, updates that lock no roles | an invitation gives its roles once; the roles are one decision (they are not: finding 5) |
| Identity, PDF parsing, course validation, HTTP, web | none of their own | parsing, signatures, wiring | none of interest here | not modelled |

Components meet in the database: ingestion reads the version's admission status
and the `extract` authorization, generation reads the manifest and the `generate`
authorization, canonicalization creates a course version, publication of a generated
course locks the source's rights, enrollment and playback read the membership and
what the course publishes. A revocation upstream is seen downstream by the next
transaction that looks.

`PROJECT.json` lists every component with its status, every hazard with its line
and the properties that cover it, and, for each definition, the lines it models.

## Modules

| Module | What it is |
|---|---|
| `SourceAdmission` | the admission of one source version, detailed |
| `AdmissionContract` | what admission promises, with no intents, jobs, leases or storage |
| `MCSourceAdmission` | the instances TLC checks (symmetry) |
| `SourceAdmissionProofs` | theorems and proofs about `SourceAdmission` |
| `IngestionRun` | the ingestion of one admitted version and the rights it depends on, detailed |
| `IngestionContract` | what ingestion promises, with no leases, attempts, calls or stages |
| `MCIngestionRun` | the instances TLC checks (worker ids, symmetry) |
| `IngestionRunProofs` | theorems and proofs about `IngestionRun` |
| `GenerationRun` | the generation of courses from one ingested version, detailed |
| `GenerationContract` | what generation promises, with no leases, attempts, calls or reviewers' reads |
| `MCGenerationRun` | the instance TLC checks |
| `GenerationRunProofs` | theorems and proofs about `GenerationRun` |
| `CourseLifecycle` | one course, its versions and the transactions on them, with their locks, detailed |
| `CourseContract` | what authoring promises, with no rows, locks or requests |
| `PublicationContract` | what of that is visible to those who only read what is published |
| `MCCourseLifecycle` | the instance TLC checks (which versions may be edited how often) |
| `CourseLifecycleProofs` | theorems and proofs about `CourseLifecycle` |
| `PublicationProofs` | `CourseContract` implements `PublicationContract` |
| `Memberships` | the memberships, roles and invitations of one tenant |
| `MCMemberships` | the instance TLC checks |
| `MembershipProofs` | theorems and proofs about `Memberships` |
| `Learning` | enrollments and progress; EXTENDS `Memberships` and is composed with `PublicationContract` |
| `MCLearning` | the instance TLC checks (contents, symmetry) |
| `LearningProofs` | theorems and proofs about `Learning`; EXTENDS `MembershipProofs`, whose results it brings over |

### SourceAdmission

One document with one version (all the code creates), any number of upload
intents, concurrent uploads, job runs and orphan passes.

*State.* `auth`, `version`, `removal`, `intent`, `object`, `job` and `attempt`
are rows of the database; `file` is the quarantine directory, by intent (the
locator is the intent's id); `rightsLive` says whether the declaration's
`valid_until` lies ahead; `uploader`, `worker` and `sweeper` are the local
variables of the calls in progress, with a `pc` naming the next step.

*Steps.* The grain is the transaction. A transaction of this code locks the rows
it decides on before it writes and is one action; one the database aborts (a
check constraint, a trigger, a unique index) changes nothing and is no action, so
constraints and triggers appear as guards, each named where it bites. Whatever
runs between two transactions is an action of its own:

- `upload_to_intent`: `ClaimIntent`; `StoragePut` or `StoragePutFails`, then
  `ReleaseClaim`; `RecordUpload` or `DiscardUpload`, then `CleanupOrphan`;
- `run_validation_job`: `ClaimValidation` (or `FailExhausted`,
  `CancelBlockedValidation`); `ReadAndInspect`; one of `Admit`, `Reject`,
  `Postpone`, `DiscardResult`, `AcknowledgeCancel`, `LoseLease`;
- `run_removal_job`: `ClaimRemoval`; `DeleteObject`; `ObserveAbsence`; one of
  `CompleteRemoval`, `RemovalUnavailable`, `LoseLease`;
- `_reconcile_orphan_storage`: `ListLocators`, `QueryInventory`, then for each
  locator `DeleteOrphan`, `CheckOrphan`, `ReleaseOrphanClaim`, and `EndPass`;
- one-transaction calls: `ReviewActivate`, `ReviewDeny`, `ReviewRevoke`,
  `BlockAuthorization`, `CancelAdmission`, `CreateUploadIntent`, `UploadExpired`,
  `RejectBeforeStorage`.

A process can die between any two of its steps (`Crash...`); its rows stay.

*Abstractions.*
- A clock is a flag per deadline (`rightsLive`, an intent's `live` and
  `claimLive`, a job's `live`) that `Lapse` clears at any moment: every order of
  deadlines and calls is a behaviour, including those where a lease outlasts its
  worker or a worker its lease.
- Bodies are told apart by digest; the inspector accepts those of `SafeBodies`
  and may be unavailable for any. Reading may fail at any time.
- Idempotent replays, a repeated upload of the consumed body and reads change no
  row and are stutters. Outbox events, audit rows, permissions, row-level
  security and tenant quotas are left out. The `row_version` a client sends is
  left out too: it restricts which calls succeed, and every call is allowed to.
- `StoragePut` is atomic, although two puts to one target share a temporary file.
- A `run_validation_job` made inline by the upload is a call of one of `Workers`.
- The orphan pass may take its locators in any order (the code sorts them) and
  sees all of them (the code takes the first 100).

The only bounds are the constants: `MaxAttempts` is the code's `max_attempts`
(3 by default; 1 and 2 in the runs) and the sets are the instance's actors.

### AdmissionContract

Stages `review`, `open`, `held`, `admitted`, `rejected`, `withdrawn`; whether the
right is granted; the content received; whether it was reported erased.
`SourceAdmission` refines it under the mapping at the end of that module
(`Stage`, `auth = "active"`, `object.body`, `removal = "completed"`): validation,
its retries, leases, crashes, storage and orphan passes are invisible from
outside.

### IngestionRun

One admitted version, the runs it may be given (a new one can be started only
while none is open), and concurrent calls of `run_ingestion`.

*State.* `admitted` and `auth` are the version's and the authorizations' status,
`rightsLive` the declaration's `valid_until`; `run` and `attempt` are rows;
`artifacts` stands for the normalized output stored under stable ids (pages,
elements, sections, edges and the two artifacts, all or none); `call` holds the
local variables of the calls.

*Steps.* Every transaction of a call locks its run's row, checks the lease and the
rights, writes and commits. The rights are read *without* a lock, so a transaction
that found them in force is two actions: the checks (`ClaimCheck`, `AdvanceCheck`,
`PersistCheck`), after which the call holds the row (`checked`), and the commit
(`ClaimCommit`, `Advance`, `PersistCommit`); other transactions on the row wait
(`RowFree`), decisions on the rights do not. A transaction nobody can disturb is
one action (`StartIngestion` locks the document, as every decision does;
`ClaimBlocked`, `ClaimExhausted`, `FinishFailure`).

| Code | Actions |
|---|---|
| `request_`, `review_operation_authorization` | `RequestAuthorization`, `ActivateAuthorization`, `DenyAuthorization`, `RevokeAuthorization` |
| `block_authorization`, revocation of the store right, `valid_until` | `BlockVersion`, `RightsLapse` |
| `start_ingestion` | `StartIngestion` |
| `_claim` | `ClaimExhausted`, `ClaimBlocked`, `ClaimCheck` then `ClaimCommit` |
| `_advance` | `AdvanceCheck` then `Advance` |
| storage, extractor, normalizer, `_ocr_reason` | `Extract`, `Normalize`, `RequireOcr` |
| `_persist_ready` | `PersistCheck` then `PersistCommit` or `PersistMismatch` |
| `_finish_failure` | `FinishFailure`, `FinishConflict` |
| a lease's expiry, a dead or raising call | `LeaseLapse`, `Crash` |

*Abstractions.*
- A projection stands for everything an extraction yields; two extractions of one
  version may differ (another build of the parser under the same version string).
- `Strip` is what `_claim` does to the worker id before it records it; the later
  transactions compare the id as passed.
- `StoreActive` reads "admitted and not past the declaration": while a version is
  admitted its store authorization stands, which is `AdmittedIsSafe` of
  `SourceAdmission`, and `BlockVersion` is every way `SourceAdmission` has of
  taking an admitted version back.
- Replays of idempotent requests, reviewer separation, row versions sent by
  clients, reason codes, checkpoints and events are left out. The status
  `cancelled` is in the schema and no code writes it.
- The check constraint on the lease's shape is part of `LeaseDiscipline`, the
  triggers' transitions are `MayMove`: the model does not use them as guards but
  shows that no step needs to be refused (`TriggersAccept`).

### IngestionContract

The right to extract (`pending`, `active`, `ended`), the runs (`open`, `ready`,
`failed`, `blocked`) and the output. A run is requested only under an active right
and while none is open; it ends once; the first delivery decides the output and
every later one repeats it; a block needs a right that has ended.

### GenerationRun

One ingested version, its generation runs (one under way at a time), concurrent
calls of `run_generation`, and reviewers.

*State.* `right` is the generate authorization as far as generation can see it:
`pending`, `active`, or `ended` for good. `run`, `attempt`, `blueprint`, `lessons`
and `review` are rows (`review` holds the decision, the rejection and the
canonicalization); `call` holds the locals of the calls; `seen` holds what each
reviewer has read, which may be out of date when he decides.

| Code | Actions |
|---|---|
| `start_generation` | `StartGeneration` |
| `_claim` | `ClaimExhausted`, `ClaimBlocked`, `ClaimCheck` then `ClaimCommit` |
| `source_read`, adapter, `_validate_...` | `SourceBlocked`, `PlanWork`, `WriteWork`, `WorkFails` |
| `_persist_blueprint`, `_persist_lessons` | `PersistCheck` then `PersistBlueprint` or `PersistLessons`; `PersistBlocked`, `PersistConflict` |
| `_finish_failure` | `FinishFailure`, `FinishConflict` |
| `get_generation` | `ReadRun`, `ReadBlueprint` (two statements, which may not belong together) |
| `approve_blueprint`, `reject_generation`, `canonicalize_generation` | `ApproveBlueprint`, `RejectBlueprint`, `RejectOutput`, `Canonicalize` |

*Abstractions.* As in `IngestionRun`, a transaction that found the right in force
without locking it is two actions. `canonicalize_generation` locks the document, the
version and the authorization (`app.lock_generation_canonicalization_scope`), so it
is one; that the clock may pass `valid_until` while it commits is the same as the
clock passing it just afterwards. The source read and the adapter's work that
follows are one step: the right may end in between, which the persisting transaction
finds out. Which plan and which lessons the adapter returns is left open. An error
of the database, like any exception that is no domain error, counts as a failed
adapter (`WorkFails`). Idempotent replays, facts and reason codes are left out.

A late call under a reused worker id may fail a *later* stage of its run
(`_finish_failure` compares neither stage nor expiry), and a lease that has merely
run out makes the run fail for good (`PersistConflict`): the model has both.
`GenerationContract` allows them, as a failure may come at any time.

### GenerationContract

The right (`pending`, `active`, `ended`), each run's stage (`requested`, `planned`,
`approved`, `written`, then `accepted`, `declined`, `failed` or `blocked`), its plan
and its text. A text is written only for an approved plan and carries it; a run is
accepted only under an active right and blocked only once it has ended; a stage is
never gone back on.

### CourseLifecycle

One course, made by hand or from a generation, and transactions on it, of which
`Requests` may be in progress at a time.

*State.* `course` and `version` are rows; `published` is the sequence of publication
facts; `right` is the source's generate authorization, ended by a decision or
lapsed by the clock; `request` holds each transaction's locals and how far it has
come.

*Steps.* A request reads course and version without a lock and decides
(`Begin...`); approvals and publications of generated courses then lock the version
and the source (`LockVersion`, `LockSource` or `SourceUnavailable`); the repository
locks the course (`LockCourse`), the version, compares and writes (`StoreEdit`,
`SaveTransition`, `SaveSuccessor`, or `Conflict`, `SaveRefused`). The last lock and
the write are one action, as nothing can come between them. All locks last to the
end. `DeadlockAbort` ends one of a circle of requests that wait for one another.

*Abstractions.*
- `DjangoCourseRepository.save` reads course and version a second time, to choose
  what to lock and what to expect. What it reads is as old as the lock it takes
  next, or the comparison of row versions fails; `CourseChanged` is the refusal the
  second read may lead to by itself.
- A snapshot is read in several statements. It may mix versions of the rows, but
  then the version's row has moved on and the comparison fails.
- Status, content hash and pointer are compared along with the row versions. They
  are those of their rows (`RequestHolds` in `CourseLifecycleProofs`), so the row
  versions decide.
- The row version a client sends is that of the read: another one only makes
  the call fail at once.
- A version has at most one successor and the first is the only one without a
  predecessor, so the next version number is the next free one.
- Contents are a pair of metadata and curriculum, hashes are injective. An idempotent
  replay and an existing successor change nothing and are no steps. Authorization
  is left out except for what separates reviewer and submitter.

A published version that another one replaces stays published, is no longer shown,
and can be neither withdrawn nor archived (`BeginWithdraw` needs the pointer): the
contract below says so too.

### CourseContract and PublicationContract

Each version's stage, content and predecessor, and the version shown. Content
changes while a version is open, never afterwards; only a sealed version is
approved, only an approved one published; a successor starts from its predecessor's
content. `PublicationContract` keeps what readers see: what each version that was
published says, which are public, which one is shown.

### Memberships and Learning

`Memberships` has the transactions of `accept_invitation` and `update_membership`
in three steps: the unlocked read; the lock of the membership's row, where it is to
be written, with the start of the role DELETE, which sees the role rows committed by
then; the INSERTs and the commit. Role rows carry the change that made them. Two
simplifications: rows that two DELETEs see are gone whichever commits first (the
second finds them deleted), and the row locks of the DELETEs are not modelled.
An acceptance that finds an inactive membership writes the row version it read plus
one, without comparing; the model has that too. The row version a client sends with an
update is taken to be that of the call's own read: another one makes the call fail, unless
the row moves to just that one before the UPDATE. No property depends on it.

`Learning` EXTENDS it with enrollment and progress. The course is an INSTANCE of
`PublicationContract`, whose steps are interleaved with the others', except that an
enrollment about to commit and the course's row exclude each other. An enrollment
holds its membership's row (`LockLearner`) and then the course's; a progress command
shares the membership's row and holds the enrollment's (`LockEnrollment`) until it
has written (`SaveProgress`) or is refused. What the learner's device has seen is
kept in the request: two devices are two requests. `SaveProgress` is one action, as what it
holds keeps everything it reads in force but the learner *role*: an update of the
membership waits for its row, an acceptance of an active membership does not
(`tenancy/services.py:579`). Row-level security hides lesson rows from a member without the
role, so two acceptances, one that takes the role before `apply_progress` counts
(`learning/repositories.py:577`) and one that gives it back before the aggregate is saved,
could make it count too few. The model leaves that out, with row-level security as a whole:
`ProgressTells` is about learners who keep their role during a command.

## Runs

| Run | Instance | Checks | Shows |
|---|---|---|---|
| `admission_jobs` | 1 target, 2 uploaders, 2 job runs, bodies safe and unsafe, 2 attempts | `TypeOK` `LeaseDiscipline` `NoSilentStall` `RemovalAgrees` `AdmittedIsSafe` `IndInv` `TriggersAccept` `ImplementsContract` | whichever calls die, return late or take over each other's work, rows agree with each other and with the contract |
| `admission_progress` | 2 targets, 1 uploader, 1 job run, 1 orphan pass, 2 attempts, no crashes, fair | `SingleDelivery` `WithdrawnStopsWork` `ValidationSettles` `RemovalSettles` | one delivery per version, nothing open after a withdrawal; every validation and removal that is asked for ends |
| `admission_crash` | 1 target, 1 uploader, 1 job run, fair | `CrashedJobRecovers` is violated | finding 1 |
| `admission_overdue` | one of each | `OverdueTargetExpires` is violated | finding 2 |
| `admission_orphans` | one of each | `OrphanPassSparesInventory` is violated | finding 3 |
| `ingestion_shared` | 2 runs, 2 calls under one worker id, 2 outputs, 2 attempts | `TypeOK` `LeaseDiscipline` `AttemptsExplainRun` `OneOutput` `BlockedForGood` `IndInv` `TriggersAccept` `ImplementsContract` | whatever late, dead or like-named calls do, runs, attempts, output and contract agree |
| `ingestion_progress` | 1 run, 3 calls with an id each, one of them padded, 2 attempts, fair | `RunsSettle` `AttemptsEndedByTheirCall` | a run that is asked for ends; a late call never ends another call's attempt |
| `ingestion_rights` | 1 run, 2 calls | `ReadyUnderRights` is violated | finding 4 |
| `generation_runs` | 1 run, 2 calls under one worker id, 1 reviewer, 2 plans, 2 outputs, 3 attempts, fair | `TypeOK` `LeaseDiscipline` `AttemptsExplainRun` `ReviewedExactly` `VersionsTell` `BlockedForGood` `TriggersAccept` `RunsSettle` `ImplementsContract` | nothing passes a human gate it was not reviewed at; a run that waits or is worked on comes before the reviewer or ends |
| `courses` | 2 versions, 2 requests, 1 person, 1 title, 2 curricula, fair | `PublishedExactly` `FactsTellPointer` `RightHeld` `RequestsSettle` `TriggersAccept` `ImplementsContract` | what is published is what was approved; the facts tell the pointer; requests end in spite of two lock orders |
| `learning` | 1 person, 1 invitation, 2 updates, 2 versions, a required and an optional lesson, 1 enrollment, 2 requests | `ProgressTells` `ActsInForce` `GivenOnce` | progress adds up, nothing is done for what has ended, invitations count once |
| `membership_roles` | 1 person, 2 invitations, 1 update, 2 roles | `RolesAreOneDecision` is violated | finding 5 |

*Why the bounds are enough.* Two job runs and two attempts give a stale call, its
successor, and the exhausted attempt. Two uploaders on one target give the
expired claim taken over, with the same or with another body. A second target
appears only once the first is closed, so two give every succession. The theorems
remove the bounds for everything but progress. Deadlock checking is off: an
admission ends (rejected, say) and no call is then enabled.

For ingestion, two calls and two attempts give a late call, its successor and the
exhausted budget; two runs and two outputs give the second ingestion of a version
that agrees or disagrees with the first. `ingestion_shared` uses one worker id for
both calls, which allows more steps than one each. `AttemptsEndedByTheirCall` is
*not* true of shared ids (the older call then ends the newer one's attempt), so it
is checked with an id per call.

For generation, three attempts are what a lost lease, a failure and a success take.
One run suffices, as runs touch only in `StartGeneration`; one reviewer too, as a
reviewer who decides on an old read is what a second one would be. Two runs, and two
reviewers, were also tried without error. For courses, `Room` bounds how often a
version is edited or returned to its author, by version and state; two requests give
every pair of racing transactions, and the second version gives succession and
replacement. The run allows self-review, so that reviewer and submitter differ where the
policy says so is not put to the test by it: `PublishedAsReviewed` proves it, and runs with
two people and separated reviewers were tried without error. For learning, row versions
are bounded by `MaxRow` and `MaxProgress`. The run has one content and one enrollment: that
progress is counted against the *pinned* version, and that an enrollment's lessons stay
when another version is published, is proved (`ProgressIsTold`, `LearnersActInForce`,
`LearnersKeepTheirLessons`); two enrollments, and more progress, were tried without error.

*Symmetry.* The safety runs identify permutations of uploaders, job runs and
targets, which no definition tells apart. Bodies are not identified (`SafeBodies`
does), and the runs that check progress use no symmetry.

*Fairness.* `Fairness` is weak and per call: a call that is not killed goes on,
and `reconcile_pending` is called again and again, so each pending or retryable
job is eventually run. It assumes nothing about leases that expire, because
`reconcile_pending` does not look at claimed jobs (`ReconcileJob`), and nothing
about reviewers, uploaders or clocks. Progress therefore holds of
`CrashFreeSpec` only, and `admission_crash` shows what a crash does to it.

For ingestion, `Fairness` says that a call goes on, that a lease runs out, and that
`run_ingestion` keeps being called for a run it could claim; nothing in the
repository calls it by itself, so this is what the deployment has to provide. It
is fair to the claim of a run, not to a call: the call whose padded id never gets
anywhere may make every claim, and the run then ends by its budget. `RunsSettle`
assumes no absence of crashes, only that they stop some day. `RunsSettle` of
`GenerationRun` makes the same assumptions about calls and about `run_generation`,
and none about reviewers: it ends at the human gates.

For courses, `Fairness` is strong for the steps of a request: PostgreSQL queues
transactions that wait for a row, so one that keeps asking gets it. That a circle of
waiting requests is broken is `deadlock_timeout`. Nothing is assumed about when
requests begin.

## Theorems

Every safety invariant and every action property of a passing run is a theorem of the
module's `Spec`, for all values of the constants that meet the module's named
assumptions. The plan of each proof is the same: an inductive invariant, one lemma per
action or kind of row, `InvariantHolds` as the temporal conclusion, and each result from
it. `Spec` has no fairness, so the theorems hold of the fair specifications too.

Some theorems state properties that no run has among its `PROPERTIES`; these are defined
in the proof modules. Those marked † below were first tried with TLC on instances
of the size of the runs.

| Module | From | Proved |
|---|---|---|
| `SourceAdmissionProofs` | `SafeBodies` are bodies, `None` is none of the other values, `MaxAttempts` is positive | the properties of `admission_jobs`, `SingleDelivery`, `WithdrawnStopsWork`; `AdmissionLife`, `JobsRunOut`†; `BytesStand`† under two assumptions |
| `IngestionRunProofs` | `extract` and `ocr` are operations, `MaxAttempts` is positive, `None` is no worker id and no output | the properties of `ingestion_shared`; `WorkRunsOut`†; `RightLife`†; `AttemptsEndedByTheirCall` and `ReadyUnderRights`†, each under an assumption |
| `GenerationRunProofs` | `MaxAttempts` is positive, `None` is none of the other values | the safety properties of `generation_runs`; `WorkRunsOut`† |
| `CourseLifecycleProofs` | `Policies` are of the code's two, `Empty` is a curriculum, `MaxVersions` a number, `None` none of the other values | the safety properties of `courses`; `WritesAreCurrent`, `CirclesAreGenerated`, `ReadersSeePublication` |
| `PublicationProofs` | none | `CourseContract` implements `PublicationContract` |
| `MembershipProofs` | an invitation is for a member and gives a role, invitations and updates are different, `None` is no member | `MembershipTypeOK`, `RolesStand`, `Accounted`, `GivenOnce`; `RolesAreOneDecision`, `RowsCount` under an assumption |
| `LearningProofs` | those of `MembershipProofs`; `Learner` is a role, lessons are finitely many, every content requires one, `MaxProgress` is a number | `TypeOK`, `ProgressTells`, `ActsInForce`, `GivenOnce`; `MembershipSpec`, `PinnedContentStands` |

### Invariants, and why they are needed

*Admission.* The properties the runs check are not inductive one by one; `IndInv` adds
that

- a call about to settle holds the *latest* attempt (`CallsAgree`), for `RemovalAgrees`
  and `NoSilentStall`: otherwise a settling call could close an attempt that is not the
  running one and break `LeaseDiscipline`;
- a result waiting to be committed was found for the recorded body (`ResultAgrees`), for
  `AdmittedIsSafe`, since the bytes in quarantine may have changed or gone since;
- the version's status fits the authorization and the object's row (`VersionAgrees`),
  for withdrawal and removal: an `upload_pending` version has no object, a quarantined
  one has a present one, and a version whose rights were taken back is blocked.

For each conjunct a lemma shows that the actions which touch its variables keep it; the
others keep those variables (the `...Kept` lemmas).

*Ingestion.* `IndInv` adds to the checked properties

- `ChecksStand`: between its checks and its commit a call holds the row alone and finds
  status, owner and budget as it checked them. Without it a commit could take a stage
  twice, or an attempt past the budget;
- `CallsCarry`: what a call remembers is still true; in particular a call about to
  report ended rights has seen them end, and they never come back, which is what makes a
  late report correct;
- `OneOpenRun`, needed for the contract's `Request`.

The proof first says what each action writes to the one run it touches (the `...Saved`
predicates and `...Effect` lemmas); every other step is `Quiet` and keeps runs, attempts
and artifacts.

*Generation* has the same plan. Its `CallsCarry` has to cover a call that comes back in
the other stage of its run, where its worker id may own a newer attempt. `VersionsTell`,
that a row version tells blueprints and lessons apart, is what makes a decision one
about what the reviewer read; `ReviewedExactly` follows the decision to what is written
after it.

*Courses.* `IndInv` says of each version that its row is sound (`SoundRow`: the hash is
that of the content, what left review was reviewed as it stands), that a version has one
successor, that the course shows a published version and the facts tell which, and of
each request (`RequestHolds`) that *while the row version it read is still the row's, so
is everything else it read*. That is the argument for deciding on unlocked reads: what
passes the comparison at the end was decided on the row as it is. `WritesAreCurrent`
draws the conclusion for every write: it replaces exactly the row its request decided on,
so no update is lost, whatever the other requests did since.

*Memberships.* `MembershipInv` says what a change in progress holds: an acceptance its
open invitation, a change that writes a membership's row that row alone (`RowHeldOnce`).
`RolesStand` and `Accounted` follow every role row to a decision that gave it.

*Learning.* `IndInv` says that a membership or an enrollment held by a request is in force
and written by nobody else (`RequestHolds`), that an enrollment is pinned to a version
that says something (`Pinned`) and that its aggregate is the cardinality of its lesson
rows (`Tells`). Steps of memberships leave held rows alone, steps of the course never
change what a version says, and only `SaveProgress` moves counts. `PinnedContentStands`
is the learner's side of it: an enrollment's lessons, and the required ones among them,
never change, though the course is published anew or withdrawn.

### Row triggers

`TriggersAccept` is proved in four modules: of each kind of row a lemma shows what its
actions write. In `SourceAdmission` four actions (`ReviewActivate`, `ReviewDeny`,
`RejectBeforeStorage` and a case of `AcknowledgeCancel`) have a trigger's condition among
their guards, because the transaction would be aborted without it; of all the others
the theorem says that the trigger has nothing to refuse.

`CourseLifecycle` has one trigger as a guard: `guard_generated_course_publication`, which
locks and asks for the right to the source once more as an approval or publication is
written. `SaveTransition` needs the right, and `SaveRefused` is the transaction it aborts.
There `TriggersAccept` says two things. The triggers of versions
(`enforce_course_version_mutability`), curricula (`enforce_mutable_course_child`) and the
pointer (`enforce_course_identity_and_pointer`) and the unique index of successors have
nothing to refuse, as none of them is a guard. And the rights trigger refuses
only where the right *lapsed*: a decision to end it waits for the lock the request took
when it found the right in force. This rests on `RightHeld` and on `LockInv`, by which a
request that saves such a transition holds its source. That a lapsed right is refused is
the trigger's own doing, a guard and no theorem; between that check and the commit nothing
asks the clock again. `IngestionRun` and `GenerationRun` use no trigger as a guard.

### Refinements, and the modules together

Each detailed module implements its contract: every step is the contract's step or a
stutter. The theorems that join modules are

- `CoursesImplementContract` and `CoursesPublish`, joined by `LearnersSee`: requests,
  rows and locks of `CourseLifecycle` implement `PublicationContract`, of which the
  course in `Learning` is an instance; what `Learning` takes for granted of a course is
  therefore what authors do;
- `LearningHasMemberships`: enrollments and progress take no step of a membership it
  would not take alone; `GivenOnce` comes to `Learning` through it;
- `AdmissionsEndForGood`: a version is admitted under a right in force, leaves that state
  only in the step that ends the right, and never returns. That is the admission
  `IngestionRun` starts from, with `BlockVersion` and `RightsLapse` for its end;
- `RightsEndForGood`: in `IngestionRun` the right to every operation goes from `pending`
  to `active` at most once and ends for good. That is the right `GenerationRun` has, with
  `GrantRight` and `EndRight`.

### Work that runs out

The half of progress that needs no fairness is safety, and is proved. `WorkLeft` gives a
run (in `SourceAdmission`, a job) what it can still be written: its unspent attempts, each
worth more than everything within one, then the stage it is in, then its lease.
`WorkRunsOut` and `JobsRunOut` say that every write of the row lowers it, whatever calls
crash, come back late or take over; `WorkIsBounded` and `JobsAreBounded` that it is a
number between 0 and a bound `MaxAttempts` fixes. So no row is written for ever. What the
progress properties add, that the writes do come, needs fairness and stays with TLC.

### Deadlocks

`CirclesAreGenerated`: a circle of requests waiting for one another always has an approval
or publication of a version of a *generated* course, which holds the version and waits for
the source or the course, and another request that holds the course and wants that
version. Requests for manual courses never wait in a circle. `LockInv`, which it rests
on, says who may hold which lock, and that nobody holds a version twice.

### Theorems under an assumption of their own

Four theorems delimit what the code leaves to chance. The first assumes something of the
worker ids callers choose, the others of the execution; nothing in the code sees to any
of it.

| Theorem | Assumes | Gives |
|---|---|---|
| `AttemptsAreTheirCalls` | `EachItsOwn`: no call has as its id what another call's id becomes once stripped | `AttemptsEndedByTheirCall`; the invariant (`OwnsLast`) is that a call which still owns the lease opened the attempt it covers |
| `OnlyTheGapMisses` | `RightsWaitForChecks`: the right does not end between a call's checks and its commit | `ReadyUnderRights`: finding 4 has no other cause |
| `DecisionsStandApart` | `AcceptancesApart`: no acceptance overlaps another change of the same membership | `RolesAreOneDecision`, `RowsCount`: finding 5 has no other cause; updates may overlap as they like. The invariant (`ApartInv`) is that what a change has read still stands |
| `RecordedBytesStand` | `OneUploadPerTarget`: requests for one target do not overlap; `PassesApartFromUploads`: no orphan pass runs beside an upload | `BytesStand`: the recorded object has its bytes until its removal is asked for, and an admitted version's are those the inspector accepted |

Neither assumption of the last can be dropped: without the second, TLC finds the pass of
finding 3; without the first, a late put whose claim had lapsed replaces recorded bytes.

### Only model-checked

The progress properties (`ValidationSettles`, `RemovalSettles`, both `RunsSettle`,
`RequestsSettle`), as liveness under fairness is beyond the prover, and what the five runs
that expect a violation show.

## Findings

1. **A crashed worker's job is never run again.** `reconcile_pending`
   (`services.py:2234`) selects pending and retryable jobs. A job whose worker
   died stays claimed, its version `validating` or its removal `pending`, though
   `run_validation_job` and `run_removal_job` would reclaim it if they were
   called. The feature's test plan (`test-plan.md:66`) says expired leases and
   worker crashes converge.
2. **An overdue target that holds a claim is stuck.** `services.py:1341` and
   `:1166` set status `expired` and leave the claim columns, which
   `ck_source_intents_upload_claim` allows on active intents only: the
   transaction aborts, the upload answers neither 410 nor 409 and no new target
   can be issued (`feature.md:113`).
3. **The orphan pass can delete a recorded object's bytes.** It reads the
   inventory once, unlocked, and deletes later (`services.py:2252-2262`), contrary
   to its docstring (`:2249`). The version then ends `rejected` with
   `OBJECT_MISSING`. `RecordedBytesStand` delimits it: where no pass runs beside an
   upload, and no two uploads to one target overlap, recorded bytes stay.
4. **A run can become ready after its rights ended.** `_persist_ready` checks the
   rights without a lock (`ingestion.py:788`), then writes the whole output and
   commits; a revocation, block or expiry in between is not noticed, though
   in-flight work should stop "without marking output ready"
   (`backend-mvp-completion-execution.md:143`). `start_ingestion` does not have
   the gap, because it locks the document. `OnlyTheGapMisses` proves that there is no
   other: a right that does not end between a call's checks and its commit is enough.
5. **An acceptance and an update can give a membership the roles of both.**
   `accept_invitation` deletes and inserts the roles of an active membership without
   locking it (`tenancy/services.py:579-604`), `update_membership` locks the
   membership and not its roles (`:671-703`): under READ COMMITTED neither DELETE sees
   the other's INSERTs. The test plan wants such a race to be single-effect
   (`features/01-minimal-identity-tenant-context/test-plan.md:57`). By
   `DecisionsStandApart` acceptances are to blame and nothing else: updates that race
   each other never mix.

Not a contradiction of any document, but worth knowing: a worker id with blanks
around it claims a run and is then refused by every later transaction
(`ingestion.py:541` against `:594`), so each call costs a lease and an attempt. And
`accept_invitation`, which writes the row version it read plus one without comparing,
can set a membership's row version back, or number two changes alike; `RowsCount` is
proved where acceptances do not overlap other changes.

## Plan

Done, in this order: admission, ingestion, generation, courses, memberships and
learning, each with its run and with theorems for every safety property the runs check;
then the compositions of the modules, the bounds on work, and what delimits findings 3, 4
and 5. What is left needs other shapes of state than these modules have:

1. `QuarantineStorage`: two puts that share a temporary file, and a put that ends after
   its file was removed; composed with `SourceAdmission` in place of the atomic
   `StoragePut`.
2. `UploadQuota`: several versions of a tenant whose targets are counted without a lock
   on the tenant; the quota holds of what one transaction sees.
3. `ReconcileQueue`: several jobs in one pass of `reconcile_pending`, which the first
   exception ends.
4. `AdmissionLocks`: the two lock orders of source admission, as `CourseLifecycle` has
   those of courses.
5. Idempotency records, as a wrapper that any of the commands may be put in.

## Not modelled

Idempotency records and the replay of their answers (each module treats a replay as a
stutter), audit rows, and outbox events other than the publication and completion facts
of courses and learning. Row-level security, permissions and entitlements
(SQL policies over sessions, checked by the repository's own tests), token verification,
PDF parsing and rendering limits, the generation adapter (a call whose result is left
open), curriculum validation and hashing (pure functions), request and response
schemas, the web applications and the admin pages. The order in which row locks are
taken is part of `CourseLifecycle` and of `Learning`, where it decides what can happen;
for admission it is left out: a deadlock there ends by the database aborting one
transaction, which is no step.
