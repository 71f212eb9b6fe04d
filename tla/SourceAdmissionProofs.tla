----------------------- MODULE SourceAdmissionProofs -----------------------
(***************************************************************************)
(* Proofs about SourceAdmission for any sets of intents, requests, job     *)
(* runs, orphan passes and bodies, and any bound on attempts: IndInv is an *)
(* inductive invariant, and the safety properties follow from it.          *)
(***************************************************************************)
EXTENDS SourceAdmission, TLAPS

-----------------------------------------------------------------------------
(* Type correctness.                                                       *)

LEMMA UnleasedType ==
    ASSUME TypeOK, NEW s \in Stages,
           NEW status \in {"retryable", "completed", "failed", "cancelled"}
    PROVE  Unleased(s, status) \in [Stages -> JobRows]
  BY DEF Unleased, TypeOK, JobRows

LEMMA CloseType ==
    ASSUME TypeOK, NEW s \in Stages, NEW w \in Workers,
           NEW status \in {"retryable", "completed", "failed", "cancelled"},
           NEW outcome \in Outcomes, Close(s, w, status, outcome)
    PROVE  /\ job' \in [Stages -> JobRows]
           /\ attempt' \in [Stages -> [Attempts -> Outcomes]]
           /\ worker' \in [Workers -> WorkerStates]
<1>1. job' \in [Stages -> JobRows]
  BY UnleasedType DEF Close
<1>2. attempt' \in [Stages -> [Attempts -> Outcomes]]
  BY DEF Close, TypeOK
<1>3. worker' \in [Workers -> WorkerStates]
  BY AttemptsAssumption DEF Close, TypeOK, IdleWorker, WorkerStates
<1>. QED BY <1>1, <1>2, <1>3

LEMMA RetryType ==
    ASSUME TypeOK, NEW s \in Stages, NEW w \in Workers, Retry(s, w)
    PROVE  /\ job' \in [Stages -> JobRows]
           /\ attempt' \in [Stages -> [Attempts -> Outcomes]]
           /\ worker' \in [Workers -> WorkerStates]
<1>1. {"failed", "retryable"} \subseteq Outcomes
  BY DEF Outcomes
<1>. QED BY <1>1, CloseType DEF Retry

LEMMA StartType ==
    ASSUME TypeOK, NEW s \in Stages, NEW w \in Workers, NEW pc \in {"read", "delete"},
           StartAttempt(s, w, pc)
    PROVE  /\ job' \in [Stages -> JobRows]
           /\ attempt' \in [Stages -> [Attempts -> Outcomes]]
           /\ worker' \in [Workers -> WorkerStates]
<1>1. job[s].attempts + 1 \in 1 .. MaxAttempts
  <2>1. job[s].attempts \in 0 .. MaxAttempts
    BY DEF TypeOK, JobRows
  <2>2. job[s].attempts # MaxAttempts
    BY DEF StartAttempt, Exhausted
  <2>. QED BY <2>1, <2>2, AttemptsAssumption DEF AttemptsAssumption
<1>2. job' \in [Stages -> JobRows]
  BY <1>1, AttemptsAssumption DEF StartAttempt, TypeOK, JobRows
<1>3. attempt' \in [Stages -> [Attempts -> Outcomes]]
  BY DEF StartAttempt, ClosedAttempts, TypeOK, Outcomes
<1>4. worker' \in [Workers -> WorkerStates]
  BY <1>1, AttemptsAssumption DEF StartAttempt, TypeOK, WorkerStates
<1>. QED BY <1>2, <1>3, <1>4

LEMMA StopType ==
    ASSUME TypeOK, NEW terminal \in Withdrawn, StopAdmission(terminal)
    PROVE  /\ version' \in Versions
           /\ removal' \in {"not_required", "pending"}
           /\ intent' \in [Intents -> IntentRows]
           /\ job' \in [Stages -> JobRows]
<1>1. intent' \in [Intents -> IntentRows]
  BY DEF StopAdmission, CancelledIntents, Unclaimed, TypeOK, IntentRows
<1>2. CancelledValidation \in [Stages -> JobRows]
  BY UnleasedType DEF CancelledValidation, TypeOK, Stages
<1>3. PendingJob \in JobRows
  BY AttemptsAssumption DEF PendingJob, JobRows, AttemptsAssumption
<1>4. job' \in [Stages -> JobRows]
  BY <1>2, <1>3 DEF StopAdmission, ScheduleRemoval
<1>. QED BY <1>1, <1>4 DEF StopAdmission, ScheduleRemoval, Withdrawn, Versions

LEMMA TypeStep ==
    ASSUME TypeOK, Next
    PROVE  TypeOK'
<1>. USE DEF procs
<1>1. CASE ReviewActivate
  BY <1>1 DEF ReviewActivate, TypeOK, Authorizations, Versions
<1>2. CASE ReviewDeny
  BY <1>2 DEF ReviewDeny, TypeOK, Authorizations, Versions
<1>3. CASE ReviewRevoke
  BY <1>3, StopType DEF ReviewRevoke, StopAdmission, TypeOK, Authorizations, Withdrawn
<1>4. ASSUME NEW status \in {"expired", "disputed"}, BlockAuthorization(status)
      PROVE  TypeOK'
  BY <1>4, StopType DEF BlockAuthorization, StopAdmission, TypeOK, Authorizations, Withdrawn
<1>5. CASE CancelAdmission
  BY <1>5, StopType DEF CancelAdmission, StopAdmission, TypeOK, Withdrawn
<1>6. ASSUME NEW i \in Intents, CreateUploadIntent(i)
      PROVE  TypeOK'
  <2>1. intent' \in [Intents -> IntentRows]
    BY <1>6 DEF CreateUploadIntent, TypeOK, IntentRows
  <2>. QED BY <1>6, <2>1 DEF CreateUploadIntent, TypeOK
<1>7. ASSUME NEW i \in Intents, UploadExpired(i)
      PROVE  TypeOK'
  <2>1. intent' \in [Intents -> IntentRows]
    BY <1>7 DEF UploadExpired, TypeOK, IntentRows
  <2>. QED BY <1>7, <2>1 DEF UploadExpired, TypeOK
<1>8. ASSUME NEW i \in Intents, RejectBeforeStorage(i)
      PROVE  TypeOK'
  <2>1. intent' \in [Intents -> IntentRows]
    BY <1>8 DEF RejectBeforeStorage, TypeOK, IntentRows
  <2>. QED BY <1>8, <2>1 DEF RejectBeforeStorage, TypeOK, Versions
<1>9. ASSUME NEW u \in Uploaders, NEW i \in Intents, NEW b \in Bodies, ClaimIntent(u, i, b)
      PROVE  TypeOK'
  <2>1. intent' \in [Intents -> IntentRows]
    BY <1>9 DEF ClaimIntent, TypeOK, IntentRows
  <2>2. uploader' \in [Uploaders -> UploaderStates]
    BY <1>9 DEF ClaimIntent, TypeOK, UploaderStates
  <2>. QED BY <1>9, <2>1, <2>2 DEF ClaimIntent, TypeOK
<1>10. ASSUME NEW u \in Uploaders, Upload(u)
       PROVE  TypeOK'
  <2>. USE <1>10
  <2>1. CASE StoragePut(u)
    <3>1. file' \in [Intents -> Bodies \cup {None}]
      BY <2>1 DEF StoragePut, TypeOK, UploaderStates
    <3>2. uploader' \in [Uploaders -> UploaderStates]
      BY <2>1 DEF StoragePut, TypeOK, UploaderStates
    <3>. QED BY <2>1, <3>1, <3>2 DEF StoragePut, TypeOK, rows
  <2>2. CASE StoragePutFails(u)
    <3>1. uploader' \in [Uploaders -> UploaderStates]
      BY <2>2 DEF StoragePutFails, TypeOK, UploaderStates
    <3>. QED BY <2>2, <3>1 DEF StoragePutFails, TypeOK, rows
  <2>3. CASE ReleaseClaim(u)
    <3>1. intent' \in [Intents -> IntentRows]
      BY <2>3 DEF ReleaseClaim, Unclaimed, TypeOK, IntentRows, UploaderStates
    <3>2. uploader' \in [Uploaders -> UploaderStates]
      BY <2>3 DEF ReleaseClaim, TypeOK, UploaderStates, IdleUpload
    <3>. QED BY <2>3, <3>1, <3>2 DEF ReleaseClaim, TypeOK
  <2>4. CASE RecordUpload(u)
    <3>1. intent' \in [Intents -> IntentRows]
      BY <2>4 DEF RecordUpload, Unclaimed, TypeOK, IntentRows
    <3>2. uploader' \in [Uploaders -> UploaderStates]
      BY <2>4 DEF RecordUpload, TypeOK, UploaderStates, IdleUpload
    <3>3. object' \in ObjectRows
      BY <2>4 DEF RecordUpload, TypeOK, UploaderStates, ObjectRows
    <3>4. PendingJob \in JobRows
      BY AttemptsAssumption DEF PendingJob, JobRows, AttemptsAssumption
    <3>5. job' \in [Stages -> JobRows]
      BY <2>4, <3>4 DEF RecordUpload, TypeOK
    <3>. QED BY <2>4, <3>1, <3>2, <3>3, <3>5 DEF RecordUpload, TypeOK, Versions
  <2>5. CASE DiscardUpload(u)
    <3>1. uploader' \in [Uploaders -> UploaderStates]
      BY <2>5 DEF DiscardUpload, TypeOK, UploaderStates
    <3>. QED BY <2>5, <3>1 DEF DiscardUpload, TypeOK, rows
  <2>6. CASE CleanupOrphan(u)
    <3>1. file' \in [Intents -> Bodies \cup {None}]
      BY <2>6 DEF CleanupOrphan, TypeOK
    <3>2. uploader' \in [Uploaders -> UploaderStates]
      BY <2>6 DEF CleanupOrphan, TypeOK, UploaderStates, IdleUpload
    <3>. QED BY <2>6, <3>1, <3>2 DEF CleanupOrphan, TypeOK, rows
  <2>. QED BY <1>10, <2>1, <2>2, <2>3, <2>4, <2>5, <2>6 DEF Upload
<1>11. ASSUME NEW w \in Workers, Claim(w)
       PROVE  TypeOK'
  <2>1. CASE ClaimValidation(w)
    BY <2>1, StartType DEF ClaimValidation, TypeOK, Versions, Stages
  <2>2. CASE ClaimRemoval(w)
    BY <2>2, StartType DEF ClaimRemoval, TypeOK, Stages
  <2>. QED BY <1>11, <2>1, <2>2 DEF Claim
<1>12. ASSUME NEW w \in Workers, Run(w)
       PROVE  TypeOK'
  <2>. {"completed", "failed", "cancelled"} \subseteq Outcomes
    BY DEF Outcomes
  <2>1. CASE ReadAndInspect(w)
    <3>1. worker' \in [Workers -> WorkerStates]
      BY <2>1 DEF ReadAndInspect, Inspection, At, TypeOK, WorkerStates
    <3>. QED BY <2>1, <3>1 DEF ReadAndInspect, TypeOK, rows
  <2>2. CASE Admit(w)
    BY <2>2, CloseType DEF Admit, TypeOK, Versions, Stages
  <2>3. CASE Reject(w)
    <3>1. object' \in ObjectRows
      BY <2>3 DEF Reject, TypeOK, ObjectRows
    <3>. QED BY <2>3, <3>1, CloseType DEF Reject, TypeOK, Versions, Stages
  <2>4. CASE Postpone(w)
    BY <2>4, RetryType DEF Postpone, TypeOK, Versions, Stages
  <2>5. CASE DiscardResult(w)
    BY <2>5, CloseType DEF DiscardResult, TypeOK, Stages
  <2>6. CASE AcknowledgeCancel(w)
    <3>1. worker' \in [Workers -> WorkerStates]
      BY <2>6, AttemptsAssumption DEF AcknowledgeCancel, TypeOK, WorkerStates, IdleWorker, AttemptsAssumption
    <3>2. attempt' \in [Stages -> [Attempts -> Outcomes]]
      BY <2>6 DEF AcknowledgeCancel, TypeOK
    <3>. QED BY <2>6, <3>1, <3>2 DEF AcknowledgeCancel, TypeOK
  <2>7. CASE LoseLease(w)
    <3>1. worker' \in [Workers -> WorkerStates]
      BY <2>7, AttemptsAssumption DEF LoseLease, TypeOK, WorkerStates, IdleWorker, AttemptsAssumption
    <3>. QED BY <2>7, <3>1 DEF LoseLease, TypeOK, rows
  <2>8. CASE DeleteObject(w)
    <3>1. worker' \in [Workers -> WorkerStates]
      BY <2>8 DEF DeleteObject, At, TypeOK, WorkerStates
    <3>2. file' \in [Intents -> Bodies \cup {None}]
      BY <2>8 DEF DeleteObject, TypeOK
    <3>. QED BY <2>8, <3>1, <3>2 DEF DeleteObject, TypeOK, rows
  <2>9. CASE ObserveAbsence(w)
    <3>1. worker' \in [Workers -> WorkerStates]
      BY <2>9 DEF ObserveAbsence, At, TypeOK, WorkerStates
    <3>. QED BY <2>9, <3>1 DEF ObserveAbsence, TypeOK, rows
  <2>10. CASE CompleteRemoval(w)
    <3>1. object' \in ObjectRows
      BY <2>10 DEF CompleteRemoval, TypeOK, ObjectRows
    <3>. QED BY <2>10, <3>1, CloseType DEF CompleteRemoval, TypeOK, Stages
  <2>11. CASE RemovalUnavailable(w)
    BY <2>11, RetryType DEF RemovalUnavailable, TypeOK, Stages
  <2>. QED BY <1>12, <2>1, <2>2, <2>3, <2>4, <2>5, <2>6, <2>7, <2>8, <2>9, <2>10, <2>11 DEF Run
<1>13. CASE CancelBlockedValidation
  BY <1>13, UnleasedType DEF CancelBlockedValidation, TypeOK, Stages
<1>14. ASSUME NEW s \in Stages, FailExhausted(s)
       PROVE  TypeOK'
  <2>1. attempt' \in [Stages -> [Attempts -> Outcomes]]
    BY <1>14 DEF FailExhausted, ClosedAttempts, TypeOK, Outcomes
  <2>. QED BY <1>14, <2>1, UnleasedType DEF FailExhausted, TypeOK, Versions
<1>15. ASSUME NEW s \in Sweepers, Sweep(s)
       PROVE  TypeOK'
  <2>. USE <1>15
  <2>1. CASE ListLocators(s)
    <3>1. sweeper' \in [Sweepers -> SweeperStates]
      BY <2>1 DEF ListLocators, TypeOK, SweeperStates
    <3>. QED BY <2>1, <3>1 DEF ListLocators, TypeOK, rows
  <2>2. CASE QueryInventory(s)
    <3>1. sweeper' \in [Sweepers -> SweeperStates]
      BY <2>2, ZenonT(60) DEF QueryInventory, TypeOK, SweeperStates
    <3>. QED BY <2>2, <3>1 DEF QueryInventory, TypeOK, rows
  <2>3. ASSUME NEW i \in Intents, DeleteOrphan(s, i)
        PROVE  TypeOK'
    <3>1. sweeper' \in [Sweepers -> SweeperStates]
      <4>0. sweeper[s].found \ {i} \in SUBSET Intents
        BY DEF TypeOK, SweeperStates
      <4>1. CASE sweeper' = [sweeper EXCEPT ![s].found = @ \ {i}]
        BY <4>0, <4>1, ZenonT(60) DEF TypeOK, SweeperStates
      <4>2. CASE sweeper' = [sweeper EXCEPT ![s] = [pc |-> "check", current |-> i,
                                                    found |-> sweeper[s].found \ {i}]]
        BY <4>0, <4>2 DEF TypeOK, SweeperStates
      <4>. QED BY <2>3, <4>1, <4>2 DEF DeleteOrphan
    <3>2. file' \in [Intents -> Bodies \cup {None}]
      BY <2>3 DEF DeleteOrphan, TypeOK
    <3>. QED BY <2>3, <3>1, <3>2 DEF DeleteOrphan, TypeOK, rows
  <2>4. CASE CheckOrphan(s)
    <3>1. sweeper' \in [Sweepers -> SweeperStates]
      BY <2>4, ZenonT(60) DEF CheckOrphan, TypeOK, SweeperStates
    <3>. QED BY <2>4, <3>1 DEF CheckOrphan, TypeOK, rows
  <2>5. CASE ReleaseOrphanClaim(s)
    <3>1. sweeper' \in [Sweepers -> SweeperStates]
      BY <2>5, ZenonT(60) DEF ReleaseOrphanClaim, TypeOK, SweeperStates
    <3>2. intent' \in [Intents -> IntentRows]
      BY <2>5 DEF ReleaseOrphanClaim, Unclaimed, TypeOK, IntentRows, SweeperStates
    <3>. QED BY <2>5, <3>1, <3>2 DEF ReleaseOrphanClaim, TypeOK
  <2>6. CASE EndPass(s)
    <3>1. sweeper' \in [Sweepers -> SweeperStates]
      BY <2>6 DEF EndPass, TypeOK, SweeperStates, IdleSweeper
    <3>. QED BY <2>6, <3>1 DEF EndPass, TypeOK, rows
  <2>. QED BY <1>15, <2>1, <2>2, <2>3, <2>4, <2>5, <2>6 DEF Sweep
<1>16. CASE Lapse
  <2>1. CASE RightsLapse
    BY <2>1 DEF RightsLapse, TypeOK, rows
  <2>2. ASSUME NEW i \in Intents, IntentLapse(i)
        PROVE  TypeOK'
    <3>1. intent' \in [Intents -> IntentRows]
      BY <2>2, ZenonT(60) DEF IntentLapse, TypeOK, IntentRows
    <3>. QED BY <2>2, <3>1 DEF IntentLapse, TypeOK
  <2>3. ASSUME NEW i \in Intents, ClaimLapse(i)
        PROVE  TypeOK'
    <3>1. intent' \in [Intents -> IntentRows]
      BY <2>3, ZenonT(60) DEF ClaimLapse, TypeOK, IntentRows
    <3>. QED BY <2>3, <3>1 DEF ClaimLapse, TypeOK
  <2>4. ASSUME NEW s \in Stages, LeaseLapse(s)
        PROVE  TypeOK'
    <3>1. job' \in [Stages -> JobRows]
      BY <2>4, ZenonT(60) DEF LeaseLapse, TypeOK, JobRows
    <3>. QED BY <2>4, <3>1 DEF LeaseLapse, TypeOK
  <2>. QED BY <1>16, <2>1, <2>2, <2>3, <2>4 DEF Lapse
<1>17. CASE Crash
  <2>1. ASSUME NEW u \in Uploaders, CrashUpload(u)
        PROVE  TypeOK'
    <3>1. uploader' \in [Uploaders -> UploaderStates]
      BY <2>1 DEF CrashUpload, TypeOK, UploaderStates, IdleUpload
    <3>. QED BY <2>1, <3>1 DEF CrashUpload, TypeOK, rows
  <2>2. ASSUME NEW w \in Workers, CrashWorker(w)
        PROVE  TypeOK'
    <3>1. worker' \in [Workers -> WorkerStates]
      BY <2>2, AttemptsAssumption DEF CrashWorker, TypeOK, WorkerStates, IdleWorker, AttemptsAssumption
    <3>. QED BY <2>2, <3>1 DEF CrashWorker, TypeOK, rows
  <2>3. ASSUME NEW s \in Sweepers, CrashSweeper(s)
        PROVE  TypeOK'
    <3>1. sweeper' \in [Sweepers -> SweeperStates]
      BY <2>3 DEF CrashSweeper, TypeOK, SweeperStates, IdleSweeper
    <3>. QED BY <2>3, <3>1 DEF CrashSweeper, TypeOK, rows
  <2>. QED BY <1>17, <2>1, <2>2, <2>3 DEF Crash
<1>. QED
  BY <1>1, <1>2, <1>3, <1>4, <1>5, <1>6, <1>7, <1>8, <1>9, <1>10, <1>11, <1>12, <1>13, <1>14,
     <1>15, <1>16, <1>17
  DEF Next, Step, Decide, Target

-----------------------------------------------------------------------------
(* Leases and attempts.                                                    *)

LEMMA AttemptsNat == MaxAttempts \in Nat /\ MaxAttempts > 0
  BY AttemptsAssumption DEF AttemptsAssumption

\* A stage neither of whose rows changes keeps its discipline.
LEMMA StageKept ==
    ASSUME NEW s \in Stages, StageDiscipline(s),
           job'[s] = job[s], attempt'[s] = attempt[s]
    PROVE  StageDiscipline(s)'
  BY DEF StageDiscipline

LEMMA StartDiscipline ==
    ASSUME TypeOK, LeaseDiscipline, NEW s \in Stages, NEW w \in Workers,
           NEW pc \in {"read", "delete"}, StartAttempt(s, w, pc)
    PROVE  LeaseDiscipline'
<1>. DEFINE m == job[s].attempts + 1
<1>1. m \in Attempts /\ job[s].attempts \in Nat
  <2>1. job[s].attempts \in 0 .. MaxAttempts
    BY DEF TypeOK, JobRows
  <2>2. job[s].attempts # MaxAttempts
    BY DEF StartAttempt, Exhausted
  <2>. QED BY <2>1, <2>2, AttemptsNat DEF Attempts
<1>2. job'[s] = [status |-> "claimed", owner |-> w, live |-> TRUE, attempts |-> m]
  BY DEF StartAttempt, TypeOK
<1>3. attempt'[s] = [ClosedAttempts(s) EXCEPT ![m] = "running"]
  BY DEF StartAttempt, TypeOK
<1>4. \A n \in Attempts :
         attempt'[s][n] = IF n = m THEN "running"
                          ELSE IF LeaseExpired(s) /\ n = job[s].attempts THEN "retryable"
                          ELSE attempt[s][n]
  BY <1>1, <1>3 DEF ClosedAttempts, StartAttempt
<1>5. StageDiscipline(s)
  BY DEF LeaseDiscipline
<1>6. StageDiscipline(s)'
  <2>1. w # None
    BY NoneAssumption DEF NoneAssumption
  <2>2. ASSUME NEW n \in Attempts
        PROVE  /\ attempt'[s][n] = "none" <=> n > m
               /\ attempt'[s][n] = "running" => n = m
    <3>1. n \in Nat
      BY AttemptsNat DEF Attempts
    <3>. QED BY <1>1, <1>4, <1>5, <3>1 DEF StageDiscipline, LeaseExpired, StartAttempt, Claimable
  <2>. QED BY <1>1, <1>2, <1>4, <2>1, <2>2 DEF StageDiscipline
<1>7. ASSUME NEW t \in Stages, t # s
      PROVE  StageDiscipline(t)'
  <2>1. job'[t] = job[t] /\ attempt'[t] = attempt[t]
    BY <1>7 DEF StartAttempt, TypeOK
  <2>. QED BY <2>1, StageKept DEF LeaseDiscipline
<1>. QED BY <1>6, <1>7 DEF LeaseDiscipline

LEMMA CloseDiscipline ==
    ASSUME TypeOK, LeaseDiscipline, NEW s \in Stages, NEW w \in Workers, HeldBy(s, w),
           worker[w].attempt = job[s].attempts,
           NEW status \in {"retryable", "completed", "failed", "cancelled"},
           NEW outcome \in {"retryable", "completed", "failed", "cancelled"},
           Close(s, w, status, outcome)
    PROVE  LeaseDiscipline'
<1>1. StageDiscipline(s)
  BY DEF LeaseDiscipline
<1>2. job[s].attempts \in Attempts
  BY <1>1, AttemptsNat DEF TypeOK, JobRows, StageDiscipline, HeldBy, Attempts
<1>3. job'[s] = [status |-> status, owner |-> None, live |-> FALSE, attempts |-> job[s].attempts]
  BY DEF Close, Unleased, TypeOK
<1>4. \A n \in Attempts : attempt'[s][n] = IF n = job[s].attempts THEN outcome ELSE attempt[s][n]
  BY DEF Close, TypeOK
<1>5. StageDiscipline(s)'
  BY <1>1, <1>2, <1>3, <1>4, AttemptsNat DEF StageDiscipline, HeldBy, Attempts
<1>6. ASSUME NEW t \in Stages, t # s
      PROVE  StageDiscipline(t)'
  <2>1. job'[t] = job[t] /\ attempt'[t] = attempt[t]
    BY <1>6 DEF Close, Unleased, TypeOK
  <2>. QED BY <2>1, StageKept DEF LeaseDiscipline
<1>. QED BY <1>5, <1>6 DEF LeaseDiscipline

\* Cancelling a job leaves its log, its running attempt included, as it is.
LEMMA CancelDiscipline ==
    ASSUME TypeOK, NEW s \in Stages, StageDiscipline(s),
           job[s].status \in {"pending", "claimed", "retryable"},
           job'[s] = Unleased(s, "cancelled")[s], attempt'[s] = attempt[s]
    PROVE  StageDiscipline(s)'
<1>1. job'[s] = [status |-> "cancelled", owner |-> None, live |-> FALSE,
                 attempts |-> job[s].attempts]
  BY DEF Unleased, TypeOK
<1>. QED BY <1>1 DEF StageDiscipline

\* A job row just created has no attempt.
LEMMA CreateDiscipline ==
    ASSUME TypeOK, NEW s \in Stages, StageDiscipline(s), job[s].status = "none",
           job'[s] = PendingJob, attempt'[s] = attempt[s]
    PROVE  StageDiscipline(s)'
<1>1. job'[s].attempts = job[s].attempts
  BY DEF PendingJob, StageDiscipline
<1>. QED BY <1>1 DEF PendingJob, StageDiscipline

\* What a step leaves alone when it is not one of the jobs' own transactions.
LEMMA LeaseFrame ==
    ASSUME LeaseDiscipline, job' = job, attempt' = attempt
    PROVE  LeaseDiscipline'
  BY DEF LeaseDiscipline, StageDiscipline

LEMMA StopDiscipline ==
    ASSUME TypeOK, LeaseDiscipline, RemovalAgrees, NEW terminal, StopAdmission(terminal)
    PROVE  LeaseDiscipline'
<1>1. attempt' = attempt
  BY DEF StopAdmission
<1>2. StageDiscipline("validate_admission")'
  <2>1. CASE job["validate_admission"].status \in {"pending", "claimed", "retryable"}
    <3>1. job'["validate_admission"] = Unleased("validate_admission", "cancelled")["validate_admission"]
      BY <2>1, UnleasedType DEF StopAdmission, ScheduleRemoval, CancelledValidation, TypeOK, Stages
    <3>. QED BY <1>1, <2>1, <3>1, CancelDiscipline DEF LeaseDiscipline, Stages
  <2>2. CASE job["validate_admission"].status \notin {"pending", "claimed", "retryable"}
    <3>1. job'["validate_admission"] = job["validate_admission"]
      BY <2>2 DEF StopAdmission, ScheduleRemoval, CancelledValidation, TypeOK, Stages
    <3>. QED BY <1>1, <3>1, StageKept DEF LeaseDiscipline, Stages
  <2>. QED BY <2>1, <2>2
<1>3. StageDiscipline("remove_quarantine_object")'
  <2>1. CancelledValidation \in [Stages -> JobRows]
    BY UnleasedType DEF CancelledValidation, TypeOK, Stages
  <2>2. CancelledValidation["remove_quarantine_object"] = job["remove_quarantine_object"]
    BY DEF CancelledValidation, Unleased, TypeOK, Stages
  <2>3. CASE job'["remove_quarantine_object"] = job["remove_quarantine_object"]
    BY <1>1, <2>3, StageKept DEF LeaseDiscipline, Stages
  <2>4. CASE job["remove_quarantine_object"].status = "none"
             /\ job'["remove_quarantine_object"] = PendingJob
    BY <1>1, <2>4, CreateDiscipline DEF LeaseDiscipline, Stages
  <2>. QED BY <2>1, <2>2, <2>3, <2>4 DEF StopAdmission, ScheduleRemoval, Stages
<1>. QED BY <1>2, <1>3 DEF LeaseDiscipline, Stages

LEMMA LeaseStep ==
    ASSUME TypeOK, LeaseDiscipline, RemovalAgrees, CallsAgree, Next
    PROVE  LeaseDiscipline'
<1>1. CASE Decide
  <2>1. CASE ReviewActivate \/ ReviewDeny
    BY <2>1, LeaseFrame DEF ReviewActivate, ReviewDeny
  <2>2. CASE ReviewRevoke \/ CancelAdmission
    BY <2>2, StopDiscipline DEF ReviewRevoke, CancelAdmission
  <2>3. ASSUME NEW status \in {"expired", "disputed"}, BlockAuthorization(status)
        PROVE  LeaseDiscipline'
    BY <2>3, StopDiscipline DEF BlockAuthorization
  <2>. QED BY <1>1, <2>1, <2>2, <2>3 DEF Decide
<1>2. CASE Target
  BY <1>2, LeaseFrame DEF Target, CreateUploadIntent, UploadExpired, RejectBeforeStorage
<1>3. ASSUME NEW u \in Uploaders, NEW i \in Intents, NEW b \in Bodies, ClaimIntent(u, i, b)
      PROVE  LeaseDiscipline'
  BY <1>3, LeaseFrame DEF ClaimIntent
<1>4. ASSUME NEW u \in Uploaders, Upload(u)
      PROVE  LeaseDiscipline'
  <2>1. CASE RecordUpload(u)
    <3>1. job["validate_admission"].status = "none"
          /\ job'["validate_admission"] = PendingJob
          /\ job'["remove_quarantine_object"] = job["remove_quarantine_object"]
          /\ attempt' = attempt
      BY <2>1 DEF RecordUpload, TypeOK, Stages
    <3>2. StageDiscipline("validate_admission")'
      BY <3>1, CreateDiscipline DEF LeaseDiscipline, Stages
    <3>3. StageDiscipline("remove_quarantine_object")'
      BY <3>1, StageKept DEF LeaseDiscipline, Stages
    <3>. QED BY <3>2, <3>3 DEF LeaseDiscipline, Stages
  <2>2. CASE ~RecordUpload(u)
    BY <1>4, <2>2, LeaseFrame
    DEF Upload, StoragePut, StoragePutFails, ReleaseClaim, DiscardUpload, CleanupOrphan, rows
  <2>. QED BY <2>1, <2>2
<1>5. ASSUME NEW w \in Workers, Claim(w)
      PROVE  LeaseDiscipline'
  BY <1>5, StartDiscipline DEF Claim, ClaimValidation, ClaimRemoval, Stages
<1>6. ASSUME NEW w \in Workers, Run(w)
      PROVE  LeaseDiscipline'
  <2>1. CASE ReadAndInspect(w) \/ LoseLease(w) \/ DeleteObject(w) \/ ObserveAbsence(w)
    BY <2>1, LeaseFrame DEF ReadAndInspect, LoseLease, DeleteObject, ObserveAbsence, rows
  <2>2. CASE Admit(w) \/ Reject(w) \/ Postpone(w) \/ DiscardResult(w)
    <3>1. /\ worker[w].attempt = job["validate_admission"].attempts
          /\ HeldBy("validate_admission", w)
      BY <2>2 DEF Admit, Reject, Postpone, DiscardResult, ResultCounts, CallsAgree, CallAgrees, OnStage, Stages
    <3>. QED BY <2>2, <3>1, CloseDiscipline
         DEF Admit, Reject, Postpone, DiscardResult, Retry, Stages
  <2>3. CASE CompleteRemoval(w) \/ RemovalUnavailable(w)
    <3>1. /\ worker[w].attempt = job["remove_quarantine_object"].attempts
          /\ HeldBy("remove_quarantine_object", w)
      BY <2>3 DEF CompleteRemoval, RemovalUnavailable, CallsAgree, CallAgrees, OnStage, Stages
    <3>. QED BY <2>3, <3>1, CloseDiscipline DEF CompleteRemoval, RemovalUnavailable, Retry, Stages
  <2>4. CASE AcknowledgeCancel(w)
    <3>1. ASSUME NEW s \in Stages
          PROVE  StageDiscipline(s)'
      <4>1. /\ job' = job
            /\ \A n \in Attempts :
                  \/ attempt'[s][n] = attempt[s][n]
                  \/ attempt[s][n] = "running" /\ attempt'[s][n] = "cancelled"
                     /\ job[s].status = "cancelled"
        BY <2>4 DEF AcknowledgeCancel, TypeOK, Stages
      <4>2. job[s].status = "claimed" => job[s].attempts \in Attempts
        BY AttemptsNat DEF LeaseDiscipline, StageDiscipline, TypeOK, JobRows, Attempts
      <4>. QED BY <4>1, <4>2 DEF LeaseDiscipline, StageDiscipline
    <3>. QED BY <3>1 DEF LeaseDiscipline
  <2>. QED BY <1>6, <2>1, <2>2, <2>3, <2>4 DEF Run
<1>7. CASE CancelBlockedValidation
  <2>1. StageDiscipline("validate_admission")'
    BY <1>7, CancelDiscipline, UnleasedType DEF CancelBlockedValidation, LeaseDiscipline, Stages
  <2>2. StageDiscipline("remove_quarantine_object")'
    BY <1>7, StageKept DEF CancelBlockedValidation, Unleased, TypeOK, LeaseDiscipline, Stages
  <2>. QED BY <2>1, <2>2 DEF LeaseDiscipline, Stages
<1>8. ASSUME NEW s \in Stages, FailExhausted(s)
      PROVE  LeaseDiscipline'
  <2>1. job'[s] = [status |-> "failed", owner |-> None, live |-> FALSE, attempts |-> job[s].attempts]
    BY <1>8 DEF FailExhausted, Unleased, TypeOK
  <2>2. \A n \in Attempts :
           attempt'[s][n] = IF n = job[s].attempts THEN "failed" ELSE attempt[s][n]
    BY <1>8 DEF FailExhausted, ClosedAttempts, TypeOK
  <2>3. StageDiscipline(s) /\ job[s].status = "claimed" /\ job[s].attempts \in Attempts
    BY <1>8, AttemptsNat
    DEF LeaseDiscipline, StageDiscipline, FailExhausted, LeaseExpired, TypeOK, JobRows, Attempts
  <2>4. StageDiscipline(s)'
    BY <2>1, <2>2, <2>3, AttemptsNat DEF StageDiscipline, Attempts
  <2>5. ASSUME NEW t \in Stages, t # s
        PROVE  StageDiscipline(t)'
    <3>1. job'[t] = job[t] /\ attempt'[t] = attempt[t]
      BY <1>8, <2>5 DEF FailExhausted, Unleased, TypeOK
    <3>. QED BY <3>1, StageKept DEF LeaseDiscipline
  <2>. QED BY <2>4, <2>5 DEF LeaseDiscipline
<1>9. ASSUME NEW s \in Sweepers, Sweep(s)
      PROVE  LeaseDiscipline'
  BY <1>9, LeaseFrame
  DEF Sweep, ListLocators, QueryInventory, DeleteOrphan, CheckOrphan, ReleaseOrphanClaim, EndPass, rows
<1>10. CASE Lapse
  <2>1. CASE RightsLapse \/ \E i \in Intents : IntentLapse(i) \/ ClaimLapse(i)
    BY <2>1, LeaseFrame DEF RightsLapse, IntentLapse, ClaimLapse, rows
  <2>2. ASSUME NEW s \in Stages, LeaseLapse(s)
        PROVE  LeaseDiscipline'
    <3>1. attempt' = attempt
      BY <2>2 DEF LeaseLapse
    <3>2. \A t \in Stages :
             /\ job'[t].status = job[t].status
             /\ job'[t].owner = job[t].owner
             /\ job'[t].attempts = job[t].attempts
             /\ job'[t].live => job[t].live
      BY <2>2 DEF LeaseLapse, TypeOK, JobRows
    <3>. QED BY <3>1, <3>2 DEF LeaseDiscipline, StageDiscipline
  <2>. QED BY <1>10, <2>1, <2>2 DEF Lapse
<1>11. CASE Crash
  BY <1>11, LeaseFrame DEF Crash, CrashUpload, CrashWorker, CrashSweeper, rows
<1>. QED
  BY <1>1, <1>2, <1>3, <1>4, <1>5, <1>6, <1>7, <1>8, <1>9, <1>10, <1>11 DEF Next, Step

-----------------------------------------------------------------------------
(* What the shared parts of the actions do to the rows.                    *)

\* A settling write touches its own stage's job row and this call only.
LEMMA CloseEffect ==
    ASSUME TypeOK, NEW s \in Stages, NEW w \in Workers,
           NEW status \in {"retryable", "completed", "failed", "cancelled"},
           NEW outcome \in {"retryable", "completed", "failed", "cancelled"},
           Close(s, w, status, outcome)
    PROVE  /\ job'[s] = [status |-> status, owner |-> None, live |-> FALSE,
                         attempts |-> job[s].attempts]
           /\ \A t \in Stages : t # s => job'[t] = job[t]
           /\ worker' = [worker EXCEPT ![w] = IdleWorker]
  BY DEF Close, Unleased, TypeOK

\* So does a retry, which fails the job with its last attempt.
LEMMA RetryEffect ==
    ASSUME TypeOK, NEW s \in Stages, NEW w \in Workers, Retry(s, w)
    PROVE  /\ job'[s].status = IF Exhausted(s) THEN "failed" ELSE "retryable"
           /\ job'[s].owner = None
           /\ job'[s].attempts = job[s].attempts
           /\ \A t \in Stages : t # s => job'[t] = job[t]
           /\ worker' = [worker EXCEPT ![w] = IdleWorker]
<1>1. CASE Exhausted(s)
  <2>1. Close(s, w, "failed", "failed")
    BY <1>1 DEF Retry
  <2>2. job'[s] = [status |-> "failed", owner |-> None, live |-> FALSE, attempts |-> job[s].attempts]
    BY <2>1, CloseEffect
  <2>3. (\A t \in Stages : t # s => job'[t] = job[t]) /\ worker' = [worker EXCEPT ![w] = IdleWorker]
    BY <2>1, CloseEffect
  <2>. QED BY <1>1, <2>2, <2>3
<1>2. CASE ~Exhausted(s)
  <2>1. Close(s, w, "retryable", "retryable")
    BY <1>2 DEF Retry
  <2>2. job'[s] = [status |-> "retryable", owner |-> None, live |-> FALSE, attempts |-> job[s].attempts]
    BY <2>1, CloseEffect
  <2>3. (\A t \in Stages : t # s => job'[t] = job[t]) /\ worker' = [worker EXCEPT ![w] = IdleWorker]
    BY <2>1, CloseEffect
  <2>. QED BY <1>2, <2>2, <2>3
<1>. QED BY <1>1, <1>2

\* A claim takes the lease of its stage for one call and numbers its attempt.
LEMMA StartEffect ==
    ASSUME TypeOK, NEW s \in Stages, NEW w \in Workers,
           NEW pc \in {"read", "delete"}, StartAttempt(s, w, pc)
    PROVE  /\ job[s].status \in {"pending", "retryable", "claimed"}
           /\ job'[s] = [status |-> "claimed", owner |-> w, live |-> TRUE,
                         attempts |-> job[s].attempts + 1]
           /\ \A t \in Stages : t # s => job'[t] = job[t]
           /\ worker' = [worker EXCEPT ![w] = [pc |-> pc, attempt |-> job[s].attempts + 1,
                                               result |-> "none"]]
  BY DEF StartAttempt, Claimable, LeaseExpired, TypeOK

\* Stopping the admission leaves the validation job without work, and makes a
\* removal job exactly when there is an object to remove and no such job yet.
LEMMA StopEffect ==
    ASSUME TypeOK, NEW terminal, StopAdmission(terminal)
    PROVE  /\ job'["validate_admission"].attempts = job["validate_admission"].attempts
           /\ \/ /\ job["validate_admission"].status \in {"pending", "claimed", "retryable"}
                 /\ job'["validate_admission"].status = "cancelled"
              \/ /\ job["validate_admission"].status \notin {"pending", "claimed", "retryable"}
                 /\ job'["validate_admission"] = job["validate_admission"]
           /\ \/ /\ object.status = "present"
                 /\ job["remove_quarantine_object"].status = "none"
                 /\ job'["remove_quarantine_object"] = PendingJob
              \/ /\ object.status = "present" => job["remove_quarantine_object"].status # "none"
                 /\ job'["remove_quarantine_object"] = job["remove_quarantine_object"]
<1>. DEFINE jobs == CancelledValidation
<1>1. jobs["remove_quarantine_object"] = job["remove_quarantine_object"]
  BY DEF CancelledValidation, Unleased, TypeOK, Stages
<1>2. jobs \in [Stages -> JobRows]
  BY UnleasedType DEF CancelledValidation, TypeOK, Stages
<1>3. job' = IF object.status = "present" /\ job["remove_quarantine_object"].status = "none"
             THEN [jobs EXCEPT !["remove_quarantine_object"] = PendingJob] ELSE jobs
  BY <1>1 DEF StopAdmission, ScheduleRemoval
<1>4. /\ job'["validate_admission"] = jobs["validate_admission"]
      /\ job'["remove_quarantine_object"] =
            IF object.status = "present" /\ job["remove_quarantine_object"].status = "none"
            THEN PendingJob ELSE job["remove_quarantine_object"]
  <2>. HIDE DEF jobs
  <2>. QED BY <1>1, <1>2, <1>3 DEF Stages
<1>5. CASE job["validate_admission"].status \in {"pending", "claimed", "retryable"}
  <2>1. jobs["validate_admission"].status = "cancelled"
        /\ jobs["validate_admission"].attempts = job["validate_admission"].attempts
    BY <1>5 DEF CancelledValidation, Unleased, TypeOK, Stages
  <2>. HIDE DEF jobs
  <2>. QED BY <1>4, <1>5, <2>1
<1>6. CASE job["validate_admission"].status \notin {"pending", "claimed", "retryable"}
  <2>1. jobs["validate_admission"] = job["validate_admission"]
    BY <1>6 DEF CancelledValidation
  <2>. HIDE DEF jobs
  <2>. QED BY <1>4, <1>6, <2>1
<1>. QED BY <1>5, <1>6

-----------------------------------------------------------------------------
(* Versions under validation.                                              *)

LEMMA StallStep ==
    ASSUME TypeOK, NoSilentStall, SingleDelivery, VersionAgrees, Next
    PROVE  NoSilentStall'
<1>1. CASE Decide
  <2>1. CASE ReviewActivate \/ ReviewDeny
    BY <2>1 DEF ReviewActivate, ReviewDeny, NoSilentStall
  <2>2. ASSUME NEW terminal \in Withdrawn, StopAdmission(terminal)
        PROVE  NoSilentStall'
    BY <2>2, StopEffect DEF StopAdmission, NoSilentStall, Withdrawn
  <2>. QED BY <1>1, <2>1, <2>2 DEF Decide, ReviewRevoke, BlockAuthorization, CancelAdmission, Withdrawn
<1>2. CASE Target
  BY <1>2 DEF Target, CreateUploadIntent, UploadExpired, RejectBeforeStorage, NoSilentStall, SingleDelivery
<1>3. ASSUME NEW u \in Uploaders, NEW i \in Intents, NEW b \in Bodies, ClaimIntent(u, i, b)
      PROVE  NoSilentStall'
  BY <1>3 DEF ClaimIntent, NoSilentStall
<1>4. ASSUME NEW u \in Uploaders, Upload(u)
      PROVE  NoSilentStall'
  <2>1. CASE RecordUpload(u)
    <3>1. job'["validate_admission"] = PendingJob
      BY <2>1 DEF RecordUpload, TypeOK, Stages
    <3>. QED BY <2>1, <3>1 DEF RecordUpload, NoSilentStall, PendingJob
  <2>2. CASE ~RecordUpload(u)
    BY <1>4, <2>2
    DEF Upload, StoragePut, StoragePutFails, ReleaseClaim, DiscardUpload, CleanupOrphan, rows, NoSilentStall
  <2>. QED BY <2>1, <2>2
<1>5. ASSUME NEW w \in Workers, Claim(w)
      PROVE  NoSilentStall'
  <2>1. CASE ClaimValidation(w)
    <3>1. StartAttempt("validate_admission", w, "read")
      BY <2>1 DEF ClaimValidation
    <3>2. job'["validate_admission"] = [status |-> "claimed", owner |-> w, live |-> TRUE,
                                        attempts |-> job["validate_admission"].attempts + 1]
      BY <3>1, StartEffect DEF Stages
    <3>. QED BY <2>1, <3>2 DEF ClaimValidation, NoSilentStall
  <2>2. CASE ClaimRemoval(w)
    BY <2>2, StartEffect DEF ClaimRemoval, NoSilentStall, Stages
  <2>. QED BY <1>5, <2>1, <2>2 DEF Claim
<1>6. ASSUME NEW w \in Workers, Run(w)
      PROVE  NoSilentStall'
  <2>1. CASE ReadAndInspect(w) \/ LoseLease(w) \/ DeleteObject(w) \/ ObserveAbsence(w)
             \/ AcknowledgeCancel(w)
    BY <2>1
    DEF ReadAndInspect, LoseLease, DeleteObject, ObserveAbsence, AcknowledgeCancel, rows, NoSilentStall
  <2>2. CASE Admit(w) \/ Reject(w)
    <3>1. job'["validate_admission"].status = "completed"
      BY <2>2, CloseEffect DEF Admit, Reject, Stages
    <3>. QED BY <2>2, <3>1 DEF Admit, Reject, NoSilentStall
  <2>3. CASE Postpone(w)
    BY <2>3, RetryEffect DEF Postpone, NoSilentStall, Stages
  <2>4. CASE DiscardResult(w)
    <3>1. job'["validate_admission"].status = "cancelled"
      BY <2>4, CloseEffect DEF DiscardResult, Stages
    <3>. QED
      BY <2>4, <3>1
      DEF DiscardResult, HeldBy, AuthorizationIsActive, VersionAgrees, NoSilentStall, Stages, Withdrawn, Blockable
  <2>5. CASE CompleteRemoval(w)
    BY <2>5, CloseEffect DEF CompleteRemoval, NoSilentStall, Stages
  <2>6. CASE RemovalUnavailable(w)
    BY <2>6, RetryEffect DEF RemovalUnavailable, NoSilentStall, Stages
  <2>. QED BY <1>6, <2>1, <2>2, <2>3, <2>4, <2>5, <2>6 DEF Run
<1>7. CASE CancelBlockedValidation
  <2>1. job'["validate_admission"].status = "cancelled"
    BY <1>7 DEF CancelBlockedValidation, Unleased, TypeOK, Stages
  <2>. QED
    BY <1>7, <2>1
    DEF CancelBlockedValidation, AuthorizationIsActive, VersionAgrees, NoSilentStall, Withdrawn, Blockable
<1>8. ASSUME NEW s \in Stages, FailExhausted(s)
      PROVE  NoSilentStall'
  <2>1. job'[s].status = "failed" /\ \A t \in Stages : t # s => job'[t] = job[t]
    BY <1>8 DEF FailExhausted, Unleased, TypeOK
  <2>. QED BY <1>8, <2>1 DEF FailExhausted, NoSilentStall, Stages
<1>9. ASSUME NEW s \in Sweepers, Sweep(s)
      PROVE  NoSilentStall'
  BY <1>9
  DEF Sweep, ListLocators, QueryInventory, DeleteOrphan, CheckOrphan, ReleaseOrphanClaim, EndPass, rows,
      NoSilentStall
<1>10. CASE Lapse
  <2>1. CASE RightsLapse \/ \E i \in Intents : IntentLapse(i) \/ ClaimLapse(i)
    BY <2>1 DEF RightsLapse, IntentLapse, ClaimLapse, rows, NoSilentStall
  <2>2. ASSUME NEW s \in Stages, LeaseLapse(s)
        PROVE  NoSilentStall'
    <3>1. \A t \in Stages : job'[t].status = job[t].status
      BY <2>2 DEF LeaseLapse, TypeOK, JobRows
    <3>. QED BY <2>2, <3>1 DEF LeaseLapse, NoSilentStall, Stages
  <2>. QED BY <1>10, <2>1, <2>2 DEF Lapse
<1>11. CASE Crash
  BY <1>11 DEF Crash, CrashUpload, CrashWorker, CrashSweeper, rows, NoSilentStall
<1>. QED
  BY <1>1, <1>2, <1>3, <1>4, <1>5, <1>6, <1>7, <1>8, <1>9, <1>10, <1>11 DEF Next, Step

-----------------------------------------------------------------------------
(* Targets and the one delivery.                                           *)

\* What a step may do to the version, the object and the jobs while it leaves
\* the targets alone.
LEMMA DeliveryKept ==
    ASSUME SingleDelivery, intent' = intent,
           \A i \in Intents : intent[i].status = "active" => version' = version,
           object'.status = "none" <=> object.status = "none",
           object'.intent = object.intent, object'.body = object.body,
           job'["validate_admission"].status = "none" <=> job["validate_admission"].status = "none"
    PROVE  SingleDelivery'
  BY DEF SingleDelivery

\* What a step may do to the targets: close them, and drop their claims.
LEMMA TargetsClosed ==
    ASSUME SingleDelivery, object' = object,
           job'["validate_admission"].status = "none" <=> job["validate_admission"].status = "none",
           \A i \in Intents :
              \/ intent'[i] = intent[i] /\ intent'[i].status # "active"
              \/ intent'[i] = intent[i] /\ version' = version
              \/ /\ intent[i].status = "active"
                 /\ \/ intent'[i].status \in {"consumed", "expired", "cancelled"}
                    \/ intent'[i].status = "active" /\ version' = version
                 /\ intent'[i].claim = None
                 /\ ~intent'[i].claimLive
    PROVE  SingleDelivery'
<1>1. ASSUME NEW i \in Intents
      PROVE  /\ intent'[i].status = "active" => intent[i].status = "active" /\ version' = version
             /\ intent'[i].claim # None => intent'[i].status = "active"
             /\ intent'[i].claimLive => intent'[i].claim # None
             /\ intent[i].status = "consumed" => intent'[i].status = "consumed"
  BY DEF SingleDelivery
<1>. QED BY <1>1 DEF SingleDelivery

LEMMA DeliveryStep ==
    ASSUME TypeOK, NoSilentStall, SingleDelivery, VersionAgrees, CallsAgree, Next
    PROVE  SingleDelivery'
<1>1. CASE Decide
  <2>1. CASE ReviewActivate \/ ReviewDeny
    <3>1. \A i \in Intents : intent[i].status # "active"
      BY <2>1 DEF ReviewActivate, ReviewDeny, SingleDelivery
    <3>. QED BY <2>1, <3>1, DeliveryKept DEF ReviewActivate, ReviewDeny
  <2>2. ASSUME NEW terminal \in Withdrawn, StopAdmission(terminal)
        PROVE  SingleDelivery'
    <3>1. job'["validate_admission"].status = "none" <=> job["validate_admission"].status = "none"
      BY <2>2, StopEffect
    <3>2. ASSUME NEW i \in Intents
          PROVE  \/ intent'[i] = intent[i] /\ intent'[i].status # "active"
                 \/ /\ intent[i].status = "active"
                    /\ intent'[i].status = "cancelled"
                    /\ intent'[i].claim = None
                    /\ ~intent'[i].claimLive
      BY <2>2 DEF StopAdmission, CancelledIntents, Unclaimed
    <3>. QED BY <2>2, <3>1, <3>2, TargetsClosed DEF StopAdmission
  <2>. QED BY <1>1, <2>1, <2>2 DEF Decide, ReviewRevoke, BlockAuthorization, CancelAdmission, Withdrawn
<1>2. ASSUME NEW i \in Intents, CreateUploadIntent(i)
      PROVE  SingleDelivery'
  <2>1. intent'[i] = [status |-> "active", live |-> TRUE, claim |-> None, claimLive |-> FALSE]
    BY <1>2 DEF CreateUploadIntent
  <2>2. ASSUME NEW j \in Intents, j # i
        PROVE  /\ intent'[j].status # "active"
               /\ intent'[j].claim = None
               /\ ~intent'[j].claimLive
               /\ intent[j].status = "consumed" => intent'[j].status = "consumed"
    BY <1>2, <2>2 DEF CreateUploadIntent, Overdue, SingleDelivery, TypeOK, IntentRows
  <2>3. intent[i].status # "consumed" /\ version' = "upload_pending" /\ object' = object
        /\ job' = job /\ object.status = "none"
    BY <1>2 DEF CreateUploadIntent, VersionAgrees
  <2>. QED BY <2>1, <2>2, <2>3 DEF SingleDelivery
<1>3. ASSUME NEW i \in Intents, UploadExpired(i)
      PROVE  SingleDelivery'
  <2>1. \A j \in Intents :
           \/ intent'[j] = intent[j] /\ version' = version
           \/ /\ intent[j].status = "active"
              /\ intent'[j].status = "expired"
              /\ intent'[j].claim = None
              /\ ~intent'[j].claimLive
    BY <1>3 DEF UploadExpired, Overdue, SingleDelivery, TypeOK, IntentRows
  <2>. QED BY <1>3, <2>1, TargetsClosed DEF UploadExpired
<1>4. ASSUME NEW i \in Intents, RejectBeforeStorage(i)
      PROVE  SingleDelivery'
  <2>1. \A j \in Intents :
           \/ intent'[j] = intent[j] /\ intent'[j].status # "active"
           \/ /\ intent[j].status = "active"
              /\ intent'[j].status = "consumed"
              /\ intent'[j].claim = None
              /\ ~intent'[j].claimLive
    BY <1>4 DEF RejectBeforeStorage, SingleDelivery, TypeOK, IntentRows
  <2>. QED BY <1>4, <2>1, TargetsClosed DEF RejectBeforeStorage
<1>5. ASSUME NEW u \in Uploaders, NEW i \in Intents, NEW b \in Bodies, ClaimIntent(u, i, b)
      PROVE  SingleDelivery'
  <2>1. \A j \in Intents :
           /\ intent'[j].status = intent[j].status
           /\ j # i => intent'[j] = intent[j]
           /\ j = i => intent'[j].claim = b /\ intent[j].status = "active"
    BY <1>5 DEF ClaimIntent, TypeOK, IntentRows
  <2>2. b # None
    BY BodiesAssumption DEF BodiesAssumption
  <2>3. \A j \in Intents : /\ intent'[j].claim # None => intent'[j].status = "active"
                           /\ intent'[j].claimLive => intent'[j].claim # None
    BY <2>1, <2>2 DEF SingleDelivery
  <2>4. version' = version /\ object' = object /\ job' = job
    BY <1>5 DEF ClaimIntent
  <2>. QED BY <2>1, <2>3, <2>4 DEF SingleDelivery
<1>6. ASSUME NEW u \in Uploaders, Upload(u)
      PROVE  SingleDelivery'
  <2>1. CASE StoragePut(u) \/ StoragePutFails(u) \/ DiscardUpload(u) \/ CleanupOrphan(u)
    BY <2>1, DeliveryKept, SMTT(40) DEF StoragePut, StoragePutFails, DiscardUpload, CleanupOrphan, rows
  <2>2. CASE ReleaseClaim(u)
    <3>1. uploader[u].intent \in Intents /\ uploader[u].body # None
      BY <2>2, BodiesAssumption DEF ReleaseClaim, CallsAgree, BodiesAssumption
    <3>2. \A j \in Intents :
             \/ intent'[j] = intent[j] /\ version' = version
             \/ /\ intent[j].status = "active"
                /\ intent'[j].status = "active" /\ version' = version
                /\ intent'[j].claim = None
                /\ ~intent'[j].claimLive
      BY <2>2, <3>1 DEF ReleaseClaim, Unclaimed, SingleDelivery, TypeOK
    <3>. QED BY <2>2, <3>2, TargetsClosed DEF ReleaseClaim
  <2>3. CASE RecordUpload(u)
    <3>. DEFINE k == uploader[u].intent
    <3>1. k \in Intents /\ uploader[u].body \in Bodies
      BY <2>3 DEF RecordUpload, CallsAgree
    <3>2. intent[k].status = "active"
      BY <2>3 DEF RecordUpload, UploadStillValid
    <3>3. intent'[k].status = "consumed" /\ intent'[k].claim = None /\ ~intent'[k].claimLive
      BY <2>3, <3>1 DEF RecordUpload, Unclaimed, TypeOK
    <3>4. \A j \in Intents : j # k => intent'[j] = intent[j] /\ intent[j].status # "active"
      BY <2>3, <3>1, <3>2 DEF RecordUpload, SingleDelivery, TypeOK
    <3>5. \A j \in Intents : /\ intent'[j].status # "active"
                             /\ intent'[j].claim = None
                             /\ ~intent'[j].claimLive
      BY <3>3, <3>4 DEF SingleDelivery
    <3>6. job'["validate_admission"] = PendingJob
      BY <2>3 DEF RecordUpload, TypeOK, Stages
    <3>7. object' = [status |-> "present", intent |-> k, body |-> uploader[u].body]
      BY <2>3 DEF RecordUpload
    <3>. QED BY <3>1, <3>3, <3>5, <3>6, <3>7 DEF SingleDelivery, PendingJob
  <2>. QED BY <1>6, <2>1, <2>2, <2>3 DEF Upload
<1>7. ASSUME NEW w \in Workers, Claim(w)
      PROVE  SingleDelivery'
  <2>1. CASE ClaimValidation(w)
    <3>1. StartAttempt("validate_admission", w, "read")
      BY <2>1 DEF ClaimValidation
    <3>2. /\ job["validate_admission"].status \in {"pending", "retryable", "claimed"}
          /\ job'["validate_admission"] = [status |-> "claimed", owner |-> w, live |-> TRUE,
                                           attempts |-> job["validate_admission"].attempts + 1]
      BY <3>1, StartEffect DEF Stages
    <3>3. \A i \in Intents : intent[i].status # "active"
      BY <3>2 DEF SingleDelivery, NoSilentStall
    <3>. QED BY <2>1, <3>2, <3>3, DeliveryKept DEF ClaimValidation
  <2>2. CASE ClaimRemoval(w)
    BY <2>2, StartEffect, DeliveryKept DEF ClaimRemoval, Stages
  <2>. QED BY <1>7, <2>1, <2>2 DEF Claim
<1>8. ASSUME NEW w \in Workers, Run(w)
      PROVE  SingleDelivery'
  <2>1. CASE ReadAndInspect(w) \/ LoseLease(w) \/ DeleteObject(w) \/ ObserveAbsence(w)
             \/ AcknowledgeCancel(w)
    BY <2>1, DeliveryKept
    DEF ReadAndInspect, LoseLease, DeleteObject, ObserveAbsence, AcknowledgeCancel, rows
  <2>2. CASE Admit(w) \/ Reject(w) \/ Postpone(w) \/ DiscardResult(w)
    <3>1. job["validate_admission"].status = "claimed"
      BY <2>2 DEF Admit, Reject, Postpone, DiscardResult, ResultCounts, HeldBy
    <3>2. \A i \in Intents : intent[i].status # "active"
      BY <3>1 DEF SingleDelivery, NoSilentStall
    <3>3. object.status = "present"
      BY <3>1 DEF NoSilentStall, VersionAgrees
    <3>4. job'["validate_admission"].status \in {"completed", "cancelled", "failed", "retryable"}
      BY <2>2, CloseEffect, RetryEffect DEF Admit, Reject, Postpone, DiscardResult, Stages
    <3>5. /\ object'.status \in {"present", "missing"}
          /\ object'.intent = object.intent
          /\ object'.body = object.body
      BY <2>2, <3>3 DEF Admit, Reject, Postpone, DiscardResult, TypeOK, ObjectRows
    <3>6. intent' = intent
      BY <2>2 DEF Admit, Reject, Postpone, DiscardResult
    <3>. QED BY <3>1, <3>2, <3>3, <3>4, <3>5, <3>6, DeliveryKept
  <2>3. CASE CompleteRemoval(w)
    <3>1. object.status # "none"
      BY <2>3 DEF CompleteRemoval, CallsAgree, CallAgrees, OnStage, Stages
    <3>2. job'["validate_admission"] = job["validate_admission"]
      BY <2>3, CloseEffect DEF CompleteRemoval, Stages
    <3>3. /\ object'.status = "deleted"
          /\ object'.intent = object.intent
          /\ object'.body = object.body
      BY <2>3 DEF CompleteRemoval, TypeOK, ObjectRows
    <3>. QED BY <2>3, <3>1, <3>2, <3>3, DeliveryKept DEF CompleteRemoval
  <2>4. CASE RemovalUnavailable(w)
    BY <2>4, RetryEffect, DeliveryKept DEF RemovalUnavailable, Stages
  <2>. QED BY <1>8, <2>1, <2>2, <2>3, <2>4 DEF Run
<1>9. CASE CancelBlockedValidation
  <2>1. job'["validate_admission"].status = "cancelled"
    BY <1>9 DEF CancelBlockedValidation, Unleased, TypeOK, Stages
  <2>. QED BY <1>9, <2>1, DeliveryKept DEF CancelBlockedValidation
<1>10. ASSUME NEW s \in Stages, FailExhausted(s)
       PROVE  SingleDelivery'
  <2>1. job'[s].status = "failed" /\ \A t \in Stages : t # s => job'[t] = job[t]
    BY <1>10 DEF FailExhausted, Unleased, TypeOK
  <2>2. job[s].status = "claimed"
    BY <1>10 DEF FailExhausted, LeaseExpired
  <2>3. s = "validate_admission" => \A i \in Intents : intent[i].status # "active"
    BY <2>2 DEF SingleDelivery, NoSilentStall
  <2>. QED BY <1>10, <2>1, <2>2, <2>3, DeliveryKept DEF FailExhausted, Stages
<1>11. ASSUME NEW s \in Sweepers, Sweep(s)
       PROVE  SingleDelivery'
  <2>1. CASE ReleaseOrphanClaim(s)
    <3>1. \A j \in Intents :
             \/ intent'[j] = intent[j] /\ version' = version
             \/ /\ intent[j].status = "active"
                /\ intent'[j].status = "active" /\ version' = version
                /\ intent'[j].claim = None
                /\ ~intent'[j].claimLive
      BY <2>1 DEF ReleaseOrphanClaim, Unclaimed, TypeOK
    <3>. QED BY <2>1, <3>1, TargetsClosed DEF ReleaseOrphanClaim
  <2>2. CASE ~ReleaseOrphanClaim(s)
    BY <1>11, <2>2, DeliveryKept
    DEF Sweep, ListLocators, QueryInventory, DeleteOrphan, CheckOrphan, EndPass, rows
  <2>. QED BY <2>1, <2>2, SMTT(40)
<1>12. CASE Lapse
  <2>1. CASE RightsLapse
    BY <2>1, DeliveryKept DEF RightsLapse, rows
  <2>2. ASSUME NEW i \in Intents, IntentLapse(i) \/ ClaimLapse(i)
        PROVE  SingleDelivery'
    <3>1. \A j \in Intents :
             /\ intent'[j].status = intent[j].status
             /\ intent'[j].claim = intent[j].claim
             /\ intent'[j].claimLive => intent[j].claimLive
      BY <2>2 DEF IntentLapse, ClaimLapse, TypeOK, IntentRows
    <3>. QED BY <2>2, <3>1 DEF IntentLapse, ClaimLapse, SingleDelivery
  <2>3. ASSUME NEW s \in Stages, LeaseLapse(s)
        PROVE  SingleDelivery'
    <3>1. \A t \in Stages : job'[t].status = job[t].status
      BY <2>3 DEF LeaseLapse, TypeOK, JobRows
    <3>. QED BY <2>3, <3>1, DeliveryKept DEF LeaseLapse, Stages
  <2>. QED BY <1>12, <2>1, <2>2, <2>3 DEF Lapse
<1>13. CASE Crash
  BY <1>13, DeliveryKept DEF Crash, CrashUpload, CrashWorker, CrashSweeper, rows
<1>. QED
  BY <1>1, <1>2, <1>3, <1>4, <1>5, <1>6, <1>7, <1>8, <1>9, <1>10, <1>11, <1>12, <1>13
  DEF Next, Step, Target

-----------------------------------------------------------------------------
(* Removals, and what the version's state says about rights and object.    *)

\* A step outside the removal job and the withdrawals keeps the agreement.
LEMMA RemovalKept ==
    ASSUME RemovalAgrees, removal' = removal,
           job'["remove_quarantine_object"].status = job["remove_quarantine_object"].status,
           \/ version' = version /\ object' = object
           \/ /\ version \notin Withdrawn /\ version' \notin Withdrawn
              /\ object'.status # "deleted"
    PROVE  RemovalAgrees'
  BY DEF RemovalAgrees

LEMMA RemovalStep ==
    ASSUME TypeOK, NoSilentStall, SingleDelivery, VersionAgrees, RemovalAgrees, CallsAgree, Next
    PROVE  RemovalAgrees'
<1>1. CASE Decide
  <2>1. CASE ReviewActivate \/ ReviewDeny
    BY <2>1, RemovalKept DEF ReviewActivate, ReviewDeny, VersionAgrees, Withdrawn
  <2>2. ASSUME NEW terminal \in Withdrawn, StopAdmission(terminal), version \notin Withdrawn
        PROVE  RemovalAgrees'
    <3>1. removal = "not_required" /\ job["remove_quarantine_object"].status = "none"
          /\ object.status # "deleted"
      BY <2>2 DEF RemovalAgrees
    <3>2. CASE object.status = "present"
      <4>1. job'["remove_quarantine_object"].status = "pending"
        BY <2>2, <3>1, <3>2, StopEffect DEF PendingJob
      <4>. QED BY <2>2, <3>2, <4>1 DEF StopAdmission, ScheduleRemoval, RemovalAgrees
    <3>3. CASE object.status # "present"
      <4>1. job'["remove_quarantine_object"].status = "none"
        BY <2>2, <3>1, <3>3, StopEffect
      <4>. QED BY <2>2, <3>1, <3>3, <4>1 DEF StopAdmission, ScheduleRemoval, RemovalAgrees
    <3>. QED BY <3>2, <3>3
  <2>. QED
    BY <1>1, <2>1, <2>2
    DEF Decide, ReviewRevoke, BlockAuthorization, CancelAdmission, Withdrawn, Blockable, Cancellable
<1>2. CASE Target
  <2>1. ASSUME NEW i \in Intents, RejectBeforeStorage(i)
        PROVE  RemovalAgrees'
    BY <2>1, RemovalKept DEF RejectBeforeStorage, SingleDelivery, Withdrawn
  <2>2. ASSUME NEW i \in Intents, CreateUploadIntent(i) \/ UploadExpired(i)
        PROVE  RemovalAgrees'
    BY <2>2, RemovalKept DEF CreateUploadIntent, UploadExpired
  <2>. QED BY <1>2, <2>1, <2>2 DEF Target
<1>3. ASSUME NEW u \in Uploaders, NEW i \in Intents, NEW b \in Bodies, ClaimIntent(u, i, b)
      PROVE  RemovalAgrees'
  BY <1>3, RemovalKept DEF ClaimIntent
<1>4. ASSUME NEW u \in Uploaders, Upload(u)
      PROVE  RemovalAgrees'
  <2>1. CASE RecordUpload(u)
    <3>1. job'["remove_quarantine_object"] = job["remove_quarantine_object"]
      BY <2>1 DEF RecordUpload, TypeOK, Stages
    <3>. QED BY <2>1, <3>1, RemovalKept DEF RecordUpload, UploadStillValid, Withdrawn
  <2>2. CASE ~RecordUpload(u)
    BY <1>4, <2>2, RemovalKept
    DEF Upload, StoragePut, StoragePutFails, ReleaseClaim, DiscardUpload, CleanupOrphan, rows
  <2>. QED BY <2>1, <2>2
<1>5. ASSUME NEW w \in Workers, Claim(w)
      PROVE  RemovalAgrees'
  <2>1. CASE ClaimValidation(w)
    <3>1. StartAttempt("validate_admission", w, "read")
      BY <2>1 DEF ClaimValidation
    <3>2. job'["remove_quarantine_object"] = job["remove_quarantine_object"]
      BY <3>1, StartEffect DEF Stages
    <3>3. object.status # "deleted"
      BY <2>1 DEF ClaimValidation, RemovalAgrees
    <3>. QED BY <2>1, <3>2, <3>3, RemovalKept DEF ClaimValidation, Withdrawn
  <2>2. CASE ClaimRemoval(w)
    <3>1. StartAttempt("remove_quarantine_object", w, "delete")
      BY <2>2 DEF ClaimRemoval
    <3>2. /\ job["remove_quarantine_object"].status \in {"pending", "retryable", "claimed"}
          /\ job'["remove_quarantine_object"] =
                [status |-> "claimed", owner |-> w, live |-> TRUE,
                 attempts |-> job["remove_quarantine_object"].attempts + 1]
      BY <3>1, StartEffect DEF Stages
    <3>. QED BY <2>2, <3>2 DEF ClaimRemoval, RemovalAgrees
  <2>. QED BY <1>5, <2>1, <2>2 DEF Claim
<1>6. ASSUME NEW w \in Workers, Run(w)
      PROVE  RemovalAgrees'
  <2>1. CASE ReadAndInspect(w) \/ LoseLease(w) \/ DeleteObject(w) \/ ObserveAbsence(w)
             \/ AcknowledgeCancel(w)
    BY <2>1, RemovalKept
    DEF ReadAndInspect, LoseLease, DeleteObject, ObserveAbsence, AcknowledgeCancel, rows
  <2>2. CASE Admit(w) \/ Reject(w) \/ Postpone(w)
    <3>1. job'["remove_quarantine_object"] = job["remove_quarantine_object"]
      BY <2>2, CloseEffect, RetryEffect DEF Admit, Reject, Postpone, Stages
    <3>2. object'.status \in {object.status, "missing"}
      BY <2>2 DEF Admit, Reject, Postpone, TypeOK, ObjectRows
    <3>3. version \notin Withdrawn /\ version' \notin Withdrawn
      BY <2>2 DEF Admit, Reject, Postpone, ResultCounts, Withdrawn
    <3>4. object.status # "deleted"
      BY <3>3 DEF RemovalAgrees
    <3>. QED BY <2>2, <3>1, <3>2, <3>3, <3>4, RemovalKept DEF Admit, Reject, Postpone
  <2>3. CASE DiscardResult(w)
    <3>1. job'["remove_quarantine_object"] = job["remove_quarantine_object"]
      BY <2>3, CloseEffect DEF DiscardResult, Stages
    <3>. QED BY <2>3, <3>1, RemovalKept DEF DiscardResult
  <2>4. CASE CompleteRemoval(w)
    <3>1. job["remove_quarantine_object"].status = "claimed"
      BY <2>4 DEF CompleteRemoval, HeldBy
    <3>2. job'["remove_quarantine_object"].status = "completed"
      BY <2>4, CloseEffect DEF CompleteRemoval, Stages
    <3>3. object'.status = "deleted"
      BY <2>4 DEF CompleteRemoval, TypeOK, ObjectRows
    <3>. QED BY <2>4, <3>1, <3>2, <3>3 DEF CompleteRemoval, RemovalAgrees
  <2>5. CASE RemovalUnavailable(w)
    <3>1. job["remove_quarantine_object"].status = "claimed"
      BY <2>5 DEF RemovalUnavailable, HeldBy
    <3>2. job'["remove_quarantine_object"].status =
             IF Exhausted("remove_quarantine_object") THEN "failed" ELSE "retryable"
      BY <2>5, RetryEffect DEF RemovalUnavailable, Stages
    <3>. QED BY <2>5, <3>1, <3>2 DEF RemovalUnavailable, RemovalAgrees
  <2>. QED BY <1>6, <2>1, <2>2, <2>3, <2>4, <2>5 DEF Run
<1>7. CASE CancelBlockedValidation
  <2>1. job'["remove_quarantine_object"] = job["remove_quarantine_object"]
    BY <1>7 DEF CancelBlockedValidation, Unleased, TypeOK, Stages
  <2>. QED BY <1>7, <2>1, RemovalKept DEF CancelBlockedValidation
<1>8. ASSUME NEW s \in Stages, FailExhausted(s)
      PROVE  RemovalAgrees'
  <2>1. job[s].status = "claimed" /\ job'[s].status = "failed"
        /\ \A t \in Stages : t # s => job'[t] = job[t]
    BY <1>8 DEF FailExhausted, LeaseExpired, Unleased, TypeOK
  <2>2. CASE s = "validate_admission"
    <3>1. version = "validating" /\ object.status = "present"
      BY <2>1, <2>2 DEF NoSilentStall, VersionAgrees
    <3>. QED BY <1>8, <2>1, <2>2, <3>1, RemovalKept DEF FailExhausted, Stages, Withdrawn
  <2>3. CASE s = "remove_quarantine_object"
    BY <1>8, <2>1, <2>3 DEF FailExhausted, RemovalAgrees
  <2>. QED BY <2>2, <2>3 DEF Stages
<1>9. ASSUME NEW s \in Sweepers, Sweep(s)
      PROVE  RemovalAgrees'
  BY <1>9, RemovalKept
  DEF Sweep, ListLocators, QueryInventory, DeleteOrphan, CheckOrphan, ReleaseOrphanClaim, EndPass, rows
<1>10. CASE Lapse
  <2>1. CASE RightsLapse \/ \E i \in Intents : IntentLapse(i) \/ ClaimLapse(i)
    BY <2>1, RemovalKept DEF RightsLapse, IntentLapse, ClaimLapse, rows
  <2>2. ASSUME NEW s \in Stages, LeaseLapse(s)
        PROVE  RemovalAgrees'
    <3>1. \A t \in Stages : job'[t].status = job[t].status
      BY <2>2 DEF LeaseLapse, TypeOK, JobRows
    <3>. QED BY <2>2, <3>1, RemovalKept DEF LeaseLapse, Stages
  <2>. QED BY <1>10, <2>1, <2>2 DEF Lapse
<1>11. CASE Crash
  BY <1>11, RemovalKept DEF Crash, CrashUpload, CrashWorker, CrashSweeper, rows
<1>. QED
  BY <1>1, <1>2, <1>3, <1>4, <1>5, <1>6, <1>7, <1>8, <1>9, <1>10, <1>11 DEF Next, Step

\* A step that decides nothing about the version, its rights or its object.
LEMMA VersionKept ==
    ASSUME VersionAgrees, version' = version, auth' = auth, object' = object,
           job["validate_admission"].status = "completed" =>
              job'["validate_admission"].status = "completed"
    PROVE  VersionAgrees'
  BY DEF VersionAgrees

LEMMA VersionStep ==
    ASSUME TypeOK, NoSilentStall, SingleDelivery, RemovalAgrees, VersionAgrees, CallsAgree, Next
    PROVE  VersionAgrees'
<1>1. CASE Decide
  <2>1. CASE ReviewActivate \/ ReviewDeny
    BY <2>1 DEF ReviewActivate, ReviewDeny, VersionAgrees, Blockable
  <2>2. CASE ReviewRevoke
    BY <2>2 DEF ReviewRevoke, StopAdmission, VersionAgrees, Blockable
  <2>3. ASSUME NEW status \in {"expired", "disputed"}, BlockAuthorization(status)
        PROVE  VersionAgrees'
    BY <2>3 DEF BlockAuthorization, StopAdmission, VersionAgrees, Blockable
  <2>4. CASE CancelAdmission
    BY <2>4 DEF CancelAdmission, StopAdmission, VersionAgrees, Blockable, Cancellable
  <2>. QED BY <1>1, <2>1, <2>2, <2>3, <2>4 DEF Decide
<1>2. CASE Target
  <2>1. ASSUME NEW i \in Intents, RejectBeforeStorage(i)
        PROVE  VersionAgrees'
    BY <2>1 DEF RejectBeforeStorage, SingleDelivery, VersionAgrees, Blockable
  <2>2. ASSUME NEW i \in Intents, CreateUploadIntent(i) \/ UploadExpired(i)
        PROVE  VersionAgrees'
    BY <2>2, VersionKept DEF CreateUploadIntent, UploadExpired
  <2>. QED BY <1>2, <2>1, <2>2 DEF Target
<1>3. ASSUME NEW u \in Uploaders, NEW i \in Intents, NEW b \in Bodies, ClaimIntent(u, i, b)
      PROVE  VersionAgrees'
  BY <1>3, VersionKept DEF ClaimIntent
<1>4. ASSUME NEW u \in Uploaders, Upload(u)
      PROVE  VersionAgrees'
  <2>1. CASE RecordUpload(u)
    BY <2>1 DEF RecordUpload, UploadStillValid, AuthorizationIsActive, VersionAgrees, Blockable
  <2>2. CASE ~RecordUpload(u)
    BY <1>4, <2>2, VersionKept
    DEF Upload, StoragePut, StoragePutFails, ReleaseClaim, DiscardUpload, CleanupOrphan, rows
  <2>. QED BY <2>1, <2>2
<1>5. ASSUME NEW w \in Workers, Claim(w)
      PROVE  VersionAgrees'
  <2>1. CASE ClaimValidation(w)
    <3>1. StartAttempt("validate_admission", w, "read")
      BY <2>1 DEF ClaimValidation
    <3>2. job["validate_admission"].status \in {"pending", "retryable", "claimed"}
      BY <3>1, StartEffect DEF Stages
    <3>3. version \in {"quarantined", "validating"}
      BY <3>2 DEF NoSilentStall
    <3>. QED BY <2>1, <3>3 DEF ClaimValidation, AuthorizationIsActive, VersionAgrees, Blockable
  <2>2. CASE ClaimRemoval(w)
    BY <2>2, StartEffect, VersionKept DEF ClaimRemoval, Stages
  <2>. QED BY <1>5, <2>1, <2>2 DEF Claim
<1>6. ASSUME NEW w \in Workers, Run(w)
      PROVE  VersionAgrees'
  <2>1. CASE ReadAndInspect(w) \/ LoseLease(w) \/ DeleteObject(w) \/ ObserveAbsence(w)
             \/ AcknowledgeCancel(w)
    BY <2>1, VersionKept
    DEF ReadAndInspect, LoseLease, DeleteObject, ObserveAbsence, AcknowledgeCancel, rows
  <2>2. CASE Admit(w) \/ Reject(w) \/ Postpone(w)
    <3>1. version = "validating" /\ auth = "active" /\ object.status = "present"
      BY <2>2 DEF Admit, Reject, Postpone, ResultCounts, HeldBy, NoSilentStall, VersionAgrees, Blockable
    <3>2. CASE Admit(w)
      <4>1. object.body \in SafeBodies
        BY <3>2 DEF Admit, ResultCounts, CallsAgree, ResultAgrees
      <4>2. job'["validate_admission"].status = "completed"
        BY <3>2, CloseEffect DEF Admit, Stages
      <4>. QED BY <3>1, <3>2, <4>1, <4>2 DEF Admit, VersionAgrees, Blockable
    <3>3. CASE Reject(w)
      <4>1. object'.status \in {"present", "missing"}
        BY <3>1, <3>3 DEF Reject, TypeOK, ObjectRows
      <4>. QED BY <3>1, <3>3, <4>1 DEF Reject, VersionAgrees, Blockable
    <3>4. CASE Postpone(w)
      BY <3>1, <3>4 DEF Postpone, VersionAgrees, Blockable
    <3>. QED BY <2>2, <3>2, <3>3, <3>4
  <2>3. CASE DiscardResult(w)
    BY <2>3, VersionKept DEF DiscardResult, HeldBy
  <2>4. CASE CompleteRemoval(w)
    <3>1. version \in Withdrawn
      BY <2>4 DEF CompleteRemoval, HeldBy, RemovalAgrees
    <3>2. object'.status = "deleted"
      BY <2>4 DEF CompleteRemoval, TypeOK, ObjectRows
    <3>. QED BY <2>4, <3>1, <3>2 DEF CompleteRemoval, VersionAgrees, Withdrawn, Blockable
  <2>5. CASE RemovalUnavailable(w)
    BY <2>5, RetryEffect, VersionKept DEF RemovalUnavailable, Stages
  <2>. QED BY <1>6, <2>1, <2>2, <2>3, <2>4, <2>5 DEF Run
<1>7. CASE CancelBlockedValidation
  BY <1>7, VersionKept DEF CancelBlockedValidation
<1>8. ASSUME NEW s \in Stages, FailExhausted(s)
      PROVE  VersionAgrees'
  <2>1. job[s].status = "claimed" /\ \A t \in Stages : t # s => job'[t] = job[t]
    BY <1>8 DEF FailExhausted, LeaseExpired, Unleased, TypeOK
  <2>2. CASE s = "validate_admission"
    <3>1. version = "validating"
      BY <2>1, <2>2 DEF NoSilentStall
    <3>. QED BY <1>8, <2>2, <3>1 DEF FailExhausted, VersionAgrees, Blockable
  <2>3. CASE s = "remove_quarantine_object"
    BY <1>8, <2>1, <2>3, VersionKept DEF FailExhausted, Stages
  <2>. QED BY <2>2, <2>3 DEF Stages
<1>9. ASSUME NEW s \in Sweepers, Sweep(s)
      PROVE  VersionAgrees'
  BY <1>9, VersionKept
  DEF Sweep, ListLocators, QueryInventory, DeleteOrphan, CheckOrphan, ReleaseOrphanClaim, EndPass, rows
<1>10. CASE Lapse
  <2>1. CASE RightsLapse \/ \E i \in Intents : IntentLapse(i) \/ ClaimLapse(i)
    BY <2>1, VersionKept DEF RightsLapse, IntentLapse, ClaimLapse, rows
  <2>2. ASSUME NEW s \in Stages, LeaseLapse(s)
        PROVE  VersionAgrees'
    <3>1. \A t \in Stages : job'[t].status = job[t].status
      BY <2>2 DEF LeaseLapse, TypeOK, JobRows
    <3>. QED BY <2>2, <3>1, VersionKept DEF LeaseLapse, Stages
  <2>. QED BY <1>10, <2>1, <2>2 DEF Lapse
<1>11. CASE Crash
  BY <1>11, VersionKept DEF Crash, CrashUpload, CrashWorker, CrashSweeper, rows
<1>. QED
  BY <1>1, <1>2, <1>3, <1>4, <1>5, <1>6, <1>7, <1>8, <1>9, <1>10, <1>11 DEF Next, Step

-----------------------------------------------------------------------------
(* What calls in progress know.                                            *)

\* Calls go on undisturbed, or end, while leases are only given back, attempts
\* are not counted and the recorded object stays the one it is.
LEMMA CallsKept ==
    ASSUME CallsAgree,
           \A w \in Workers : worker'[w] = worker[w] \/ worker'[w].pc = "idle",
           \A s \in Stages : job'[s].attempts = job[s].attempts,
           \A s \in Stages, w \in Workers : HeldBy(s, w)' => HeldBy(s, w),
           object.status # "none" => object'.status # "none" /\ object'.body = object.body,
           \A u \in Uploaders : uploader'[u].pc # "idle" =>
              uploader'[u].intent \in Intents /\ uploader'[u].body \in Bodies
    PROVE  CallsAgree'
<1>1. ASSUME NEW w \in Workers, NEW s \in Stages
      PROVE  CallAgrees(w, s)'
  BY DEF CallsAgree, CallAgrees, OnStage
<1>2. ASSUME NEW w \in Workers
      PROVE  ResultAgrees(w)'
  <2>1. worker[w].pc = "decide" => object.status # "none"
    BY DEF CallsAgree, CallAgrees, OnStage, Stages
  <2>. QED BY <2>1 DEF CallsAgree, ResultAgrees
<1>. QED BY <1>1, <1>2 DEF CallsAgree

\* An idle request or one that keeps its target and body.
LEMMA UploadersKept ==
    ASSUME TypeOK, CallsAgree, NEW u \in Uploaders,
           \/ uploader' = uploader
           \/ uploader' = [uploader EXCEPT ![u] = IdleUpload]
           \/ \E pc \in {"record", "release", "cleanup"} :
                 uploader[u].pc # "idle" /\ uploader' = [uploader EXCEPT ![u].pc = pc]
    PROVE  \A v \in Uploaders : uploader'[v].pc # "idle" =>
              uploader'[v].intent \in Intents /\ uploader'[v].body \in Bodies
<1>1. CASE uploader' = uploader
  BY <1>1 DEF CallsAgree
<1>2. CASE uploader' = [uploader EXCEPT ![u] = IdleUpload]
  <2>1. uploader'[u].pc = "idle" /\ \A v \in Uploaders : v # u => uploader'[v] = uploader[v]
    BY <1>2 DEF TypeOK, IdleUpload
  <2>. QED BY <2>1 DEF CallsAgree
<1>3. ASSUME NEW pc, uploader[u].pc # "idle", uploader' = [uploader EXCEPT ![u].pc = pc]
      PROVE  \A v \in Uploaders : uploader'[v].pc # "idle" =>
                uploader'[v].intent \in Intents /\ uploader'[v].body \in Bodies
  <2>1. /\ uploader'[u].intent = uploader[u].intent
        /\ uploader'[u].body = uploader[u].body
        /\ \A v \in Uploaders : v # u => uploader'[v] = uploader[v]
    BY <1>3 DEF TypeOK, UploaderStates
  <2>. QED BY <1>3, <2>1 DEF CallsAgree
<1>. QED BY <1>1, <1>2, <1>3

LEMMA CallStarts ==
    ASSUME TypeOK, CallsAgree, NEW s \in Stages, NEW w \in Workers,
           NEW pc \in {"read", "delete"}, StartAttempt(s, w, pc),
           pc = "read" <=> s = "validate_admission",
           object' = object, object.status # "none", uploader' = uploader
    PROVE  CallsAgree'
<1>. DEFINE m == job[s].attempts + 1
<1>1. /\ job'[s] = [status |-> "claimed", owner |-> w, live |-> TRUE, attempts |-> m]
      /\ \A t \in Stages : t # s => job'[t] = job[t]
      /\ worker' = [worker EXCEPT ![w] = [pc |-> pc, attempt |-> m, result |-> "none"]]
  BY StartEffect
<1>2. job[s].attempts \in Nat
  BY AttemptsNat DEF TypeOK, JobRows
<1>3. worker'[w] = [pc |-> pc, attempt |-> m, result |-> "none"]
      /\ \A x \in Workers : x # w => worker'[x] = worker[x]
  BY <1>1 DEF TypeOK
<1>4. ASSUME NEW t \in Stages
      PROVE  CallAgrees(w, t)'
  <2>1. CASE t = s
    <3>1. m \in 1 .. m
      BY <1>2
    <3>. QED BY <1>1, <1>3, <2>1, <3>1 DEF CallAgrees
  <2>2. CASE t # s
    BY <1>3, <2>2 DEF CallAgrees, OnStage, Stages
  <2>. QED BY <2>1, <2>2
<1>5. ASSUME NEW x \in Workers, x # w, NEW t \in Stages
      PROVE  CallAgrees(x, t)'
  <2>1. CallAgrees(x, t) /\ worker'[x] = worker[x]
    BY <1>3, <1>5 DEF CallsAgree
  <2>2. CASE t = s
    <3>1. ~HeldBy(s, x)' /\ job'[s].attempts = m
      BY <1>1, <1>5 DEF HeldBy
    <3>2. \A n : n \in 1 .. job[s].attempts => n \in 1 .. m
      BY <1>2
    <3>. QED BY <2>1, <2>2, <3>1, <3>2 DEF CallAgrees, OnStage
  <2>3. CASE t # s
    <3>1. job'[t] = job[t]
      BY <1>1, <2>3
    <3>. QED BY <2>1, <3>1 DEF CallAgrees, OnStage, HeldBy
  <2>. QED BY <2>2, <2>3
<1>6. ASSUME NEW x \in Workers
      PROVE  ResultAgrees(x)'
  BY <1>3 DEF CallsAgree, ResultAgrees
<1>. QED BY <1>4, <1>5, <1>6 DEF CallsAgree

\* A call goes on within its stage, with a result that agrees.
LEMMA CallAdvances ==
    ASSUME TypeOK, CallsAgree, NEW w \in Workers, NEW pc, NEW result,
           worker' = [worker EXCEPT ![w] = At(w, pc, result)],
           \/ worker[w].pc = "read" /\ pc = "decide"
           \/ worker[w].pc \in {"delete", "check"} /\ pc \in {"check", "settle"},
           ResultAgrees(w)', job' = job, object' = object, uploader' = uploader
    PROVE  CallsAgree'
<1>1. worker'[w] = At(w, pc, result) /\ \A x \in Workers : x # w => worker'[x] = worker[x]
  BY DEF TypeOK
<1>2. ASSUME NEW t \in Stages
      PROVE  CallAgrees(w, t)'
  <2>1. OnStage(w, t)' => OnStage(w, t)
    BY <1>1 DEF OnStage, At, Stages
  <2>2. worker'[w].attempt = worker[w].attempt
    BY <1>1 DEF At
  <2>. QED BY <2>1, <2>2 DEF CallsAgree, CallAgrees, HeldBy
<1>3. ASSUME NEW x \in Workers, x # w
      PROVE  ResultAgrees(x)' /\ \A t \in Stages : CallAgrees(x, t)'
  BY <1>1, <1>3 DEF CallsAgree, CallAgrees, ResultAgrees, OnStage, HeldBy
<1>. QED BY <1>2, <1>3 DEF CallsAgree

LEMMA CallsStep ==
    ASSUME TypeOK, LeaseDiscipline, NoSilentStall, SingleDelivery, RemovalAgrees, VersionAgrees,
           CallsAgree, Next
    PROVE  CallsAgree'
<1>0. ASSUME job' = job, object' = object,
             \A w \in Workers : worker'[w] = worker[w] \/ worker'[w].pc = "idle",
             \A u \in Uploaders : uploader'[u].pc # "idle" =>
                uploader'[u].intent \in Intents /\ uploader'[u].body \in Bodies
      PROVE  CallsAgree'
  BY <1>0, CallsKept DEF HeldBy
<1>00. \A u \in Uploaders : uploader[u].pc # "idle" =>
          uploader[u].intent \in Intents /\ uploader[u].body \in Bodies
  BY DEF CallsAgree
<1>1. CASE Decide
  <2>1. CASE ReviewActivate \/ ReviewDeny
    BY <1>0, <1>00, <2>1 DEF ReviewActivate, ReviewDeny, procs
  <2>2. ASSUME NEW terminal \in Withdrawn, StopAdmission(terminal), version \notin Withdrawn
        PROVE  CallsAgree'
    <3>1. job["remove_quarantine_object"].status = "none"
      BY <2>2 DEF RemovalAgrees
    <3>2. /\ job'["validate_admission"].attempts = job["validate_admission"].attempts
          /\ job'["validate_admission"].status = "claimed" =>
                job'["validate_admission"] = job["validate_admission"]
      BY <2>2, StopEffect
    <3>3. \/ job'["remove_quarantine_object"] = job["remove_quarantine_object"]
          \/ job'["remove_quarantine_object"] = PendingJob
      BY <2>2, StopEffect
    <3>4. /\ job'["remove_quarantine_object"].status # "claimed"
          /\ job'["remove_quarantine_object"].attempts = job["remove_quarantine_object"].attempts
      BY <3>1, <3>3 DEF PendingJob, LeaseDiscipline, StageDiscipline, Stages
    <3>5. worker' = worker /\ object' = object /\ uploader' = uploader
      BY <2>2 DEF StopAdmission, procs
    <3>6. \A s \in Stages, w \in Workers : HeldBy(s, w)' => HeldBy(s, w)
      BY <3>2, <3>4 DEF HeldBy, Stages
    <3>7. \A s \in Stages : job'[s].attempts = job[s].attempts
      BY <3>2, <3>4 DEF Stages
    <3>. QED BY <1>00, <3>5, <3>6, <3>7, CallsKept
  <2>. QED
    BY <1>1, <2>1, <2>2
    DEF Decide, ReviewRevoke, BlockAuthorization, CancelAdmission, Withdrawn, Blockable, Cancellable
<1>2. CASE Target
  BY <1>0, <1>00, <1>2 DEF Target, CreateUploadIntent, UploadExpired, RejectBeforeStorage, procs
<1>3. ASSUME NEW u \in Uploaders, NEW i \in Intents, NEW b \in Bodies, ClaimIntent(u, i, b)
      PROVE  CallsAgree'
  <2>1. \A v \in Uploaders : uploader'[v].pc # "idle" =>
           uploader'[v].intent \in Intents /\ uploader'[v].body \in Bodies
    BY <1>00, <1>3 DEF ClaimIntent, TypeOK
  <2>. QED BY <1>0, <1>3, <2>1 DEF ClaimIntent
<1>4. ASSUME NEW u \in Uploaders, Upload(u)
      PROVE  CallsAgree'
  <2>1. \A v \in Uploaders : uploader'[v].pc # "idle" =>
           uploader'[v].intent \in Intents /\ uploader'[v].body \in Bodies
    BY <1>4, UploadersKept
    DEF Upload, StoragePut, StoragePutFails, ReleaseClaim, RecordUpload, DiscardUpload, CleanupOrphan
  <2>2. CASE RecordUpload(u)
    <3>1. job["validate_admission"].status = "none"
          /\ job'["validate_admission"] = PendingJob
          /\ job'["remove_quarantine_object"] = job["remove_quarantine_object"]
      BY <2>2 DEF RecordUpload, TypeOK, Stages
    <3>2. \A s \in Stages : job'[s].attempts = job[s].attempts
      BY <3>1 DEF PendingJob, LeaseDiscipline, StageDiscipline, Stages
    <3>3. \A s \in Stages, w \in Workers : HeldBy(s, w)' => HeldBy(s, w)
      BY <3>1 DEF PendingJob, HeldBy, Stages
    <3>4. object.status = "none" /\ worker' = worker
      BY <2>2 DEF RecordUpload
    <3>. QED BY <2>1, <3>2, <3>3, <3>4, CallsKept
  <2>3. CASE ~RecordUpload(u)
    BY <1>0, <1>4, <2>1, <2>3
    DEF Upload, StoragePut, StoragePutFails, ReleaseClaim, DiscardUpload, CleanupOrphan, rows
  <2>. QED BY <2>2, <2>3
<1>5. ASSUME NEW w \in Workers, Claim(w)
      PROVE  CallsAgree'
  <2>1. CASE ClaimValidation(w)
    <3>1. StartAttempt("validate_admission", w, "read")
      BY <2>1 DEF ClaimValidation
    <3>2. job["validate_admission"].status \in {"pending", "retryable", "claimed"}
      BY <3>1, StartEffect DEF Stages
    <3>3. object.status # "none"
      BY <3>2 DEF SingleDelivery
    <3>. QED BY <2>1, <3>1, <3>3, CallStarts DEF ClaimValidation, Stages
  <2>2. CASE ClaimRemoval(w)
    <3>1. StartAttempt("remove_quarantine_object", w, "delete")
      BY <2>2 DEF ClaimRemoval
    <3>2. job["remove_quarantine_object"].status \in {"pending", "retryable", "claimed"}
      BY <3>1, StartEffect DEF Stages
    <3>3. object.status # "none"
      BY <3>2 DEF RemovalAgrees
    <3>. QED BY <2>2, <3>1, <3>3, CallStarts DEF ClaimRemoval, Stages
  <2>. QED BY <1>5, <2>1, <2>2 DEF Claim
<1>6. ASSUME NEW w \in Workers, Run(w)
      PROVE  CallsAgree'
  <2>1. ASSUME NEW s \in Stages,
               job'[s].status # "claimed", job'[s].attempts = job[s].attempts,
               \A t \in Stages : t # s => job'[t] = job[t],
               worker' = [worker EXCEPT ![w] = IdleWorker], uploader' = uploader,
               object.status # "none" => object'.status # "none" /\ object'.body = object.body
        PROVE  CallsAgree'
    <3>1. \A x \in Workers : worker'[x] = worker[x] \/ worker'[x].pc = "idle"
      BY <2>1 DEF IdleWorker, TypeOK
    <3>2. \A t \in Stages, x \in Workers : HeldBy(t, x)' => HeldBy(t, x)
      BY <2>1 DEF HeldBy
    <3>3. \A t \in Stages : job'[t].attempts = job[t].attempts
      BY <2>1
    <3>. QED BY <1>00, <2>1, <3>1, <3>2, <3>3, CallsKept
  <2>2. CASE ReadAndInspect(w)
    <3>1. PICK r \in Inspection(file[object.intent]) : worker' = [worker EXCEPT ![w] = At(w, "decide", r)]
      BY <2>2 DEF ReadAndInspect
    <3>2. ResultAgrees(w)'
      BY <2>2, <3>1 DEF ReadAndInspect, ResultAgrees, Inspection, At, TypeOK, rows
    <3>. QED BY <2>2, <3>1, <3>2, CallAdvances DEF ReadAndInspect, rows
  <2>3. CASE DeleteObject(w)
    <3>1. PICK pc \in {"check", "settle"}, result \in {"none", "unavailable"} :
             /\ pc = "settle" => result = "unavailable"
             /\ worker' = [worker EXCEPT ![w] = At(w, pc, result)]
      BY <2>3 DEF DeleteObject
    <3>2. ResultAgrees(w)'
      BY <3>1 DEF ResultAgrees, At, TypeOK
    <3>. QED BY <2>3, <3>1, <3>2, CallAdvances DEF DeleteObject, rows
  <2>4. CASE ObserveAbsence(w)
    <3>1. PICK result \in {"absent", "unavailable"} :
             worker' = [worker EXCEPT ![w] = At(w, "settle", result)]
      BY <2>4 DEF ObserveAbsence
    <3>2. ResultAgrees(w)'
      BY <3>1 DEF ResultAgrees, At, TypeOK
    <3>. QED BY <2>4, <3>1, <3>2, CallAdvances DEF ObserveAbsence, rows
  <2>5. CASE LoseLease(w) \/ AcknowledgeCancel(w)
    <3>1. \A x \in Workers : worker'[x] = worker[x] \/ worker'[x].pc = "idle"
      BY <2>5 DEF LoseLease, AcknowledgeCancel, IdleWorker, TypeOK
    <3>. QED BY <1>0, <1>00, <2>5, <3>1 DEF LoseLease, AcknowledgeCancel, rows
  <2>6. CASE Admit(w) \/ Reject(w) \/ DiscardResult(w)
    <3>1. PICK status \in {"completed", "cancelled"}, outcome \in {"completed", "failed", "cancelled"} :
             Close("validate_admission", w, status, outcome)
      BY <2>6 DEF Admit, Reject, DiscardResult
    <3>2. /\ job'["validate_admission"] = [status |-> status, owner |-> None, live |-> FALSE,
                                           attempts |-> job["validate_admission"].attempts]
          /\ \A t \in Stages : t # "validate_admission" => job'[t] = job[t]
          /\ worker' = [worker EXCEPT ![w] = IdleWorker]
      BY <3>1, CloseEffect DEF Stages
    <3>3. /\ uploader' = uploader
          /\ object.status # "none" => object'.status # "none" /\ object'.body = object.body
      BY <2>6 DEF Admit, Reject, DiscardResult, TypeOK, ObjectRows
    <3>. QED BY <2>1, <3>2, <3>3 DEF Stages
  <2>7. CASE Postpone(w)
    BY <2>1, <2>7, RetryEffect DEF Postpone, Stages
  <2>8. CASE CompleteRemoval(w)
    <3>1. Close("remove_quarantine_object", w, "completed", "completed")
      BY <2>8 DEF CompleteRemoval
    <3>2. /\ job'["remove_quarantine_object"] =
                [status |-> "completed", owner |-> None, live |-> FALSE,
                 attempts |-> job["remove_quarantine_object"].attempts]
          /\ \A t \in Stages : t # "remove_quarantine_object" => job'[t] = job[t]
          /\ worker' = [worker EXCEPT ![w] = IdleWorker]
      BY <3>1, CloseEffect DEF Stages
    <3>3. uploader' = uploader /\ object'.status = "deleted" /\ object'.body = object.body
      BY <2>8 DEF CompleteRemoval, TypeOK, ObjectRows
    <3>. QED BY <2>1, <3>2, <3>3 DEF Stages
  <2>9. CASE RemovalUnavailable(w)
    BY <2>1, <2>9, RetryEffect DEF RemovalUnavailable, Stages
  <2>. QED BY <1>6, <2>2, <2>3, <2>4, <2>5, <2>6, <2>7, <2>8, <2>9 DEF Run
<1>7. ASSUME worker' = worker, uploader' = uploader, object' = object,
             \A s \in Stages : /\ job'[s].attempts = job[s].attempts
                               /\ \/ job'[s].status = job[s].status /\ job'[s].owner = job[s].owner
                                  \/ job'[s].status # "claimed"
      PROVE  CallsAgree'
  <2>1. \A s \in Stages, w \in Workers : HeldBy(s, w)' => HeldBy(s, w)
    BY <1>7 DEF HeldBy
  <2>. QED BY <1>00, <1>7, <2>1, CallsKept
<1>8. CASE CancelBlockedValidation
  <2>1. \A s \in Stages : /\ job'[s].attempts = job[s].attempts
                           /\ \/ job'[s].status = job[s].status /\ job'[s].owner = job[s].owner
                              \/ job'[s].status # "claimed"
    BY <1>8 DEF CancelBlockedValidation, Unleased, TypeOK
  <2>. QED BY <1>7, <1>8, <2>1 DEF CancelBlockedValidation, procs
<1>9. ASSUME NEW s \in Stages, FailExhausted(s)
      PROVE  CallsAgree'
  <2>1. \A t \in Stages : /\ job'[t].attempts = job[t].attempts
                           /\ \/ job'[t].status = job[t].status /\ job'[t].owner = job[t].owner
                              \/ job'[t].status # "claimed"
    BY <1>9 DEF FailExhausted, Unleased, TypeOK
  <2>. QED BY <1>7, <1>9, <2>1 DEF FailExhausted, procs
<1>10. ASSUME NEW s \in Sweepers, Sweep(s)
       PROVE  CallsAgree'
  BY <1>0, <1>00, <1>10
  DEF Sweep, ListLocators, QueryInventory, DeleteOrphan, CheckOrphan, ReleaseOrphanClaim, EndPass, rows
<1>11. CASE Lapse
  <2>1. CASE RightsLapse \/ \E i \in Intents : IntentLapse(i) \/ ClaimLapse(i)
    BY <1>0, <1>00, <2>1 DEF RightsLapse, IntentLapse, ClaimLapse, rows, procs
  <2>2. ASSUME NEW s \in Stages, LeaseLapse(s)
        PROVE  CallsAgree'
    <3>1. \A t \in Stages : /\ job'[t].attempts = job[t].attempts
                             /\ job'[t].status = job[t].status
                             /\ job'[t].owner = job[t].owner
      BY <2>2 DEF LeaseLapse, TypeOK, JobRows
    <3>. QED BY <1>7, <2>2, <3>1 DEF LeaseLapse, procs
  <2>. QED BY <1>11, <2>1, <2>2 DEF Lapse
<1>12. CASE Crash
  <2>1. ASSUME NEW u \in Uploaders, CrashUpload(u)
        PROVE  CallsAgree'
    <3>1. \A v \in Uploaders : uploader'[v].pc # "idle" =>
             uploader'[v].intent \in Intents /\ uploader'[v].body \in Bodies
      BY <2>1, UploadersKept DEF CrashUpload
    <3>. QED BY <1>0, <2>1, <3>1 DEF CrashUpload, rows
  <2>2. ASSUME NEW w \in Workers, CrashWorker(w)
        PROVE  CallsAgree'
    <3>1. \A x \in Workers : worker'[x] = worker[x] \/ worker'[x].pc = "idle"
      BY <2>2 DEF CrashWorker, IdleWorker, TypeOK
    <3>. QED BY <1>0, <1>00, <2>2, <3>1 DEF CrashWorker, rows
  <2>3. ASSUME NEW s \in Sweepers, CrashSweeper(s)
        PROVE  CallsAgree'
    BY <1>0, <1>00, <2>3 DEF CrashSweeper, rows
  <2>. QED BY <1>12, <2>1, <2>2, <2>3 DEF Crash
<1>. QED
  BY <1>1, <1>2, <1>3, <1>4, <1>5, <1>6, <1>8, <1>9, <1>10, <1>11, <1>12 DEF Next, Step

-----------------------------------------------------------------------------
(* The theorems.                                                           *)

LEMMA InitInvariant == Init => IndInv
<1>. SUFFICES ASSUME Init PROVE IndInv
  OBVIOUS
<1>. USE AttemptsNat
<1>1. NoJob \in JobRows /\ PendingJob \in JobRows
  BY DEF NoJob, PendingJob, JobRows
<1>2. TypeOK
  <2>1. job \in [Stages -> JobRows]
    BY <1>1 DEF Init
  <2>2. intent \in [Intents -> IntentRows] /\ object \in ObjectRows
    BY DEF Init, NoIntent, IntentRows, NoObject, ObjectRows
  <2>3. attempt \in [Stages -> [Attempts -> Outcomes]]
    BY DEF Init, Outcomes
  <2>4. /\ uploader \in [Uploaders -> UploaderStates]
        /\ sweeper \in [Sweepers -> SweeperStates]
    BY DEF Init, IdleUpload, UploaderStates, IdleSweeper, SweeperStates
  <2>5. worker \in [Workers -> WorkerStates]
    BY DEF Init, IdleWorker, WorkerStates
  <2>. QED BY <2>1, <2>2, <2>3, <2>4, <2>5 DEF Init, TypeOK, Authorizations, Versions
<1>3. LeaseDiscipline
  BY DEF Init, LeaseDiscipline, StageDiscipline, NoJob, Attempts
<1>4. NoSilentStall /\ RemovalAgrees /\ VersionAgrees
  BY DEF Init, NoSilentStall, RemovalAgrees, VersionAgrees, NoJob, NoObject, Stages, Withdrawn, Blockable
<1>5. SingleDelivery
  BY DEF Init, SingleDelivery, NoIntent, NoObject, NoJob, Stages
<1>6. CallsAgree
  BY DEF Init, CallsAgree, CallAgrees, ResultAgrees, OnStage, IdleWorker, IdleUpload
<1>. QED BY <1>2, <1>3, <1>4, <1>5, <1>6 DEF IndInv

LEMMA NextInvariant == IndInv /\ [Next]_vars => IndInv'
<1>1. CASE IndInv /\ Next
  BY <1>1, TypeStep, LeaseStep, StallStep, DeliveryStep, RemovalStep, VersionStep, CallsStep DEF IndInv
<1>2. CASE IndInv /\ UNCHANGED vars
  BY <1>2
  DEF vars, IndInv, TypeOK, LeaseDiscipline, StageDiscipline, NoSilentStall, SingleDelivery, RemovalAgrees,
      VersionAgrees, CallsAgree, CallAgrees, ResultAgrees, OnStage, HeldBy
<1>. QED BY <1>1, <1>2

\* In every reachable state the rows of the version, its targets, its object,
\* its jobs and their attempts agree with each other and with what every call in
\* progress knows, however uploads, job runs, orphan passes and crashes interleave.
THEOREM InvariantHolds == Spec => []IndInv
  BY InitInvariant, NextInvariant, PTL DEF Spec

\* Every row and every call stays within the statuses of models.py.
THEOREM TypeCorrect == Spec => []TypeOK
<1>1. IndInv => TypeOK
  BY DEF IndInv
<1>. QED BY <1>1, InvariantHolds, PTL

\* run_validation_job and run_removal_job keep one owner per claimed job, one
\* running attempt per lease and attempt_count exact, whatever calls are killed,
\* come back after their lease was taken, or have their job cancelled.
THEOREM LeasesAreExclusive == Spec => []LeaseDiscipline
<1>1. IndInv => LeaseDiscipline
  BY DEF IndInv
<1>. QED BY <1>1, InvariantHolds, PTL

\* No version waits in quarantine or in validation without a job that owes it an
\* answer, a job that failed for good, or lapsed rights.
THEOREM NothingStalls == Spec => []NoSilentStall
<1>1. IndInv => NoSilentStall
  BY DEF IndInv
<1>. QED BY <1>1, InvariantHolds, PTL

\* However many requests upload_to_intent serves on however many targets, one
\* body enters the inventory.
THEOREM OneDelivery == Spec => []SingleDelivery
<1>1. IndInv => SingleDelivery
  BY DEF IndInv
<1>. QED BY <1>1, InvariantHolds, PTL

\* removal_status says what became of the removal job and of the object's row.
THEOREM RemovalIsReported == Spec => []RemovalAgrees
<1>1. IndInv => RemovalAgrees
  BY DEF IndInv
<1>. QED BY <1>1, InvariantHolds, PTL

\* Only a safe body under a standing authorization is ever admitted.
THEOREM AdmissionIsSafe == Spec => []AdmittedIsSafe
<1>1. IndInv => AdmittedIsSafe
  BY DEF IndInv, VersionAgrees, AdmittedIsSafe, Blockable
<1>. QED BY <1>1, InvariantHolds, PTL

\* Cancelling or blocking a version ends all work on it but its removal.
THEOREM WithdrawalStopsWork == Spec => []WithdrawnStopsWork
<1>1. IndInv => WithdrawnStopsWork
  <2>. SUFFICES ASSUME IndInv PROVE WithdrawnStopsWork
    OBVIOUS
  <2>1. job["validate_admission"] \in JobRows
    BY DEF IndInv, TypeOK, Stages
  <2>2. job["validate_admission"].status \in
           {"none", "pending", "claimed", "retryable", "completed", "failed", "cancelled"}
    BY <2>1 DEF JobRows
  <2>. QED BY <2>2 DEF IndInv, SingleDelivery, NoSilentStall, VersionAgrees, WithdrawnStopsWork, Withdrawn
<1>. QED BY <1>1, InvariantHolds, PTL

-----------------------------------------------------------------------------
(* Recorded outcomes.                                                      *)

\* A step keeps the log if, in each stage, it only closes the running attempt
\* and adds one that was absent.
LEMMA LogKept ==
    ASSUME \A s \in Stages, n \in Attempts :
              \/ attempt'[s][n] = attempt[s][n]
              \/ attempt[s][n] = "running" /\ attempt'[s][n] # "none"
              \/ attempt[s][n] = "none"
    PROVE  \A s \in Stages, n \in Attempts :
              /\ attempt[s][n] \notin {"none", "running"} => attempt'[s][n] = attempt[s][n]
              /\ attempt[s][n] # "none" => attempt'[s][n] # "none"
  OBVIOUS

LEMMA ClosedStep ==
    ASSUME IndInv, Next
    PROVE  \A s \in Stages, n \in Attempts :
              /\ attempt[s][n] \notin {"none", "running"} => attempt'[s][n] = attempt[s][n]
              /\ attempt[s][n] # "none" => attempt'[s][n] # "none"
<1>. DEFINE Goal == \A s \in Stages, n \in Attempts :
              /\ attempt[s][n] \notin {"none", "running"} => attempt'[s][n] = attempt[s][n]
              /\ attempt[s][n] # "none" => attempt'[s][n] # "none"
<1>0. attempt' = attempt => Goal
  OBVIOUS
<1>1. ASSUME NEW s \in Stages, NEW w \in Workers, NEW pc \in {"read", "delete"}, StartAttempt(s, w, pc)
      PROVE  Goal
  <2>1. /\ job[s].attempts \in Nat
        /\ \A n \in Attempts : n > job[s].attempts <=> attempt[s][n] = "none"
        /\ LeaseExpired(s) => attempt[s][job[s].attempts] = "running"
    BY AttemptsNat DEF IndInv, TypeOK, JobRows, LeaseDiscipline, StageDiscipline, LeaseExpired
  <2>2. \A n \in Attempts :
           attempt'[s][n] = IF n = job[s].attempts + 1 THEN "running"
                            ELSE IF LeaseExpired(s) /\ n = job[s].attempts THEN "retryable"
                            ELSE attempt[s][n]
    BY <1>1 DEF StartAttempt, ClosedAttempts, IndInv, TypeOK
  <2>3. \A t \in Stages : t # s => attempt'[t] = attempt[t]
    BY <1>1 DEF StartAttempt, IndInv, TypeOK
  <2>4. job[s].attempts + 1 > job[s].attempts
    BY <2>1
  <2>5. \A n \in Attempts :
           \/ attempt'[s][n] = attempt[s][n]
           \/ attempt[s][n] = "running" /\ attempt'[s][n] # "none"
           \/ attempt[s][n] = "none"
    BY <2>1, <2>2, <2>4
  <2>. QED BY <2>3, <2>5, LogKept
<1>2. ASSUME NEW s \in Stages, NEW w \in Workers, OnStage(w, s), HeldBy(s, w),
             NEW status \in {"retryable", "completed", "failed", "cancelled"},
             NEW outcome \in {"retryable", "completed", "failed", "cancelled"},
             Close(s, w, status, outcome)
      PROVE  Goal
  <2>1. worker[w].attempt = job[s].attempts /\ attempt[s][worker[w].attempt] = "running"
    BY <1>2 DEF IndInv, CallsAgree, CallAgrees, LeaseDiscipline, StageDiscipline, HeldBy
  <2>2. \A t \in Stages, n \in Attempts :
           attempt'[t][n] = IF t = s /\ n = worker[w].attempt THEN outcome ELSE attempt[t][n]
    BY <1>2 DEF Close, IndInv, TypeOK
  <2>. QED BY <2>1, <2>2, LogKept
<1>3. CASE Decide \/ Target \/ CancelBlockedValidation \/ Lapse \/ Crash
  BY <1>0, <1>3, SMTT(40)
  DEF Decide, ReviewActivate, ReviewDeny, ReviewRevoke, BlockAuthorization, CancelAdmission, StopAdmission,
      Target, CreateUploadIntent, UploadExpired, RejectBeforeStorage, CancelBlockedValidation,
      Lapse, RightsLapse, IntentLapse, ClaimLapse, LeaseLapse, Crash, CrashUpload, CrashWorker, CrashSweeper, rows
<1>4. CASE (\E u \in Uploaders, i \in Intents, b \in Bodies : ClaimIntent(u, i, b))
           \/ (\E u \in Uploaders : Upload(u)) \/ (\E s \in Sweepers : Sweep(s))
  BY <1>0, <1>4
  DEF ClaimIntent, Upload, StoragePut, StoragePutFails, ReleaseClaim, RecordUpload, DiscardUpload, CleanupOrphan,
      Sweep, ListLocators, QueryInventory, DeleteOrphan, CheckOrphan, ReleaseOrphanClaim, EndPass, rows
<1>5. ASSUME NEW w \in Workers, Claim(w)
      PROVE  Goal
  BY <1>1, <1>5 DEF Claim, ClaimValidation, ClaimRemoval, Stages
<1>6. ASSUME NEW w \in Workers, Run(w)
      PROVE  Goal
  <2>1. CASE ReadAndInspect(w) \/ LoseLease(w) \/ DeleteObject(w) \/ ObserveAbsence(w)
    BY <1>0, <2>1 DEF ReadAndInspect, LoseLease, DeleteObject, ObserveAbsence, rows
  <2>2. CASE Admit(w) \/ Reject(w) \/ Postpone(w) \/ DiscardResult(w)
    <3>1. OnStage(w, "validate_admission") /\ HeldBy("validate_admission", w)
      BY <2>2 DEF Admit, Reject, Postpone, DiscardResult, ResultCounts, OnStage
    <3>. QED BY <1>2, <2>2, <3>1 DEF Admit, Reject, Postpone, DiscardResult, Retry, Stages
  <2>3. CASE CompleteRemoval(w) \/ RemovalUnavailable(w)
    <3>1. OnStage(w, "remove_quarantine_object") /\ HeldBy("remove_quarantine_object", w)
      BY <2>3 DEF CompleteRemoval, RemovalUnavailable, OnStage
    <3>. QED BY <1>2, <2>3, <3>1 DEF CompleteRemoval, RemovalUnavailable, Retry, Stages
  <2>4. CASE AcknowledgeCancel(w)
    <3>1. \A s \in Stages, n \in Attempts :
             \/ attempt'[s][n] = attempt[s][n]
             \/ attempt[s][n] = "running" /\ attempt'[s][n] # "none"
      BY <2>4 DEF AcknowledgeCancel, IndInv, TypeOK
    <3>. QED BY <3>1, LogKept
  <2>. QED BY <1>6, <2>1, <2>2, <2>3, <2>4 DEF Run
<1>7. ASSUME NEW s \in Stages, FailExhausted(s)
      PROVE  Goal
  <2>1. attempt[s][job[s].attempts] = "running"
    BY <1>7 DEF FailExhausted, LeaseExpired, IndInv, LeaseDiscipline, StageDiscipline
  <2>2. \A t \in Stages, n \in Attempts :
           attempt'[t][n] = IF t = s /\ n = job[s].attempts THEN "failed" ELSE attempt[t][n]
    BY <1>7 DEF FailExhausted, ClosedAttempts, IndInv, TypeOK
  <2>. QED BY <2>1, <2>2, LogKept
<1>. QED BY <1>3, <1>4, <1>5, <1>6, <1>7 DEF Next, Step

\* The attempts' trigger is what ClosedStep says.
LEMMA AttemptsAccepted ==
    ASSUME IndInv, Next
    PROVE  \A s \in Stages, n \in Attempts : AttemptTrigger(s, n)
  BY ClosedStep DEF AttemptTrigger

\* A step that leaves these rows alone is refused by no trigger of theirs.
LEMMA AuthorizationUnmoved == ASSUME TypeOK, auth' = auth PROVE AuthorizationTrigger
  BY DEF TypeOK, AuthorizationTrigger, Kept, Authorizations

LEMMA VersionUnmoved == ASSUME TypeOK, version' = version PROVE VersionTrigger
  BY DEF TypeOK, VersionTrigger, Kept, Versions

LEMMA IntentKept ==
    ASSUME TypeOK, NEW i \in Intents,
           intent'[i].status = intent[i].status,
           intent[i].status # "active" => intent'[i].claim = intent[i].claim
    PROVE  IntentTrigger(i)
  BY DEF TypeOK, IntentRows, IntentTrigger, Kept

LEMMA ObjectKept == ASSUME TypeOK, object' = object PROVE ObjectTrigger
  BY DEF TypeOK, ObjectRows, ObjectTrigger, Kept

LEMMA JobKept ==
    ASSUME TypeOK, NEW s \in Stages,
           job'[s].status = job[s].status, job'[s].attempts = job[s].attempts
    PROVE  JobTrigger(s)
  BY DEF TypeOK, JobRows, JobTrigger, Kept

\* The decisions on the rights move only what they have read.
LEMMA AuthorizationAccepted == ASSUME IndInv, Next PROVE AuthorizationTrigger
<1>. TypeOK
  BY DEF IndInv
<1>1. CASE auth' = auth
  BY <1>1, AuthorizationUnmoved
<1>2. CASE Decide
  BY <1>2 DEF Decide, ReviewActivate, ReviewDeny, ReviewRevoke, BlockAuthorization, CancelAdmission,
      AuthorizationTrigger, Kept, Moves, TypeOK, Authorizations
<1>3. CASE Target \/ CancelBlockedValidation \/ Lapse \/ Crash \/ (\E s \in Stages : FailExhausted(s))
  BY <1>1, <1>3, SMTT(40)
  DEF Target, CreateUploadIntent, UploadExpired, RejectBeforeStorage, CancelBlockedValidation, FailExhausted,
      Lapse, RightsLapse, IntentLapse, ClaimLapse, LeaseLapse, Crash, CrashUpload, CrashWorker, CrashSweeper, rows
<1>4. CASE (\E u \in Uploaders, i \in Intents, b \in Bodies : ClaimIntent(u, i, b))
           \/ (\E u \in Uploaders : Upload(u)) \/ (\E s \in Sweepers : Sweep(s))
  BY <1>1, <1>4
  DEF ClaimIntent, Upload, StoragePut, StoragePutFails, ReleaseClaim, RecordUpload, DiscardUpload, CleanupOrphan,
      Sweep, ListLocators, QueryInventory, DeleteOrphan, CheckOrphan, ReleaseOrphanClaim, EndPass, rows
<1>5. CASE \E w \in Workers : Claim(w) \/ Run(w)
  BY <1>1, <1>5
  DEF Claim, ClaimValidation, ClaimRemoval, Run, ReadAndInspect, Admit, Reject, Postpone, DiscardResult,
      AcknowledgeCancel, LoseLease, DeleteObject, ObserveAbsence, CompleteRemoval, RemovalUnavailable, rows
<1>. QED BY <1>2, <1>3, <1>4, <1>5 DEF Next, Step

\* The version: a claim finds it in quarantine or under validation, a result
\* that counts finds it under validation.
LEMMA VersionAccepted == ASSUME IndInv, Next PROVE VersionTrigger
<1>. TypeOK
  BY DEF IndInv
<1>1. CASE version' = version
  BY <1>1, VersionUnmoved
<1>2. CASE Decide
  BY <1>2 DEF Decide, ReviewActivate, ReviewDeny, ReviewRevoke, BlockAuthorization, CancelAdmission, StopAdmission,
      Blockable, Cancellable, VersionTrigger, Moves
<1>3. CASE Target
  BY <1>1, <1>3 DEF Target, CreateUploadIntent, UploadExpired, RejectBeforeStorage, VersionTrigger, Moves
<1>4. CASE CancelBlockedValidation \/ Lapse \/ Crash
  BY <1>1, <1>4
  DEF CancelBlockedValidation, Lapse, RightsLapse, IntentLapse, ClaimLapse, LeaseLapse,
      Crash, CrashUpload, CrashWorker, CrashSweeper, rows
<1>5. CASE (\E u \in Uploaders, i \in Intents, b \in Bodies : ClaimIntent(u, i, b)) \/ (\E s \in Sweepers : Sweep(s))
  BY <1>1, <1>5
  DEF ClaimIntent, Sweep, ListLocators, QueryInventory, DeleteOrphan, CheckOrphan, ReleaseOrphanClaim, EndPass, rows
<1>6. ASSUME NEW u \in Uploaders, Upload(u) PROVE VersionTrigger
  BY <1>1, <1>6
  DEF Upload, StoragePut, StoragePutFails, ReleaseClaim, RecordUpload, UploadStillValid, DiscardUpload,
      CleanupOrphan, rows, VersionTrigger, Moves
<1>7. ASSUME NEW w \in Workers, Claim(w) PROVE VersionTrigger
  <2>1. CASE ClaimRemoval(w)
    BY <1>1, <2>1 DEF ClaimRemoval
  <2>2. CASE ClaimValidation(w)
    <3>1. job["validate_admission"].status \in {"pending", "retryable", "claimed"} /\ version' = "validating"
      BY <2>2 DEF ClaimValidation, StartAttempt, Claimable, LeaseExpired
    <3>2. version \in {"quarantined", "validating"}
      BY <3>1 DEF IndInv, NoSilentStall
    <3>. QED BY <1>1, <3>1, <3>2 DEF VersionTrigger, Moves
  <2>. QED BY <1>7, <2>1, <2>2 DEF Claim
<1>8. ASSUME NEW w \in Workers, Run(w) PROVE VersionTrigger
  <2>1. CASE Admit(w) \/ Reject(w) \/ Postpone(w)
    <3>1. version = "validating" /\ version' \in {"admitted", "rejected", "quarantined"}
      BY <2>1 DEF Admit, Reject, Postpone, ResultCounts, HeldBy, IndInv, NoSilentStall
    <3>. QED BY <3>1 DEF VersionTrigger, Moves
  <2>2. CASE version' = version
    BY <1>1, <2>2
  <2>. QED BY <1>8, <2>1, <2>2
       DEF Run, ReadAndInspect, DiscardResult, AcknowledgeCancel, LoseLease, DeleteObject, ObserveAbsence,
           CompleteRemoval, RemovalUnavailable, rows
<1>9. ASSUME NEW s \in Stages, FailExhausted(s) PROVE VersionTrigger
  <2>1. CASE s = "validate_admission"
    <3>1. version = "validating" /\ version' = "quarantined"
      BY <1>9, <2>1 DEF FailExhausted, LeaseExpired, IndInv, NoSilentStall
    <3>. QED BY <3>1 DEF VersionTrigger, Moves
  <2>. QED BY <1>1, <1>9, <2>1 DEF FailExhausted
<1>. QED BY <1>2, <1>3, <1>4, <1>5, <1>6, <1>7, <1>8, <1>9 DEF Next, Step

\* A target leaves "active" once, and a claim is only ever on an active one.
LEMMA IntentsAccepted == ASSUME IndInv, Next PROVE \A i \in Intents : IntentTrigger(i)
<1>. TypeOK
  BY DEF IndInv
<1>. DEFINE Goal == \A i \in Intents : IntentTrigger(i)
<1>. intent \in [Intents -> IntentRows]
  BY DEF TypeOK
<1>1. CASE intent' = intent
  BY <1>1, IntentKept
<1>2. CASE Decide
  <2>1. CASE intent' = CancelledIntents
    <3>. SUFFICES ASSUME NEW i \in Intents PROVE IntentTrigger(i)
      OBVIOUS
    <3>1. intent'[i] = IF intent[i].status = "active" THEN Unclaimed(i, "cancelled") ELSE intent[i]
      BY <2>1 DEF CancelledIntents
    <3>. QED BY <3>1, IntentKept DEF Unclaimed, IntentTrigger, Moves
  <2>. QED BY <1>1, <1>2, <2>1
       DEF Decide, ReviewActivate, ReviewDeny, ReviewRevoke, BlockAuthorization, CancelAdmission, StopAdmission
<1>3. ASSUME NEW j \in Intents, CreateUploadIntent(j) \/ UploadExpired(j) \/ RejectBeforeStorage(j) PROVE Goal
  <2>. SUFFICES ASSUME NEW i \in Intents PROVE IntentTrigger(i)
    OBVIOUS
  <2>1. CASE CreateUploadIntent(j)
    <3>1. CASE i = j
      <4>1. intent[i].claim = None
        BY <2>1, <3>1 DEF CreateUploadIntent, IndInv, SingleDelivery
      <4>. QED BY <2>1, <3>1, <4>1 DEF CreateUploadIntent, IntentTrigger, Moves
    <3>2. CASE i # j
      BY <2>1, <3>2, IntentKept DEF CreateUploadIntent, Overdue, IntentRows, IntentTrigger, Moves
    <3>. QED BY <3>1, <3>2
  <2>2. CASE UploadExpired(j) \/ RejectBeforeStorage(j)
    BY <2>2, IntentKept DEF UploadExpired, RejectBeforeStorage, Overdue, IntentRows, IntentTrigger, Moves
  <2>. QED BY <1>3, <2>1, <2>2
<1>4. CASE CancelBlockedValidation \/ Crash \/ (\E s \in Stages : FailExhausted(s) \/ LeaseLapse(s)) \/ RightsLapse
  BY <1>1, <1>4
  DEF CancelBlockedValidation, FailExhausted, RightsLapse, LeaseLapse, Crash, CrashUpload, CrashWorker, CrashSweeper, rows
<1>5. ASSUME NEW j \in Intents, IntentLapse(j) \/ ClaimLapse(j) PROVE Goal
  BY <1>5, IntentKept DEF IntentLapse, ClaimLapse, IntentRows
<1>6. ASSUME NEW u \in Uploaders, NEW j \in Intents, NEW b \in Bodies, ClaimIntent(u, j, b) PROVE Goal
  BY <1>6, IntentKept DEF ClaimIntent, IntentRows
<1>7. ASSUME NEW j \in Intents, intent'[j] = Unclaimed(j, intent[j].status),
             intent[j].status = "active", \A i \in Intents : i # j => intent'[i] = intent[i]
      PROVE Goal
  BY <1>7, IntentKept DEF Unclaimed, IntentRows
<1>8. ASSUME NEW u \in Uploaders, Upload(u) PROVE Goal
  <2>1. CASE RecordUpload(u)
    <3>1. uploader[u].intent \in Intents
      BY <2>1 DEF RecordUpload, IndInv, CallsAgree
    <3>. QED BY <2>1, <3>1, IntentKept DEF RecordUpload, UploadStillValid, Unclaimed, IntentRows, IntentTrigger, Moves
  <2>2. CASE ReleaseClaim(u)
    <3>1. uploader[u].intent \in Intents /\ uploader[u].body # None
      BY <2>2, BodiesAssumption DEF ReleaseClaim, IndInv, CallsAgree
    <3>2. CASE intent[uploader[u].intent].claim = uploader[u].body
      <4>1. intent[uploader[u].intent].status = "active"
        BY <3>1, <3>2 DEF IndInv, SingleDelivery
      <4>. QED BY <1>7, <2>2, <3>1, <3>2, <4>1 DEF ReleaseClaim
    <3>. QED BY <1>1, <2>2, <3>2 DEF ReleaseClaim
  <2>. QED BY <1>1, <1>8, <2>1, <2>2
       DEF Upload, StoragePut, StoragePutFails, DiscardUpload, CleanupOrphan, rows
<1>9. ASSUME NEW s \in Sweepers, Sweep(s) PROVE Goal
  <2>1. CASE ReleaseOrphanClaim(s)
    <3>1. CASE sweeper[s].current \in Intents /\ intent[sweeper[s].current].status = "active"
      BY <1>7, <2>1, <3>1 DEF ReleaseOrphanClaim
    <3>2. CASE sweeper[s].current \notin Intents
      BY <1>1, <2>1, <3>2 DEF ReleaseOrphanClaim
    <3>. QED BY <1>1, <2>1, <3>1, <3>2 DEF ReleaseOrphanClaim
  <2>. QED BY <1>1, <1>9, <2>1
       DEF Sweep, ListLocators, QueryInventory, DeleteOrphan, CheckOrphan, EndPass, rows
<1>10. CASE \E w \in Workers : Claim(w) \/ Run(w)
  BY <1>1, <1>10
  DEF Claim, ClaimValidation, ClaimRemoval, Run, ReadAndInspect, Admit, Reject, Postpone, DiscardResult,
      AcknowledgeCancel, LoseLease, DeleteObject, ObserveAbsence, CompleteRemoval, RemovalUnavailable, rows
<1>. QED BY <1>2, <1>3, <1>4, <1>5, <1>6, <1>8, <1>9, <1>10 DEF Next, Step, Target, Lapse

\* The object is recorded once, found missing by a validation that holds the
\* lease, or deleted by a removal that does.
LEMMA ObjectAccepted == ASSUME IndInv, Next PROVE ObjectTrigger
<1>. TypeOK
  BY DEF IndInv
<1>1. CASE object' = object
  BY <1>1, ObjectKept
<1>2. CASE Decide \/ Target \/ CancelBlockedValidation \/ Lapse \/ Crash \/ (\E s \in Stages : FailExhausted(s))
  BY <1>1, <1>2
  DEF Decide, ReviewActivate, ReviewDeny, ReviewRevoke, BlockAuthorization, CancelAdmission, StopAdmission,
      Target, CreateUploadIntent, UploadExpired, RejectBeforeStorage, CancelBlockedValidation, FailExhausted,
      Lapse, RightsLapse, IntentLapse, ClaimLapse, LeaseLapse, Crash, CrashUpload, CrashWorker, CrashSweeper, rows
<1>3. CASE (\E u \in Uploaders, i \in Intents, b \in Bodies : ClaimIntent(u, i, b)) \/ (\E s \in Sweepers : Sweep(s))
  BY <1>1, <1>3
  DEF ClaimIntent, Sweep, ListLocators, QueryInventory, DeleteOrphan, CheckOrphan, ReleaseOrphanClaim, EndPass, rows
<1>4. ASSUME NEW u \in Uploaders, Upload(u) PROVE ObjectTrigger
  BY <1>1, <1>4
  DEF Upload, StoragePut, StoragePutFails, ReleaseClaim, RecordUpload, DiscardUpload, CleanupOrphan, rows,
      ObjectTrigger, Moves
<1>5. ASSUME NEW w \in Workers, Claim(w) \/ Run(w) PROVE ObjectTrigger
  <2>1. CASE Reject(w)
    <3>1. object.status = "present"
      BY <2>1 DEF Reject, ResultCounts, HeldBy, IndInv, NoSilentStall, VersionAgrees
    <3>. QED BY <1>1, <2>1, <3>1 DEF Reject, ObjectTrigger, Moves, TypeOK, ObjectRows
  <2>2. CASE CompleteRemoval(w)
    <3>1. removal = "pending" /\ job["remove_quarantine_object"].status # "completed"
      BY <2>2 DEF CompleteRemoval, HeldBy, IndInv, RemovalAgrees
    <3>2. object.status = "present"
      BY <3>1 DEF IndInv, RemovalAgrees, VersionAgrees, TypeOK, ObjectRows, Withdrawn
    <3>. QED BY <2>2, <3>2 DEF CompleteRemoval, ObjectTrigger, Moves, TypeOK, ObjectRows
  <2>. QED BY <1>1, <1>5, <2>1, <2>2
       DEF Claim, ClaimValidation, ClaimRemoval, Run, ReadAndInspect, Admit, Postpone, DiscardResult,
           AcknowledgeCancel, LoseLease, DeleteObject, ObserveAbsence, RemovalUnavailable, rows
<1>. QED BY <1>2, <1>3, <1>4, <1>5 DEF Next, Step

\* One job moves along its trigger's arrows, the others keep their row.
LEMMA JobMoved ==
    ASSUME TypeOK, NEW s \in Stages,
           \A t \in Stages : t # s => job'[t] = job[t],
           JobTrigger(s)
    PROVE  \A t \in Stages : JobTrigger(t)
  BY JobKept

LEMMA JobUnleased ==
    ASSUME TypeOK, NEW s \in Stages, NEW status,
           job' = Unleased(s, status),
           \/ job[s].status = "claimed" /\ status \in {"completed", "retryable", "failed", "cancelled"}
           \/ job[s].status \in {"pending", "retryable"} /\ status = "cancelled"
    PROVE  \A t \in Stages : JobTrigger(t)
<1>1. /\ job'[s].status = status
      /\ job'[s].attempts = job[s].attempts
      /\ \A t \in Stages : t # s => job'[t] = job[t]
  BY DEF Unleased, TypeOK
<1>2. JobTrigger(s)
  BY <1>1 DEF JobTrigger, Moves
<1>. QED BY <1>1, <1>2, JobMoved

LEMMA JobsAccepted == ASSUME IndInv, Next PROVE \A s \in Stages : JobTrigger(s)
<1>. TypeOK
  BY DEF IndInv
<1>. DEFINE Goal == \A s \in Stages : JobTrigger(s)
<1>. job \in [Stages -> JobRows]
  BY DEF TypeOK
<1>1. CASE job' = job
  BY <1>1, JobKept
<1>2. ASSUME ScheduleRemoval(CancelledValidation) PROVE Goal
  <2>. DEFINE r == "remove_quarantine_object"
              v == "validate_admission"
  <2>1. CancelledValidation[r] = job[r]
    BY DEF CancelledValidation, Unleased, Stages
  <2>2. job'[v] = CancelledValidation[v]
    BY <1>2 DEF ScheduleRemoval, CancelledValidation, Unleased, Stages
  <2>3. JobTrigger(v)
    BY <2>2, JobKept DEF CancelledValidation, Unleased, JobTrigger, Moves, Stages
  <2>4. job'[r] = job[r] \/ (job[r].status = "none" /\ job'[r] = PendingJob)
    BY <1>2, <2>1 DEF ScheduleRemoval, CancelledValidation, Unleased, Stages
  <2>5. job[r].status = "none" => job[r].attempts = 0
    BY DEF IndInv, LeaseDiscipline, StageDiscipline, Stages
  <2>6. JobTrigger(r)
    BY <2>4, <2>5, JobKept DEF PendingJob, JobTrigger, Moves, Stages
  <2>. QED BY <2>3, <2>6 DEF Stages
<1>3. CASE Decide
  BY <1>1, <1>2, <1>3
  DEF Decide, ReviewActivate, ReviewDeny, ReviewRevoke, BlockAuthorization, CancelAdmission, StopAdmission
<1>4. CASE Target \/ Crash \/ (\E u \in Uploaders, i \in Intents, b \in Bodies : ClaimIntent(u, i, b))
           \/ (\E s \in Sweepers : Sweep(s)) \/ RightsLapse \/ (\E i \in Intents : IntentLapse(i) \/ ClaimLapse(i))
  BY <1>1, <1>4
  DEF Target, CreateUploadIntent, UploadExpired, RejectBeforeStorage, ClaimIntent, RightsLapse, IntentLapse, ClaimLapse,
      Crash, CrashUpload, CrashWorker, CrashSweeper,
      Sweep, ListLocators, QueryInventory, DeleteOrphan, CheckOrphan, ReleaseOrphanClaim, EndPass, rows
<1>5. ASSUME NEW s \in Stages, LeaseLapse(s) PROVE Goal
  BY <1>5, JobKept DEF LeaseLapse, JobRows
<1>6. ASSUME NEW u \in Uploaders, Upload(u) PROVE Goal
  <2>1. CASE RecordUpload(u)
    <3>. DEFINE v == "validate_admission"
    <3>1. job[v].status = "none" /\ job[v].attempts = 0
      BY <2>1 DEF RecordUpload, IndInv, LeaseDiscipline, StageDiscipline, Stages
    <3>2. job'[v] = PendingJob /\ \A t \in Stages : t # v => job'[t] = job[t]
      BY <2>1 DEF RecordUpload, Stages
    <3>3. JobTrigger(v)
      BY <3>1, <3>2 DEF PendingJob, JobTrigger, Moves
    <3>4. v \in Stages
      BY DEF Stages
    <3>. HIDE DEF v
    <3>. QED BY <3>2, <3>3, <3>4, JobMoved
  <2>. QED BY <1>1, <1>6, <2>1
       DEF Upload, StoragePut, StoragePutFails, ReleaseClaim, DiscardUpload, CleanupOrphan, rows
<1>7. CASE CancelBlockedValidation
  BY <1>7, JobUnleased DEF CancelBlockedValidation, Stages
<1>8. ASSUME NEW s \in Stages, FailExhausted(s) PROVE Goal
  BY <1>8, JobUnleased DEF FailExhausted, LeaseExpired
<1>9. ASSUME NEW s \in Stages, NEW w \in Workers, NEW pc \in {"read", "delete"}, StartAttempt(s, w, pc) PROVE Goal
  <2>1. /\ job'[s].status = "claimed"
        /\ job'[s].attempts = job[s].attempts + 1
        /\ \A t \in Stages : t # s => job'[t] = job[t]
    BY <1>9 DEF StartAttempt
  <2>2. job[s].status \in {"pending", "retryable", "claimed"}
    BY <1>9 DEF StartAttempt, Claimable, LeaseExpired
  <2>3. JobTrigger(s)
    BY <2>1, <2>2 DEF JobTrigger, Moves, Kept
  <2>. QED BY <2>1, <2>3, JobMoved
<1>10. ASSUME NEW w \in Workers, Claim(w) PROVE Goal
  BY <1>9, <1>10 DEF Claim, ClaimValidation, ClaimRemoval, Stages
<1>11. ASSUME NEW w \in Workers, Run(w) PROVE Goal
  <2>1. CASE Admit(w) \/ Reject(w) \/ Postpone(w) \/ DiscardResult(w)
    <3>1. HeldBy("validate_admission", w)
      BY <2>1 DEF Admit, Reject, Postpone, DiscardResult, ResultCounts
    <3>. QED BY <2>1, <3>1, JobUnleased
         DEF Admit, Reject, Postpone, DiscardResult, Retry, Close, HeldBy, Stages
  <2>2. CASE CompleteRemoval(w) \/ RemovalUnavailable(w)
    BY <2>2, JobUnleased DEF CompleteRemoval, RemovalUnavailable, Retry, Close, HeldBy, Stages
  <2>. QED BY <1>1, <1>11, <2>1, <2>2
       DEF Run, ReadAndInspect, AcknowledgeCancel, LoseLease, DeleteObject, ObserveAbsence, rows
<1>. QED BY <1>3, <1>4, <1>5, <1>6, <1>7, <1>8, <1>10, <1>11 DEF Next, Step, Lapse

\* Whatever stale call comes back, no step writes what a row trigger refuses.
THEOREM TriggersNeverRefuse == Spec => TriggersAccept
<1>. DEFINE Accepted == /\ AuthorizationTrigger
                        /\ \A i \in Intents : IntentTrigger(i)
                        /\ VersionTrigger
                        /\ ObjectTrigger
                        /\ \A s \in Stages : JobTrigger(s) /\ \A n \in Attempts : AttemptTrigger(s, n)
<1>1. IndInv /\ [Next]_vars => [Accepted]_vars
  BY AuthorizationAccepted, IntentsAccepted, VersionAccepted, ObjectAccepted, JobsAccepted, AttemptsAccepted
<1>. QED BY <1>1, InvariantHolds, PTL DEF Spec, TriggersAccept

-----------------------------------------------------------------------------
(* What ingestion takes for granted of an admission.                       *)

\* A version becomes admitted while its store authorization is in force, leaves that
\* state only to be blocked, in the step that ends the authorization, and never
\* returns; the declaration does not come back to life either.  IngestionRun starts
\* in the state this step leaves, and BlockVersion and RightsLapse are all it has.
AdmissionLife ==
    [][/\ version # "admitted" /\ version' = "admitted" =>
             version = "validating" /\ auth = "active" /\ auth' = "active" /\ rightsLive'
       /\ version = "admitted" /\ version' # "admitted" =>
             version' = "blocked" /\ auth = "active" /\ auth' # "active"
       /\ version = "blocked" => version' = "blocked"
       /\ rightsLive' => rightsLive]_vars

LEMMA DeclarationLapses == ASSUME IndInv, Next PROVE rightsLive' => rightsLive
<1>1. CASE rightsLive' = rightsLive
  BY <1>1
<1>2. CASE Decide
  BY <1>1, <1>2
  DEF Decide, ReviewActivate, ReviewDeny, ReviewRevoke, BlockAuthorization, CancelAdmission, StopAdmission
<1>3. CASE Target
  BY <1>1, <1>3 DEF Target, CreateUploadIntent, UploadExpired, RejectBeforeStorage
<1>4. CASE CancelBlockedValidation
  BY <1>1, <1>4 DEF CancelBlockedValidation
<1>5. ASSUME NEW s \in Stages, FailExhausted(s)
      PROVE  rightsLive' => rightsLive
  BY <1>1, <1>5 DEF FailExhausted
<1>6. CASE Crash
  BY <1>1, <1>6 DEF Crash, CrashUpload, CrashWorker, CrashSweeper
<1>7. CASE Lapse
  BY <1>1, <1>7 DEF Lapse, RightsLapse, IntentLapse, ClaimLapse, LeaseLapse
<1>8. CASE (\E u \in Uploaders, i \in Intents, b \in Bodies : ClaimIntent(u, i, b))
           \/ (\E u \in Uploaders : Upload(u)) \/ (\E s \in Sweepers : Sweep(s))
  BY <1>1, <1>8
  DEF ClaimIntent, Upload, StoragePut, StoragePutFails, ReleaseClaim, RecordUpload, DiscardUpload, CleanupOrphan,
      Sweep, ListLocators, QueryInventory, DeleteOrphan, CheckOrphan, ReleaseOrphanClaim, EndPass
<1>9. CASE \E w \in Workers : Claim(w) \/ Run(w)
  BY <1>1, <1>9
  DEF Claim, ClaimValidation, ClaimRemoval, Run, ReadAndInspect, Admit, Reject, Postpone, DiscardResult,
      AcknowledgeCancel, LoseLease, DeleteObject, ObserveAbsence, CompleteRemoval, RemovalUnavailable
<1>. QED BY <1>2, <1>3, <1>4, <1>5, <1>6, <1>7, <1>8, <1>9 DEF Next, Step

\* Only a decision takes an admitted version back, and only a validation admits one.
LEMMA AdmissionMoves ==
    ASSUME IndInv, Next
    PROVE  /\ version # "admitted" /\ version' = "admitted" => \E w \in Workers : Admit(w)
           /\ version = "admitted" /\ version' # "admitted" =>
                 auth = "active" /\ auth' # "active"
<1>. DEFINE Goal == /\ version # "admitted" /\ version' = "admitted" => \E w \in Workers : Admit(w)
                    /\ version = "admitted" /\ version' # "admitted" =>
                          auth = "active" /\ auth' # "active"
<1>1. CASE version' = version
  BY <1>1
<1>2. CASE Decide
  BY <1>2
  DEF Decide, ReviewActivate, ReviewDeny, ReviewRevoke, BlockAuthorization, CancelAdmission, StopAdmission, Cancellable
<1>3. CASE version # "admitted" /\ version' # "admitted"
  BY <1>3
<1>4. CASE Target
  BY <1>1, <1>3, <1>4 DEF Target, CreateUploadIntent, UploadExpired, RejectBeforeStorage
<1>5. CASE CancelBlockedValidation \/ Lapse \/ Crash \/ (\E s \in Sweepers : Sweep(s))
           \/ (\E u \in Uploaders, i \in Intents, b \in Bodies : ClaimIntent(u, i, b))
  BY <1>1, <1>5
  DEF CancelBlockedValidation, Lapse, RightsLapse, IntentLapse, ClaimLapse, LeaseLapse, ClaimIntent,
      Crash, CrashUpload, CrashWorker, CrashSweeper,
      Sweep, ListLocators, QueryInventory, DeleteOrphan, CheckOrphan, ReleaseOrphanClaim, EndPass, rows
<1>6. ASSUME NEW u \in Uploaders, Upload(u) PROVE Goal
  BY <1>1, <1>3, <1>6
  DEF Upload, StoragePut, StoragePutFails, ReleaseClaim, RecordUpload, UploadStillValid, DiscardUpload,
      CleanupOrphan, rows
<1>7. ASSUME NEW w \in Workers, Claim(w) PROVE Goal
  <2>1. CASE ClaimRemoval(w)
    BY <1>1, <2>1 DEF ClaimRemoval
  <2>2. CASE ClaimValidation(w)
    <3>1. job["validate_admission"].status \in {"pending", "retryable", "claimed"} /\ version' = "validating"
      BY <2>2 DEF ClaimValidation, StartAttempt, Claimable, LeaseExpired
    <3>2. version \in {"quarantined", "validating"}
      BY <3>1 DEF IndInv, NoSilentStall
    <3>. QED BY <1>3, <3>1, <3>2
  <2>. QED BY <1>7, <2>1, <2>2 DEF Claim
<1>8. ASSUME NEW w \in Workers, Run(w) PROVE Goal
  <2>1. CASE Admit(w)
    BY <2>1 DEF Admit
  <2>2. CASE Reject(w) \/ Postpone(w)
    <3>1. version = "validating" /\ version' \in {"rejected", "quarantined"}
      BY <2>2 DEF Reject, Postpone, ResultCounts, HeldBy, IndInv, NoSilentStall
    <3>. QED BY <1>3, <3>1
  <2>3. CASE version' = version
    BY <1>1, <2>3
  <2>. QED BY <1>8, <2>1, <2>2, <2>3
       DEF Run, ReadAndInspect, DiscardResult, AcknowledgeCancel, LoseLease, DeleteObject, ObserveAbsence,
           CompleteRemoval, RemovalUnavailable, rows
<1>9. ASSUME NEW s \in Stages, FailExhausted(s) PROVE Goal
  <2>1. CASE s = "validate_admission"
    <3>1. version = "validating" /\ version' = "quarantined"
      BY <1>9, <2>1 DEF FailExhausted, LeaseExpired, IndInv, NoSilentStall
    <3>. QED BY <1>3, <3>1
  <2>. QED BY <1>1, <1>9, <2>1 DEF FailExhausted
<1>. QED BY <1>2, <1>4, <1>5, <1>6, <1>7, <1>8, <1>9 DEF Next, Step

\* What an admission is worth downstream: it comes with a right in force and ends,
\* with that right, once and for good.
THEOREM AdmissionsEndForGood == Spec => AdmissionLife
<1>. DEFINE A == /\ version # "admitted" /\ version' = "admitted" =>
                       version = "validating" /\ auth = "active" /\ auth' = "active" /\ rightsLive'
                 /\ version = "admitted" /\ version' # "admitted" =>
                       version' = "blocked" /\ auth = "active" /\ auth' # "active"
                 /\ version = "blocked" => version' = "blocked"
                 /\ rightsLive' => rightsLive
<1>1. ASSUME IndInv, Next PROVE A
  <2>. USE <1>1
  <2>1. rightsLive' => rightsLive
    BY DeclarationLapses
  <2>2. VersionTrigger
    BY VersionAccepted
  <2>3. version = "blocked" => version' = "blocked"
    BY <2>2 DEF VersionTrigger, Kept, Moves
  <2>4. version = "admitted" /\ version' # "admitted" => version' = "blocked"
    BY <2>2 DEF VersionTrigger, Kept, Moves
  <2>5. version # "admitted" /\ version' = "admitted" => version = "validating"
    BY <2>2 DEF VersionTrigger, Kept, Moves
  <2>6. ASSUME NEW w \in Workers, Admit(w)
        PROVE  auth = "active" /\ auth' = "active" /\ rightsLive'
    BY <2>6 DEF Admit, ResultCounts, AuthorizationIsActive
  <2>. QED BY <2>1, <2>3, <2>4, <2>5, <2>6, AdmissionMoves
<1>2. IndInv /\ [Next]_vars => [A]_vars
  BY <1>1
<1>. HIDE DEF A
<1>3. Spec => [][A]_vars
  BY <1>2, InvariantHolds, PTL DEF Spec
<1>. QED BY <1>3 DEF AdmissionLife, A

-----------------------------------------------------------------------------
(* The work of a job runs out.                                             *)

\* How far a job is from its end within an attempt.
Rank(status) ==
    IF status = "none" THEN 4
    ELSE IF status = "pending" THEN 3
    ELSE IF status = "claimed" THEN 2
    ELSE IF status = "retryable" THEN 1
    ELSE 0

\* What a job can still be written: its unspent attempts, each worth more than
\* everything within one, then its place on the way, then its lease.
WorkLeft(s) ==
    9 * (MaxAttempts - job[s].attempts) + 2 * Rank(job[s].status)
        + (IF job[s].live THEN 1 ELSE 0)

\* Whatever calls die, come back late or reclaim each other's leases, every write
\* of a job's row uses up some of a budget that MaxAttempts fixes, so
\* neither the validation of a version nor the removal of its object goes on for ever.
JobsRunOut == [][\A s \in Stages : job'[s] # job[s] => WorkLeft(s)' < WorkLeft(s)]_vars

\* The budget is never overdrawn.
JobsAreBounded == \A s \in Stages : WorkLeft(s) \in 0 .. 9 * MaxAttempts + 8

\* What a job's row is worth, before and after a step.
LEMMA WorkOfRows ==
    ASSUME TypeOK, TypeOK', NEW s \in Stages
    PROVE  /\ job[s].attempts \in Nat /\ job'[s].attempts \in Nat /\ MaxAttempts \in Nat
           /\ job[s].live \in BOOLEAN
           /\ WorkLeft(s) = 9 * (MaxAttempts - job[s].attempts) + 2 * Rank(job[s].status)
                                + (IF job[s].live THEN 1 ELSE 0)
           /\ WorkLeft(s)' = 9 * (MaxAttempts - job'[s].attempts) + 2 * Rank(job'[s].status)
                                + (IF job'[s].live THEN 1 ELSE 0)
  BY AttemptsNat DEF TypeOK, JobRows, WorkLeft

\* One job uses up some of its budget, the others keep their row.
JobWorks(s) ==
    /\ \A t \in Stages : t # s => job'[t] = job[t]
    /\ WorkLeft(s)' < WorkLeft(s)

\* A job that gives up its lease, or its place among the waiting, works.
LEMMA UnleasedWorks ==
    ASSUME TypeOK, TypeOK', NEW s \in Stages, NEW status,
           job' = Unleased(s, status),
           \/ job[s].status = "claimed" /\ status \in {"completed", "retryable", "failed", "cancelled"}
           \/ job[s].status \in {"pending", "retryable"} /\ status = "cancelled"
    PROVE  JobWorks(s)
<1>1. /\ job'[s].status = status /\ ~job'[s].live
      /\ job'[s].attempts = job[s].attempts
      /\ \A t \in Stages : t # s => job'[t] = job[t]
  BY DEF Unleased, TypeOK
<1>2. Rank(job'[s].status) < Rank(job[s].status) /\ Rank(job'[s].status) \in 0 .. 1
      /\ Rank(job[s].status) \in 1 .. 3
  BY <1>1 DEF Rank
<1>. QED BY <1>1, <1>2, WorkOfRows DEF JobWorks

\* Stopping the admission ends the validation job and starts the removal job, if
\* it does anything to them.
LEMMA StopWorks ==
    ASSUME IndInv, TypeOK', NEW terminal, StopAdmission(terminal)
    PROVE  \A s \in Stages : job'[s] # job[s] => WorkLeft(s)' < WorkLeft(s)
<1>. DEFINE v == "validate_admission"
            r == "remove_quarantine_object"
<1>0. TypeOK /\ v \in Stages /\ r \in Stages
  BY DEF IndInv, Stages
<1>1. job'[v] # job[v] => WorkLeft(v)' < WorkLeft(v)
  <2>1. job'[v] = job[v] \/ job'[v] = [status |-> "cancelled", owner |-> None, live |-> FALSE,
                                       attempts |-> job[v].attempts]
    BY DEF StopAdmission, ScheduleRemoval, CancelledValidation, Unleased, IndInv, TypeOK, Stages
  <2>2. job'[v] # job[v] =>
           job[v].status \in {"pending", "claimed", "retryable"} /\ job'[v].status = "cancelled"
    BY <1>0, StopEffect
  <2>3. job'[v] # job[v] => Rank(job[v].status) \in 1 .. 3 /\ Rank(job'[v].status) = 0
    BY <2>2 DEF Rank
  <2>. HIDE DEF v
  <2>. QED BY <1>0, <2>1, <2>3, WorkOfRows
<1>2. job'[r] # job[r] => WorkLeft(r)' < WorkLeft(r)
  <2>1. job'[r] # job[r] =>
           /\ job[r].status = "none" /\ job'[r].status = "pending"
           /\ job'[r].attempts = 0 /\ ~job'[r].live
    BY <1>0, StopEffect DEF PendingJob
  <2>2. job[r].status = "none" => job[r].attempts = 0
    BY DEF IndInv, LeaseDiscipline, StageDiscipline, Stages
  <2>3. job'[r] # job[r] => Rank(job[r].status) = 4 /\ Rank(job'[r].status) = 3
    BY <2>1 DEF Rank
  <2>. HIDE DEF r
  <2>. QED BY <1>0, <2>1, <2>2, <2>3, WorkOfRows
<1>. QED BY <1>1, <1>2 DEF Stages

LEMMA WorkStep ==
    ASSUME IndInv, Next
    PROVE  \A s \in Stages : job'[s] # job[s] => WorkLeft(s)' < WorkLeft(s)
<1>. DEFINE Goal == \A s \in Stages : job'[s] # job[s] => WorkLeft(s)' < WorkLeft(s)
<1>0. TypeOK /\ TypeOK' /\ job \in [Stages -> JobRows]
  BY TypeStep DEF IndInv, TypeOK
<1>1. CASE job' = job
  BY <1>1
<1>2. ASSUME NEW s \in Stages, JobWorks(s)
      PROVE  Goal
  BY <1>2 DEF JobWorks
<1>3. CASE Decide
  BY <1>0, <1>1, <1>3, StopWorks
  DEF Decide, ReviewActivate, ReviewDeny, ReviewRevoke, BlockAuthorization, CancelAdmission
<1>4. CASE Target \/ Crash \/ (\E u \in Uploaders, i \in Intents, b \in Bodies : ClaimIntent(u, i, b))
           \/ (\E s \in Sweepers : Sweep(s)) \/ RightsLapse \/ (\E i \in Intents : IntentLapse(i) \/ ClaimLapse(i))
  BY <1>1, <1>4
  DEF Target, CreateUploadIntent, UploadExpired, RejectBeforeStorage, ClaimIntent, RightsLapse, IntentLapse, ClaimLapse,
      Crash, CrashUpload, CrashWorker, CrashSweeper,
      Sweep, ListLocators, QueryInventory, DeleteOrphan, CheckOrphan, ReleaseOrphanClaim, EndPass, rows
<1>5. ASSUME NEW s \in Stages, LeaseLapse(s) PROVE Goal
  <2>1. /\ job[s].live /\ ~job'[s].live
        /\ job'[s].status = job[s].status /\ job'[s].attempts = job[s].attempts
        /\ \A t \in Stages : t # s => job'[t] = job[t]
    BY <1>0, <1>5 DEF LeaseLapse, JobRows
  <2>2. Rank(job[s].status) \in Nat
    BY DEF Rank
  <2>3. JobWorks(s)
    BY <1>0, <2>1, <2>2, WorkOfRows DEF JobWorks
  <2>. QED BY <1>2, <2>3
<1>6. ASSUME NEW u \in Uploaders, Upload(u) PROVE Goal
  <2>1. CASE RecordUpload(u)
    <3>. DEFINE v == "validate_admission"
    <3>1. job[v].status = "none" /\ job[v].attempts = 0
      BY <2>1 DEF RecordUpload, IndInv, LeaseDiscipline, StageDiscipline, Stages
    <3>2. job'[v] = PendingJob /\ \A t \in Stages : t # v => job'[t] = job[t]
      BY <1>0, <2>1 DEF RecordUpload, Stages
    <3>3. Rank(job[v].status) = 4 /\ Rank(job'[v].status) = 3 /\ ~job'[v].live /\ job'[v].attempts = 0
      BY <3>1, <3>2 DEF PendingJob, Rank
    <3>4. v \in Stages
      BY DEF Stages
    <3>. HIDE DEF v
    <3>5. JobWorks(v)
      BY <1>0, <3>1, <3>2, <3>3, <3>4, WorkOfRows DEF JobWorks
    <3>. QED BY <1>2, <3>4, <3>5
  <2>. QED BY <1>1, <1>6, <2>1
       DEF Upload, StoragePut, StoragePutFails, ReleaseClaim, DiscardUpload, CleanupOrphan, rows
<1>7. CASE CancelBlockedValidation
  BY <1>0, <1>2, <1>7, UnleasedWorks DEF CancelBlockedValidation, Stages
<1>8. ASSUME NEW s \in Stages, FailExhausted(s) PROVE Goal
  BY <1>0, <1>2, <1>8, UnleasedWorks DEF FailExhausted, LeaseExpired
<1>9. ASSUME NEW s \in Stages, NEW w \in Workers, NEW pc \in {"read", "delete"}, StartAttempt(s, w, pc) PROVE Goal
  <2>1. /\ job[s].status \in {"pending", "retryable", "claimed"}
        /\ job'[s].status = "claimed" /\ job'[s].live
        /\ job'[s].attempts = job[s].attempts + 1
        /\ \A t \in Stages : t # s => job'[t] = job[t]
    <3>1. /\ job[s].status \in {"pending", "retryable", "claimed"}
          /\ job'[s] = [status |-> "claimed", owner |-> w, live |-> TRUE,
                        attempts |-> job[s].attempts + 1]
          /\ \A t \in Stages : t # s => job'[t] = job[t]
      BY <1>0, <1>9, StartEffect
    <3>. QED BY <3>1
  <2>2. Rank(job[s].status) \in 1 .. 3 /\ Rank(job'[s].status) = 2
    BY <2>1 DEF Rank
  <2>3. JobWorks(s)
    BY <1>0, <2>1, <2>2, WorkOfRows DEF JobWorks
  <2>. QED BY <1>2, <2>3
<1>10. ASSUME NEW w \in Workers, Claim(w) PROVE Goal
  BY <1>9, <1>10 DEF Claim, ClaimValidation, ClaimRemoval, Stages
<1>11. ASSUME NEW w \in Workers, Run(w) PROVE Goal
  <2>1. CASE Admit(w) \/ Reject(w) \/ Postpone(w) \/ DiscardResult(w)
    <3>1. HeldBy("validate_admission", w)
      BY <2>1 DEF Admit, Reject, Postpone, DiscardResult, ResultCounts
    <3>. QED BY <1>0, <1>2, <2>1, <3>1, UnleasedWorks
         DEF Admit, Reject, Postpone, DiscardResult, Retry, Close, HeldBy, Stages
  <2>2. CASE CompleteRemoval(w) \/ RemovalUnavailable(w)
    BY <1>0, <1>2, <2>2, UnleasedWorks DEF CompleteRemoval, RemovalUnavailable, Retry, Close, HeldBy, Stages
  <2>. QED BY <1>1, <1>11, <2>1, <2>2
       DEF Run, ReadAndInspect, AcknowledgeCancel, LoseLease, DeleteObject, ObserveAbsence, rows
<1>. QED BY <1>3, <1>4, <1>5, <1>6, <1>7, <1>8, <1>10, <1>11 DEF Next, Step, Lapse

\* Whatever calls die or come back late, a job's row is written finitely often:
\* every write spends a budget MaxAttempts fixes.
THEOREM JobsAreFinite == Spec => JobsRunOut /\ []JobsAreBounded
<1>1. IndInv => JobsAreBounded
  <2>. HAVE IndInv
  <2>. SUFFICES ASSUME NEW s \in Stages
               PROVE  WorkLeft(s) \in 0 .. 9 * MaxAttempts + 8
    BY DEF JobsAreBounded
  <2>1. job[s].attempts \in 0 .. MaxAttempts /\ MaxAttempts \in Nat
    BY AttemptsNat DEF IndInv, TypeOK, JobRows
  <2>2. Rank(job[s].status) \in 0 .. 4
    BY DEF Rank
  <2>3. job[s].live => Rank(job[s].status) = 2
    BY DEF IndInv, LeaseDiscipline, StageDiscipline, Rank
  <2>. QED BY <2>1, <2>2, <2>3 DEF WorkLeft
<1>. DEFINE A == \A s \in Stages : job'[s] # job[s] => WorkLeft(s)' < WorkLeft(s)
<1>2. IndInv /\ [Next]_vars => [A]_vars
  BY WorkStep
<1>. HIDE DEF A
<1>3. Spec => [][A]_vars
  BY <1>2, InvariantHolds, PTL DEF Spec
<1>4. Spec => []JobsAreBounded
  BY <1>1, InvariantHolds, PTL
<1>. QED BY <1>3, <1>4 DEF JobsRunOut, A

-----------------------------------------------------------------------------
(* The bytes behind the inventory.                                         *)

\* No two requests are putting bytes under one target at once: an upload ends
\* before its claim runs out, and a retry waits for it.
OneUploadPerTarget ==
    \A u, v \in Uploaders :
        uploader[u].pc # "idle" /\ uploader[v].pc # "idle"
            /\ uploader[u].intent = uploader[v].intent => u = v

\* No orphan pass is under way while a request holds a target.
PassesApartFromUploads ==
    \A s \in Sweepers, u \in Uploaders : sweeper[s].pc = "idle" \/ uploader[u].pc = "idle"

\* Until somebody asked for its removal the recorded object has its bytes: storage
\* holds under its locator the body that was recorded, and for an admitted version
\* that is a body the inspector accepted.
BytesStand ==
    /\ object.status = "present" /\ removal = "not_required" =>
          file[object.intent] = object.body
    /\ version = "admitted" =>
          file[object.intent] = object.body /\ object.body \in SafeBodies

\* What keeps them there: a request that has put its body finds it again, and
\* neither a request nor an orphan pass works on the locator of the object.
BytesInv ==
    /\ object.status = "present" /\ removal = "not_required" =>
          file[object.intent] = object.body
    /\ \A u \in Uploaders :
          /\ uploader[u].pc = "record" => file[uploader[u].intent] = uploader[u].body
          /\ uploader[u].pc # "idle" /\ object.status # "none" =>
                uploader[u].intent # object.intent
    /\ \A s \in Sweepers :
          sweeper[s].pc \notin {"idle", "query"} /\ object.status = "present" =>
              object.intent \notin sweeper[s].found

\* A step of a job, of a decision or of a clock leaves the bytes alone; if it
\* touches the object's row it takes the object out of the inventory.
LEMMA BytesFrame ==
    ASSUME BytesInv, file' = file, uploader' = uploader, sweeper' = sweeper,
           object'.intent = object.intent, object'.body = object.body,
           \/ object'.status = object.status
           \/ object.status # "none" /\ object'.status # "present",
           object'.status = "present" /\ removal' = "not_required" => removal = "not_required"
    PROVE  BytesInv'
  BY DEF BytesInv

\* A call that has an object to delete was told so.
LEMMA DeletionWasAsked ==
    ASSUME IndInv, NEW w \in Workers, worker[w].pc \in {"delete", "check", "settle"}
    PROVE  removal # "not_required" /\ object.status # "none"
<1>. DEFINE r == "remove_quarantine_object"
<1>1. OnStage(w, r) /\ r \in Stages
  BY DEF OnStage, Stages
<1>2. worker[w].attempt \in 1 .. job[r].attempts /\ object.status # "none"
  BY <1>1 DEF IndInv, CallsAgree, CallAgrees
<1>3. job[r].status = "none" => job[r].attempts = 0
  BY <1>1 DEF IndInv, LeaseDiscipline, StageDiscipline
<1>4. job[r].status # "none"
  BY <1>2, <1>3
<1>. QED BY <1>2, <1>4 DEF IndInv, RemovalAgrees

LEMMA DecisionKeepsBytes ==
    ASSUME IndInv, BytesInv, Decide
    PROVE  BytesInv'
<1>1. /\ UNCHANGED <<object, file, uploader, sweeper>>
      /\ object.status = "present" /\ removal' = "not_required" => removal = "not_required"
  BY DEF Decide, ReviewActivate, ReviewDeny, ReviewRevoke, BlockAuthorization, CancelAdmission, StopAdmission,
         ScheduleRemoval, procs
<1>. QED BY <1>1, BytesFrame

LEMMA UploadKeepsBytes ==
    ASSUME IndInv, BytesInv, OneUploadPerTarget, PassesApartFromUploads, NEW u \in Uploaders, Upload(u)
    PROVE  BytesInv'
<1>0. /\ file \in [Intents -> Bodies \cup {None}]
      /\ uploader \in [Uploaders -> UploaderStates]
  BY DEF IndInv, TypeOK
<1>1. /\ uploader[u].pc # "idle" /\ uploader[u].intent \in Intents
      /\ \A v \in Uploaders : v # u /\ uploader[v].pc # "idle" => uploader[v].intent # uploader[u].intent
      /\ \A s \in Sweepers : sweeper[s].pc = "idle"
  <2>1. uploader[u].pc # "idle"
    BY DEF Upload, StoragePut, StoragePutFails, ReleaseClaim, RecordUpload, DiscardUpload, CleanupOrphan
  <2>2. uploader[u].intent \in Intents
    BY <2>1 DEF IndInv, CallsAgree
  <2>. QED BY <2>1, <2>2 DEF OneUploadPerTarget, PassesApartFromUploads
<1>2. \A v \in Uploaders : v # u => uploader'[v] = uploader[v]
  BY <1>0 DEF Upload, StoragePut, StoragePutFails, ReleaseClaim, RecordUpload, DiscardUpload, CleanupOrphan
<1>3. sweeper' = sweeper /\ removal' = removal
  BY DEF Upload, StoragePut, StoragePutFails, ReleaseClaim, RecordUpload, DiscardUpload, CleanupOrphan, rows
<1>4. CASE StoragePut(u)
  <2>1. /\ object' = object
        /\ file'[uploader[u].intent] = uploader[u].body
        /\ \A i \in Intents : i # uploader[u].intent => file'[i] = file[i]
        /\ uploader'[u].pc = "record" /\ uploader'[u].intent = uploader[u].intent
        /\ uploader'[u].body = uploader[u].body
    BY <1>0, <1>1, <1>4 DEF StoragePut, rows, UploaderStates
  <2>2. object.status # "none" => object.intent # uploader[u].intent /\ object.intent \in Intents
    BY <1>1 DEF BytesInv, IndInv, SingleDelivery
  <2>3. \A v \in Uploaders : uploader[v].pc # "idle" => uploader[v].intent \in Intents
    BY DEF IndInv, CallsAgree
  <2>. QED BY <1>1, <1>2, <1>3, <2>1, <2>2, <2>3 DEF BytesInv
<1>5. CASE StoragePutFails(u) \/ ReleaseClaim(u) \/ DiscardUpload(u)
  <2>1. UNCHANGED <<object, file>>
    BY <1>5 DEF StoragePutFails, ReleaseClaim, DiscardUpload, rows
  <2>2. /\ uploader'[u].pc # "record"
        /\ uploader'[u].pc # "idle" => uploader'[u].intent = uploader[u].intent
    BY <1>0, <1>5 DEF StoragePutFails, ReleaseClaim, DiscardUpload, IdleUpload, UploaderStates
  <2>. QED BY <1>1, <1>2, <1>3, <2>1, <2>2 DEF BytesInv
<1>6. CASE RecordUpload(u)
  <2>1. /\ object'.intent = uploader[u].intent /\ object'.body = uploader[u].body
        /\ file' = file /\ uploader'[u].pc = "idle" /\ uploader[u].pc = "record"
    BY <1>0, <1>6 DEF RecordUpload, IdleUpload
  <2>. QED BY <1>1, <1>2, <1>3, <2>1 DEF BytesInv
<1>7. CASE CleanupOrphan(u)
  <2>1. /\ object' = object /\ uploader'[u].pc = "idle"
        /\ \A i \in Intents : i # uploader[u].intent => file'[i] = file[i]
    BY <1>0, <1>7 DEF CleanupOrphan, rows, IdleUpload
  <2>2. object.status # "none" => object.intent # uploader[u].intent /\ object.intent \in Intents
    BY <1>1 DEF BytesInv, IndInv, SingleDelivery
  <2>3. \A v \in Uploaders : uploader[v].pc # "idle" => uploader[v].intent \in Intents
    BY DEF IndInv, CallsAgree
  <2>. QED BY <1>1, <1>2, <1>3, <2>1, <2>2, <2>3 DEF BytesInv
<1>. QED BY <1>4, <1>5, <1>6, <1>7 DEF Upload

LEMMA ClaimKeepsBytes ==
    ASSUME IndInv, BytesInv, NEW u \in Uploaders, NEW i \in Intents, NEW b \in Bodies,
           ClaimIntent(u, i, b)
    PROVE  BytesInv'
<1>1. /\ object.status = "none"
      /\ UNCHANGED <<object, file, removal, sweeper>>
      /\ uploader'[u].pc = "put"
      /\ \A v \in Uploaders : v # u => uploader'[v] = uploader[v]
  BY DEF ClaimIntent, IndInv, SingleDelivery, TypeOK
<1>. QED BY <1>1 DEF BytesInv

LEMMA SweepKeepsBytes ==
    ASSUME IndInv, BytesInv, PassesApartFromUploads, NEW s \in Sweepers, Sweep(s)
    PROVE  BytesInv'
<1>0. /\ file \in [Intents -> Bodies \cup {None}]
      /\ sweeper \in [Sweepers -> SweeperStates]
      /\ object.status # "none" => object.intent \in Intents
  BY DEF IndInv, TypeOK, SingleDelivery
<1>1. UNCHANGED <<object, removal, uploader>>
  BY DEF Sweep, ListLocators, QueryInventory, DeleteOrphan, CheckOrphan, ReleaseOrphanClaim, EndPass, rows
<1>2. \A t \in Sweepers : t # s => sweeper'[t] = sweeper[t]
  BY <1>0 DEF Sweep, ListLocators, QueryInventory, DeleteOrphan, CheckOrphan, ReleaseOrphanClaim, EndPass
<1>3. CASE ListLocators(s) \/ EndPass(s)
  <2>1. file' = file /\ sweeper'[s].pc \in {"idle", "query"}
    BY <1>0, <1>3 DEF ListLocators, EndPass, IdleSweeper
  <2>. QED BY <1>1, <1>2, <2>1 DEF BytesInv
<1>4. CASE QueryInventory(s)
  <2>1. file' = file /\ (object.status = "present" => object.intent \notin sweeper'[s].found)
    BY <1>0, <1>4 DEF QueryInventory, SweeperStates
  <2>. QED BY <1>1, <1>2, <2>1 DEF BytesInv
<1>5. ASSUME NEW i \in Intents, DeleteOrphan(s, i)
      PROVE  BytesInv'
  <2>1. /\ sweeper[s].pc = "delete" /\ i \in sweeper[s].found
        /\ \A j \in Intents : j # i => file'[j] = file[j]
        /\ sweeper'[s].found \subseteq sweeper[s].found
    BY <1>0, <1>5 DEF DeleteOrphan, SweeperStates
  <2>2. object.status = "present" => object.intent # i /\ object.intent \in Intents
    BY <1>0, <2>1 DEF BytesInv
  <2>3. \A u \in Uploaders : uploader[u].pc = "idle"
    BY <2>1 DEF PassesApartFromUploads
  <2>. QED BY <1>1, <1>2, <2>1, <2>2, <2>3 DEF BytesInv
<1>6. CASE CheckOrphan(s) \/ ReleaseOrphanClaim(s)
  <2>1. /\ file' = file /\ sweeper'[s].found = sweeper[s].found
        /\ sweeper[s].pc \notin {"idle", "query"}
    BY <1>0, <1>6 DEF CheckOrphan, ReleaseOrphanClaim, SweeperStates
  <2>. QED BY <1>1, <1>2, <2>1 DEF BytesInv
<1>. QED BY <1>3, <1>4, <1>5, <1>6 DEF Sweep

LEMMA RunKeepsBytes ==
    ASSUME IndInv, BytesInv, NEW w \in Workers, Claim(w) \/ Run(w)
    PROVE  BytesInv'
<1>0. /\ file \in [Intents -> Bodies \cup {None}]
      /\ object \in ObjectRows
      /\ object.status # "none" => object.intent \in Intents
  BY DEF IndInv, TypeOK, SingleDelivery
<1>1. UNCHANGED <<uploader, sweeper>>
  BY DEF Claim, ClaimValidation, ClaimRemoval, Run, ReadAndInspect, Admit, Reject, Postpone, DiscardResult,
         AcknowledgeCancel, LoseLease, DeleteObject, ObserveAbsence, CompleteRemoval, RemovalUnavailable
<1>2. CASE DeleteObject(w)
  <2>1. removal # "not_required" /\ object.status # "none"
    BY <1>2, DeletionWasAsked DEF DeleteObject
  <2>2. /\ UNCHANGED <<object, removal>>
        /\ \A i \in Intents : i # object.intent => file'[i] = file[i]
    BY <1>0, <1>2 DEF DeleteObject, rows
  <2>3. \A u \in Uploaders : uploader[u].pc # "idle" =>
           uploader[u].intent \in Intents /\ uploader[u].intent # object.intent
    BY <2>1 DEF IndInv, CallsAgree, BytesInv
  <2>. QED BY <1>1, <2>1, <2>2, <2>3 DEF BytesInv
<1>3. CASE Reject(w)
  <2>1. object.status # "none"
    BY <1>3 DEF Reject, ResultCounts, OnStage, IndInv, CallsAgree, CallAgrees, Stages
  <2>2. /\ file' = file /\ removal' = removal
        /\ object' = object \/ object' = [object EXCEPT !.status = "missing"]
    BY <1>3 DEF Reject
  <2>. QED BY <1>0, <1>1, <2>1, <2>2, BytesFrame DEF ObjectRows
<1>4. CASE CompleteRemoval(w)
  <2>1. object.status # "none"
    BY <1>4, DeletionWasAsked DEF CompleteRemoval
  <2>2. file' = file /\ object' = [object EXCEPT !.status = "deleted"]
    BY <1>4 DEF CompleteRemoval
  <2>. QED BY <1>0, <1>1, <2>1, <2>2, BytesFrame DEF ObjectRows
<1>5. CASE RemovalUnavailable(w)
  <2>1. UNCHANGED <<file, object>> /\ removal' # "not_required"
    BY <1>5 DEF RemovalUnavailable
  <2>. QED BY <1>1, <2>1, BytesFrame
<1>6. CASE \/ Claim(w) \/ ReadAndInspect(w) \/ Admit(w) \/ Postpone(w) \/ DiscardResult(w)
           \/ AcknowledgeCancel(w) \/ LoseLease(w) \/ ObserveAbsence(w)
  <2>1. UNCHANGED <<file, object, removal>>
    BY <1>6
    DEF Claim, ClaimValidation, ClaimRemoval, ReadAndInspect, Admit, Postpone, DiscardResult,
        AcknowledgeCancel, LoseLease, ObserveAbsence, rows
  <2>. QED BY <1>1, <2>1, BytesFrame
<1>. QED BY <1>2, <1>3, <1>4, <1>5, <1>6 DEF Run

LEMMA BytesStep ==
    ASSUME IndInv, BytesInv, OneUploadPerTarget, PassesApartFromUploads, [Next]_vars
    PROVE  BytesInv'
<1>1. CASE \/ Target \/ CancelBlockedValidation \/ Lapse \/ (\E w \in Workers : CrashWorker(w))
           \/ UNCHANGED vars
  <2>1. UNCHANGED <<file, object, removal, uploader, sweeper>>
    BY <1>1
    DEF Target, CreateUploadIntent, UploadExpired, RejectBeforeStorage, CancelBlockedValidation, Lapse,
        RightsLapse, IntentLapse, ClaimLapse, LeaseLapse, CrashWorker, vars, rows, procs
  <2>. QED BY <2>1, BytesFrame
<1>2. ASSUME NEW s \in Stages, FailExhausted(s)
      PROVE  BytesInv'
  <2>1. UNCHANGED <<file, object, uploader, sweeper>> /\ removal' \in {removal, "failed"}
    BY <1>2 DEF FailExhausted, procs
  <2>. QED BY <2>1, BytesFrame
<1>3. ASSUME NEW u \in Uploaders, CrashUpload(u)
      PROVE  BytesInv'
  <2>1. /\ UNCHANGED <<file, object, removal, sweeper>>
        /\ uploader'[u].pc = "idle"
        /\ \A v \in Uploaders : v # u => uploader'[v] = uploader[v]
    BY <1>3 DEF CrashUpload, IdleUpload, IndInv, TypeOK, rows
  <2>. QED BY <2>1 DEF BytesInv
<1>4. ASSUME NEW s \in Sweepers, CrashSweeper(s)
      PROVE  BytesInv'
  <2>1. /\ UNCHANGED <<file, object, removal, uploader>>
        /\ sweeper'[s].pc = "idle"
        /\ \A t \in Sweepers : t # s => sweeper'[t] = sweeper[t]
    BY <1>4 DEF CrashSweeper, IdleSweeper, IndInv, TypeOK, rows
  <2>. QED BY <2>1 DEF BytesInv
<1>. QED BY <1>1, <1>2, <1>3, <1>4, DecisionKeepsBytes, UploadKeepsBytes, ClaimKeepsBytes, SweepKeepsBytes,
            RunKeepsBytes
     DEF Next, Step, Crash

\* The recorded bytes are there as long as nobody asked for their removal, and so
\* are those an admission rests on, provided uploads to one target do not overlap
\* and orphan passes do not overlap uploads: without either (OrphanPassSparesInventory
\* is violated) the inventory may name bytes that are gone or were replaced.
THEOREM RecordedBytesStand ==
    Spec /\ []OneUploadPerTarget /\ []PassesApartFromUploads => []BytesStand
<1>1. Init => BytesInv
  BY DEF Init, NoObject, IdleUpload, IdleSweeper, BytesInv
<1>2. IndInv /\ BytesInv /\ OneUploadPerTarget /\ PassesApartFromUploads /\ [Next]_vars => BytesInv'
  BY BytesStep
<1>3. IndInv /\ BytesInv => BytesStand
  <2>1. IndInv /\ version = "admitted" =>
           /\ object.status = "present" /\ object.body \in SafeBodies
           /\ removal = "not_required"
    BY DEF IndInv, VersionAgrees, RemovalAgrees, Withdrawn
  <2>. QED BY <2>1 DEF BytesInv, BytesStand
<1>. QED BY <1>1, <1>2, <1>3, InvariantHolds, PTL DEF Spec

-----------------------------------------------------------------------------
(* The refinement.                                                         *)

LEMMA ContractInit == Init => Contract!Init
<1>. SUFFICES ASSUME Init PROVE Contract!Init
  OBVIOUS
<1>1. Stage = "review"
  BY DEF Init, Stage
<1>2. (auth = "active") = FALSE /\ (removal = "completed") = FALSE /\ object.body = None
  BY DEF Init, NoObject
<1>. QED BY <1>1, <1>2, Zenon DEF Contract!Init

\* The contract sees nothing of a step that leaves its four variables alone.
LEMMA ContractStutter ==
    ASSUME Stage' = Stage, auth' = auth, object'.body = object.body,
           removal' = "completed" <=> removal = "completed"
    PROVE  UNCHANGED Contract!vars
<1>1. ((removal = "completed")') = (removal = "completed")
  OBVIOUS
<1>2. ((auth = "active")') = (auth = "active")
  OBVIOUS
<1>. QED BY <1>1, <1>2, Zenon DEF Contract!vars

LEMMA StageSame ==
    ASSUME version' = version
    PROVE  Stage' = Stage
  BY DEF Stage

\* Revoking, blocking and cancelling withdraw the version; nothing was erased.
LEMMA ContractWithdraw ==
    ASSUME IndInv, NEW terminal \in Withdrawn, StopAdmission(terminal),
           \/ auth = "active" /\ auth' # "active" /\ version \in Blockable
           \/ auth' = auth /\ version \in Cancellable
    PROVE  Contract!Withdraw
<1>1. Stage' = "withdrawn"
  BY DEF StopAdmission, Stage, Withdrawn
<1>2. removal = "not_required"
  BY DEF IndInv, RemovalAgrees, Withdrawn, Blockable, Cancellable
<1>3. removal' \in {"not_required", "pending"}
  BY DEF StopAdmission, ScheduleRemoval
<1>4. ((removal = "completed")') = (removal = "completed")
  BY <1>2, <1>3
<1>5. object' = object
  BY DEF StopAdmission
<1>6. CASE auth = "active" /\ auth' # "active" /\ version \in Blockable
  <2>1. Stage \in {"open", "held", "admitted"}
    BY <1>6 DEF Stage, Blockable, Withdrawn
  <2>2. ((auth = "active")') = FALSE
    BY <1>6
  <2>. QED BY <1>1, <1>4, <1>5, <1>6, <2>1, <2>2, Zenon DEF Contract!Withdraw
<1>7. CASE auth' = auth /\ version \in Cancellable
  <2>1. Stage \in {"review", "open", "held"}
    BY <1>7 DEF Stage, Cancellable, Withdrawn
  <2>2. ((auth = "active")') = (auth = "active")
    BY <1>7
  <2>. QED BY <1>1, <1>4, <1>5, <2>1, <2>2, Zenon DEF Contract!Withdraw
<1>. QED BY <1>6, <1>7

LEMMA ContractStep ==
    ASSUME IndInv, Next
    PROVE  Contract!Next \/ UNCHANGED Contract!vars
<1>0. ASSUME version' = version, auth' = auth, object' = object, removal' = removal
      PROVE  UNCHANGED Contract!vars
  BY <1>0, ContractStutter, StageSame
<1>1. CASE Decide
  <2>1. CASE ReviewActivate
    <3>1. Stage = "review" /\ Stage' = "open"
      BY <2>1 DEF ReviewActivate, Stage
    <3>2. ((auth = "active")') = TRUE
      BY <2>1 DEF ReviewActivate
    <3>3. object'.body = object.body /\ ((removal = "completed")') = (removal = "completed")
      BY <2>1 DEF ReviewActivate
    <3>4. Contract!Grant
      BY <3>1, <3>2, <3>3, Zenon DEF Contract!Grant
    <3>. QED BY <3>4 DEF Contract!Next
  <2>2. CASE ReviewDeny
    <3>1. Stage = "review" /\ Stage' = "rejected"
      BY <2>2 DEF ReviewDeny, Stage, Withdrawn
    <3>2. ((auth = "active")') = (auth = "active")
      BY <2>2 DEF ReviewDeny
    <3>3. object'.body = object.body /\ ((removal = "completed")') = (removal = "completed")
      BY <2>2 DEF ReviewDeny
    <3>4. Contract!Refuse
      BY <3>1, <3>2, <3>3, Zenon DEF Contract!Refuse
    <3>. QED BY <3>4 DEF Contract!Next
  <2>3. CASE ReviewRevoke \/ CancelAdmission
             \/ \E status \in {"expired", "disputed"} : BlockAuthorization(status)
    <3>1. Contract!Withdraw
      BY <2>3, ContractWithdraw DEF ReviewRevoke, CancelAdmission, BlockAuthorization, Withdrawn
    <3>. QED BY <3>1 DEF Contract!Next
  <2>. QED BY <1>1, <2>1, <2>2, <2>3 DEF Decide
<1>2. ASSUME NEW i \in Intents, RejectBeforeStorage(i)
      PROVE  Contract!Next
  <2>1. Stage = "open" /\ Stage' = "rejected"
    BY <1>2 DEF RejectBeforeStorage, IndInv, SingleDelivery, Stage, Withdrawn
  <2>2. ((auth = "active")') = (auth = "active")
    BY <1>2 DEF RejectBeforeStorage
  <2>3. object'.body = object.body /\ ((removal = "completed")') = (removal = "completed")
    BY <1>2 DEF RejectBeforeStorage
  <2>4. Contract!TurnAway
    BY <2>1, <2>2, <2>3, Zenon DEF Contract!TurnAway
  <2>. QED BY <2>4 DEF Contract!Next
<1>3. ASSUME NEW u \in Uploaders, RecordUpload(u)
      PROVE  Contract!Next
  <2>1. Stage = "open" /\ Stage' = "held"
    BY <1>3 DEF RecordUpload, UploadStillValid, Stage
  <2>2. ((auth = "active")') = (auth = "active") /\ (auth = "active") = TRUE
    BY <1>3 DEF RecordUpload, UploadStillValid, AuthorizationIsActive
  <2>3. object'.body = uploader[u].body /\ ((removal = "completed")') = (removal = "completed")
    BY <1>3 DEF RecordUpload
  <2>4. uploader[u].body \in Bodies
    BY <1>3 DEF RecordUpload, IndInv, CallsAgree
  <2>5. Contract!Receive(uploader[u].body)
    BY <2>1, <2>2, <2>3, Zenon DEF Contract!Receive
  <2>. QED BY <2>4, <2>5 DEF Contract!Next
<1>4. ASSUME NEW w \in Workers, Claim(w)
      PROVE  UNCHANGED Contract!vars
  <2>1. CASE ClaimValidation(w)
    <3>1. StartAttempt("validate_admission", w, "read")
      BY <2>1 DEF ClaimValidation
    <3>2. job["validate_admission"].status \in {"pending", "retryable", "claimed"}
      BY <3>1, StartEffect DEF Stages, IndInv
    <3>3. version \in {"quarantined", "validating"} /\ version' = "validating"
      BY <2>1, <3>2 DEF ClaimValidation, IndInv, NoSilentStall
    <3>4. Stage' = Stage
      BY <3>3 DEF Stage
    <3>. QED BY <2>1, <3>4, ContractStutter DEF ClaimValidation
  <2>2. CASE ClaimRemoval(w)
    BY <1>0, <2>2 DEF ClaimRemoval
  <2>. QED BY <1>4, <2>1, <2>2 DEF Claim
<1>5. ASSUME NEW w \in Workers, Run(w)
      PROVE  Contract!Next \/ UNCHANGED Contract!vars
  <2>1. CASE ReadAndInspect(w) \/ LoseLease(w) \/ DeleteObject(w) \/ ObserveAbsence(w)
             \/ AcknowledgeCancel(w) \/ DiscardResult(w)
    BY <1>0, <2>1
    DEF ReadAndInspect, LoseLease, DeleteObject, ObserveAbsence, AcknowledgeCancel, DiscardResult, rows
  <2>2. CASE Admit(w) \/ Reject(w) \/ Postpone(w)
    <3>1. version = "validating" /\ auth = "active"
      BY <2>2
      DEF Admit, Reject, Postpone, ResultCounts, HeldBy, AuthorizationIsActive, IndInv, NoSilentStall
    <3>2. /\ Stage = "held"
          /\ (auth = "active") = TRUE
      BY <3>1 DEF Stage
    <3>3. /\ ((auth = "active")') = (auth = "active")
          /\ ((removal = "completed")') = (removal = "completed")
          /\ object'.body = object.body
      BY <2>2 DEF Admit, Reject, Postpone, IndInv, TypeOK, ObjectRows
    <3>4. CASE Admit(w)
      <4>1. object.body \in SafeBodies
        BY <3>4 DEF Admit, ResultCounts, IndInv, CallsAgree, ResultAgrees
      <4>2. Stage' = "admitted"
        BY <3>4 DEF Admit, Stage, Withdrawn
      <4>3. Contract!Conclude("admitted")
        BY <3>2, <3>3, <4>1, <4>2, Zenon DEF Contract!Conclude
      <4>. QED BY <4>3 DEF Contract!Next
    <3>5. CASE Reject(w)
      <4>1. Stage' = "rejected"
        BY <3>5 DEF Reject, Stage, Withdrawn
      <4>2. "rejected" # "admitted"
        OBVIOUS
      <4>3. Contract!Conclude("rejected")
        BY <3>2, <3>3, <4>1, <4>2, Zenon DEF Contract!Conclude
      <4>. QED BY <4>3 DEF Contract!Next
    <3>6. CASE Postpone(w)
      <4>1. Stage' = Stage
        BY <3>2, <3>6 DEF Postpone, Stage
      <4>. QED BY <3>6, <4>1, ContractStutter DEF Postpone
    <3>. QED BY <2>2, <3>4, <3>5, <3>6
  <2>3. CASE CompleteRemoval(w)
    <3>1. /\ removal = "pending" /\ removal' = "completed"
          /\ version \in Withdrawn /\ version' = version
          /\ object.status # "none"
      BY <2>3 DEF CompleteRemoval, HeldBy, IndInv, RemovalAgrees
    <3>2. Stage = "withdrawn" /\ Stage' = "withdrawn"
      BY <3>1 DEF Stage, Withdrawn
    <3>3. object'.body = object.body /\ object.body # None
      BY <2>3, <3>1, BodiesAssumption
      DEF CompleteRemoval, IndInv, TypeOK, ObjectRows, SingleDelivery, BodiesAssumption
    <3>4. (removal = "completed") = FALSE /\ ((removal = "completed")') = TRUE
          /\ ((auth = "active")') = (auth = "active")
      BY <2>3, <3>1 DEF CompleteRemoval
    <3>5. Contract!Erase
      BY <3>2, <3>3, <3>4, Zenon DEF Contract!Erase
    <3>. QED BY <3>5 DEF Contract!Next
  <2>4. CASE RemovalUnavailable(w)
    <3>1. removal = "pending" /\ removal' \in {"failed", "pending"}
      BY <2>4 DEF RemovalUnavailable, HeldBy, IndInv, RemovalAgrees
    <3>. QED BY <2>4, <3>1, ContractStutter, StageSame DEF RemovalUnavailable
  <2>. QED BY <1>5, <2>1, <2>2, <2>3, <2>4 DEF Run
<1>6. ASSUME NEW s \in Stages, FailExhausted(s)
      PROVE  UNCHANGED Contract!vars
  <2>1. job[s].status = "claimed"
    BY <1>6 DEF FailExhausted, LeaseExpired
  <2>2. CASE s = "validate_admission"
    <3>1. Stage' = Stage
      BY <1>6, <2>1, <2>2 DEF FailExhausted, IndInv, NoSilentStall, Stage
    <3>. QED BY <1>6, <2>2, <3>1, ContractStutter DEF FailExhausted
  <2>3. CASE s = "remove_quarantine_object"
    <3>1. removal = "pending" /\ removal' = "failed"
      BY <1>6, <2>1, <2>3 DEF FailExhausted, IndInv, RemovalAgrees
    <3>. QED BY <1>6, <2>3, <3>1, ContractStutter, StageSame DEF FailExhausted
  <2>. QED BY <2>2, <2>3 DEF Stages
<1>7. CASE \E i \in Intents : CreateUploadIntent(i) \/ UploadExpired(i)
  BY <1>0, <1>7 DEF CreateUploadIntent, UploadExpired
<1>8. CASE \/ \E u \in Uploaders, i \in Intents, b \in Bodies : ClaimIntent(u, i, b)
           \/ CancelBlockedValidation
           \/ \E s \in Sweepers : Sweep(s)
           \/ Lapse
           \/ Crash
  BY <1>0, <1>8
  DEF ClaimIntent, CancelBlockedValidation, Sweep, ListLocators, QueryInventory, DeleteOrphan, CheckOrphan,
      ReleaseOrphanClaim, EndPass, Lapse, RightsLapse, IntentLapse, ClaimLapse, LeaseLapse, Crash, CrashUpload,
      CrashWorker, CrashSweeper, rows
<1>9. ASSUME NEW u \in Uploaders, Upload(u), ~RecordUpload(u)
      PROVE  UNCHANGED Contract!vars
  BY <1>0, <1>9
  DEF Upload, StoragePut, StoragePutFails, ReleaseClaim, DiscardUpload, CleanupOrphan, rows
<1>. QED
  BY <1>1, <1>2, <1>3, <1>4, <1>5, <1>6, <1>7, <1>8, <1>9 DEF Next, Step, Target

\* Source admission implements AdmissionContract: one body per version, taken
\* under a granted right, admitted only when safe and still granted, erased only
\* after withdrawal.
THEOREM AdmissionImplementsContract == Spec => ImplementsContract
<1>1. IndInv /\ [Next]_vars => [Contract!Next]_Contract!vars
  <2>1. IndInv /\ UNCHANGED vars => UNCHANGED Contract!vars
    <3>. SUFFICES ASSUME UNCHANGED vars PROVE UNCHANGED Contract!vars
      OBVIOUS
    <3>. QED BY ContractStutter, StageSame DEF vars
  <2>. QED BY <2>1, ContractStep
<1>. QED BY <1>1, ContractInit, InvariantHolds, PTL DEF Spec, ImplementsContract, Contract!Spec

=============================================================================
