------------------------- MODULE IngestionRunProofs -------------------------
(***************************************************************************)
(* Proofs about IngestionRun for any sets of runs, calls, worker ids and   *)
(* outputs and any bound on attempts: IndInv is an inductive invariant, the *)
(* safety properties follow from it, and ingestion implements              *)
(* IngestionContract.                                                      *)
(***************************************************************************)
EXTENDS IngestionRun, TLAPS

-----------------------------------------------------------------------------
(* Type correctness.                                                       *)

LEMMA IdsType ==
    ASSUME NEW c \in Calls
    PROVE  Strip[WorkerId[c]] \in Ids /\ WorkerId[c] \in Ids
  BY DEF Ids

LEMMA ClosedType ==
    ASSUME TypeOK, NEW r \in Runs
    PROVE  Closed(r, "retryable") \in [Attempts -> Outcomes]
  BY DEF Closed, TypeOK, Outcomes

\* The run a checked call holds, and what the checks left standing.
LEMMA CheckedRun ==
    ASSUME TypeOK, ChecksStand, CallsCarry, NEW c \in Calls, call[c].checked
    PROVE  /\ call[c].run \in Runs
           /\ \A d \in Calls : call[d].checked /\ call[d].run = call[c].run => d = c
           /\ call[c].pc = "claim" =>
                /\ run[call[c].run].status \in {"queued", "retryable"} \/ LeaseExpired(call[c].run)
                /\ run[call[c].run].attempts < MaxAttempts
           /\ call[c].pc # "claim" =>
                run[call[c].run].status \in Stage(call[c].pc) /\ Owns(c)
<1>1. call[c].pc # "idle"
  BY DEF ChecksStand, Stands
<1>2. call[c].run \in Runs
  BY <1>1 DEF CallsCarry, Carries
<1>. QED BY <1>2 DEF ChecksStand, Stands

LEMMA NextAttempt ==
    ASSUME TypeOK, NEW r \in Runs, run[r].attempts < MaxAttempts
    PROVE  run[r].attempts \in Nat /\ run[r].attempts + 1 \in 1 .. MaxAttempts
  BY AttemptsAssumption DEF AttemptsAssumption, TypeOK, RunRows

\* The row of one run is saved.
LEMMA BecomesType ==
    ASSUME TypeOK, NEW r \in Runs, NEW row \in RunRows, Becomes(r, row)
    PROVE  /\ run' \in [Runs -> RunRows]
           /\ run'[r] = row
           /\ \A q \in Runs : q # r => run'[q] = run[q]
  BY DEF Becomes, TypeOK

\* One call goes on.
LEMMA GoesType ==
    ASSUME TypeOK, NEW c \in Calls, NEW state \in CallStates, Goes(c, state)
    PROVE  /\ call' \in [Calls -> CallStates]
           /\ call'[c] = state
           /\ \A d \in Calls : d # c => call'[d] = call[d]
  BY SMTT(40) DEF Goes, TypeOK

\* The states a call goes on in.
LEMMA StateTypes ==
    ASSUME TypeOK, NEW c \in Calls
    PROVE  /\ IdleCall \in CallStates
           /\ call[c] \in CallStates
           /\ \A r \in Runs :
                [call[c] EXCEPT !.pc = "claim", !.checked = TRUE, !.run = r] \in CallStates
           /\ \A n \in 1 .. MaxAttempts :
                [call[c] EXCEPT !.pc = "extracting", !.checked = FALSE, !.attempt = n] \in CallStates
           /\ [call[c] EXCEPT !.checked = TRUE] \in CallStates
           /\ \A failure \in {"retryable", "permanent", "rights"} :
                [call[c] EXCEPT !.pc = "finish", !.failure = failure] \in CallStates
           /\ \A work \in {"extract", "normalize", "persist"} :
                [call[c] EXCEPT !.pc = work, !.checked = FALSE] \in CallStates
           /\ [call[c] EXCEPT !.pc = "normalizing"] \in CallStates
           /\ \A pages \in Projections :
                [call[c] EXCEPT !.pc = "quality_check", !.pages = pages] \in CallStates
<1>1. IdleCall \in CallStates
  BY AttemptsAssumption DEF IdleCall, CallStates, AttemptsAssumption
<1>2. call[c] \in CallStates
  BY DEF TypeOK
<1>3. \A n \in 1 .. MaxAttempts : n \in 0 .. MaxAttempts
  BY AttemptsAssumption DEF AttemptsAssumption
<1>. QED BY <1>1, <1>2, <1>3, ZenonT(60) DEF CallStates

\* The rows a run is saved in.
LEMMA RowTypes ==
    ASSUME TypeOK, NEW r \in Runs
    PROVE  /\ run[r] \in RunRows
           /\ [run[r] EXCEPT !.status = "queued"] \in RunRows
           /\ [run[r] EXCEPT !.live = FALSE] \in RunRows
           /\ \A status \in Open \cup Terminal : Unleased(r, status) \in RunRows
           /\ \A status \in Working : [run[r] EXCEPT !.status = status, !.live = TRUE] \in RunRows
           /\ \A id \in Ids, n \in 1 .. MaxAttempts :
                [run[r] EXCEPT !.status = "claimed", !.owner = id, !.live = TRUE, !.attempts = n]
                    \in RunRows
           /\ \A pages \in Projections :
                [Unleased(r, "ready_for_generation") EXCEPT !.output = pages] \in RunRows
<1>1. run[r] \in RunRows
  BY DEF TypeOK
<1>2. \A n \in 1 .. MaxAttempts : n \in 0 .. MaxAttempts
  BY AttemptsAssumption DEF AttemptsAssumption
<1>. QED BY <1>1, <1>2 DEF RunRows, Unleased, Open, Terminal, Working

\* What a step leaves alone keeps its type.
LEMMA RowsKept ==
    ASSUME TypeOK, UNCHANGED <<rights, run, attempt, artifacts>>, call' \in [Calls -> CallStates]
    PROVE  TypeOK'
  BY DEF TypeOK, rights

LEMMA RightsKept ==
    ASSUME TypeOK, UNCHANGED rights, run' \in [Runs -> RunRows],
           attempt' \in [Runs -> [Attempts -> Outcomes]],
           artifacts' \in Projections \cup {None}, call' \in [Calls -> CallStates]
    PROVE  TypeOK'
  BY DEF TypeOK, rights

LEMMA CheckType ==
    ASSUME TypeOK, NEW c \in Calls, NEW pc, NEW status, Check(c, pc, status)
    PROVE  TypeOK'
<1>1. call' \in [Calls -> CallStates]
  BY GoesType, StateTypes DEF Check, PassChecks, FindRightsEnded, Conflict, GiveUp
<1>. QED BY <1>1, RowsKept, SMTT(40) DEF Check

LEMMA AdvanceType ==
    ASSUME TypeOK, ChecksStand, CallsCarry, NEW c \in Calls, NEW status \in Working,
           NEW work \in {"extract", "normalize", "persist"}, AdvanceCommit(c, status, work)
    PROVE  TypeOK'
<1>1. call' \in [Calls -> CallStates]
  BY GoesType, StateTypes DEF AdvanceCommit
<1>2. call[c].run \in Runs
  BY CheckedRun DEF AdvanceCommit
<1>3. run' \in [Runs -> RunRows]
  BY <1>2, BecomesType, RowTypes DEF AdvanceCommit
<1>4. UNCHANGED <<rights, attempt, artifacts>>
  BY DEF AdvanceCommit
<1>. QED BY <1>1, <1>3, <1>4, RightsKept, SMTT(40) DEF TypeOK

LEMMA TypeStep ==
    ASSUME IndInv, Next
    PROVE  TypeOK'
<1>0. TypeOK /\ ChecksStand /\ CallsCarry
  BY DEF IndInv
<1>. USE <1>0
<1>1. CASE Decide
  BY <1>1
  DEF Decide, RequestAuthorization, ActivateAuthorization, DenyAuthorization, RevokeAuthorization,
      Decision, BlockVersion, RightsLapse, TypeOK
<1>2. ASSUME NEW r \in Runs, StartIngestion(r) \/ LeaseLapse(r)
      PROVE  TypeOK'
  <2>1. run' \in [Runs -> RunRows]
    BY <1>2, BecomesType, RowTypes DEF StartIngestion, LeaseLapse
  <2>2. UNCHANGED <<rights, attempt, artifacts, call>>
    BY <1>2 DEF StartIngestion, LeaseLapse
  <2>. QED BY <2>1, <2>2, RightsKept DEF TypeOK
<1>3. ASSUME NEW r \in Runs, ClaimExhausted(r) \/ ClaimBlocked(r)
      PROVE  TypeOK'
  <2>1. run' \in [Runs -> RunRows]
    BY <1>3, BecomesType, RowTypes DEF ClaimExhausted, ClaimBlocked, Terminal
  <2>2. attempt' \in [Runs -> [Attempts -> Outcomes]]
    BY <1>3, ClosedType, SMTT(40) DEF ClaimExhausted, ClaimBlocked, TypeOK
  <2>3. UNCHANGED <<rights, artifacts, call>>
    BY <1>3 DEF ClaimExhausted, ClaimBlocked
  <2>. QED BY <2>1, <2>2, <2>3, RightsKept DEF TypeOK
<1>4. ASSUME NEW c \in Calls, NEW r \in Runs, ClaimCheck(c, r)
      PROVE  TypeOK'
  <2>1. call' \in [Calls -> CallStates]
    BY <1>4, GoesType, StateTypes, ZenonT(60) DEF ClaimCheck
  <2>. QED BY <1>4, <2>1, RowsKept DEF ClaimCheck
<1>5. ASSUME NEW c \in Calls, Crash(c)
      PROVE  TypeOK'
  <2>1. call' \in [Calls -> CallStates]
    BY <1>5, GoesType, StateTypes DEF Crash
  <2>. QED BY <1>5, <2>1, RowsKept DEF Crash
<1>6. ASSUME NEW c \in Calls, Continue(c)
      PROVE  TypeOK'
  <2>1. CASE ClaimCommit(c)
    <3>1. /\ call[c].run \in Runs
          /\ run[call[c].run].attempts + 1 \in 1 .. MaxAttempts
      BY <2>1, CheckedRun, NextAttempt DEF ClaimCommit, ChecksStand, Stands
    <3>2. run' \in [Runs -> RunRows]
      BY <2>1, <3>1, IdsType, BecomesType, RowTypes DEF ClaimCommit
    <3>3. attempt' \in [Runs -> [Attempts -> Outcomes]]
      BY <2>1, <3>1, ClosedType DEF ClaimCommit, TypeOK, Outcomes
    <3>4. call' \in [Calls -> CallStates]
      BY <2>1, <3>1, GoesType, StateTypes DEF ClaimCommit
    <3>5. UNCHANGED <<rights, artifacts>>
      BY <2>1 DEF ClaimCommit
    <3>. QED BY <3>2, <3>3, <3>4, <3>5, RightsKept DEF TypeOK
  <2>2. CASE AdvanceCheck(c) \/ PersistCheck(c)
    BY <2>2, CheckType DEF AdvanceCheck, PersistCheck
  <2>3. CASE Advance(c)
    BY <2>3, AdvanceType DEF Advance, Working
  <2>4. CASE Extract(c) \/ Normalize(c) \/ PersistMismatch(c) \/ FinishConflict(c)
    <3>1. call' \in [Calls -> CallStates]
      BY <2>4, GoesType, StateTypes DEF Extract, Normalize, PersistMismatch, FinishConflict, GiveUp
    <3>2. UNCHANGED <<rights, run, attempt, artifacts>>
      BY <2>4 DEF Extract, Normalize, PersistMismatch, FinishConflict
    <3>. QED BY <3>1, <3>2, RowsKept, SMTT(40)
  <2>5. CASE RequireOcr(c)
    <3>1. call' \in [Calls -> CallStates]
      BY <2>5, GoesType, StateTypes DEF RequireOcr, GiveUp
    <3>2. auth' \in [Operations -> {"none", "requested", "active", "denied", "revoked"}]
      BY <2>5 DEF RequireOcr, TypeOK
    <3>3. UNCHANGED <<admitted, rightsLive, run, attempt, artifacts>>
      BY <2>5 DEF RequireOcr
    <3>. QED BY <3>1, <3>2, <3>3, SMTT(40) DEF TypeOK
  <2>6. CASE PersistCommit(c)
    <3>1. call[c].run \in Runs /\ call[c].pages \in Projections
      BY <2>6, CheckedRun DEF PersistCommit, CallsCarry, Carries
    <3>2. run' \in [Runs -> RunRows]
      BY <2>6, <3>1, BecomesType, RowTypes DEF PersistCommit
    <3>3. attempt' \in [Runs -> [Attempts -> Outcomes]]
      BY <2>6 DEF PersistCommit, TypeOK, Outcomes
    <3>4. call' \in [Calls -> CallStates]
      BY <2>6, GoesType, StateTypes DEF PersistCommit
    <3>5. UNCHANGED rights /\ artifacts' = call[c].pages
      BY <2>6 DEF PersistCommit
    <3>. QED BY <3>1, <3>2, <3>3, <3>4, <3>5, RightsKept
  <2>7. CASE FinishFailure(c)
    <3>1. call[c].run \in Runs
      BY <2>7 DEF FinishFailure, Begins, CallsCarry, Carries
    <3>2. FailedStatus(call[c].run, call[c].failure) \in {"rights_blocked", "failed", "retryable"}
      BY SMTT(40) DEF FailedStatus
    <3>3. run' \in [Runs -> RunRows]
      BY <2>7, <3>1, <3>2, BecomesType, RowTypes DEF FinishFailure, Terminal, Open
    <3>4. attempt' \in [Runs -> [Attempts -> Outcomes]]
      BY <2>7, <3>2 DEF FinishFailure, TypeOK, Outcomes
    <3>5. call' \in [Calls -> CallStates]
      BY <2>7, GoesType, StateTypes DEF FinishFailure
    <3>6. UNCHANGED <<rights, artifacts>>
      BY <2>7 DEF FinishFailure
    <3>. QED BY <3>3, <3>4, <3>5, <3>6, RightsKept DEF TypeOK
  <2>. QED BY <1>6, <2>1, <2>2, <2>3, <2>4, <2>5, <2>6, <2>7 DEF Continue
<1>. QED BY <1>1, <1>2, <1>3, <1>4, <1>5, <1>6 DEF Next, Claim

-----------------------------------------------------------------------------
(* What each step does to the one run it touches.                          *)

\* A step changes the row and the attempts of one run at most.
RowOnly(r) == \A q \in Runs : q # r => run'[q] = run[q] /\ attempt'[q] = attempt[q]

StartSaved(r) ==
    /\ RowOnly(r)
    /\ run[r].status = "none" /\ run'[r].status = "queued"
    /\ run'[r].owner = run[r].owner
    /\ run'[r].live = run[r].live
    /\ run'[r].attempts = run[r].attempts
    /\ run'[r].output = run[r].output
    /\ attempt'[r] = attempt[r]
    /\ UNCHANGED <<rights, artifacts, call>>

LEMMA StartEffect ==
    ASSUME IndInv, NEW r \in Runs, StartIngestion(r)
    PROVE  StartSaved(r)
<1>1. /\ run'[r] = [run[r] EXCEPT !.status = "queued"]
      /\ \A q \in Runs : q # r => run'[q] = run[q]
      /\ run[r] \in RunRows
  BY BecomesType, RowTypes DEF StartIngestion, IndInv
<1>2. run[r].status = "none" /\ UNCHANGED <<rights, artifacts, call>> /\ UNCHANGED attempt
  BY DEF StartIngestion
<1>. QED BY <1>1, <1>2 DEF RowOnly, RunRows, StartSaved

LapseSaved(r) ==
    /\ RowOnly(r)
    /\ run'[r].status = run[r].status
    /\ run'[r].owner = run[r].owner
    /\ ~run'[r].live
    /\ run'[r].attempts = run[r].attempts
    /\ run'[r].output = run[r].output
    /\ attempt'[r] = attempt[r]
    /\ UNCHANGED <<rights, artifacts, call>>

LEMMA LapseEffect ==
    ASSUME IndInv, NEW r \in Runs, LeaseLapse(r)
    PROVE  LapseSaved(r)
<1>1. /\ run'[r] = [run[r] EXCEPT !.live = FALSE]
      /\ \A q \in Runs : q # r => run'[q] = run[q]
      /\ run[r] \in RunRows
  BY BecomesType, RowTypes DEF LeaseLapse, IndInv
<1>2. UNCHANGED <<rights, artifacts, call>> /\ UNCHANGED attempt
  BY DEF LeaseLapse
<1>. QED BY <1>1, <1>2 DEF RowOnly, RunRows, LapseSaved

\* _claim ends the run.
EndSaved(r, status) ==
    /\ RowOnly(r)
    /\ run[r].status \in Open /\ run'[r].status = status
    /\ run'[r].owner = None
    /\ ~run'[r].live
    /\ run'[r].attempts = run[r].attempts
    /\ run'[r].output = run[r].output
    /\ \A n \in Attempts :
         attempt'[r][n] = IF attempt[r][n] = "running" THEN "retryable" ELSE attempt[r][n]

LEMMA ClaimEndsEffect ==
    ASSUME IndInv, NEW r \in Runs, NEW status \in {"failed", "rights_blocked"},
           Takeable(r), Becomes(r, Unleased(r, status)),
           attempt' = [attempt EXCEPT ![r] = Closed(r, "retryable")]
    PROVE  EndSaved(r, status)
<1>1. /\ run'[r] = Unleased(r, status)
      /\ \A q \in Runs : q # r => run'[q] = run[q]
      /\ run[r] \in RunRows
  BY BecomesType, RowTypes DEF IndInv, Terminal
<1>2. /\ attempt'[r] = Closed(r, "retryable")
      /\ \A q \in Runs : q # r => attempt'[q] = attempt[q]
  BY DEF IndInv, TypeOK
<1>3. run[r].status \in Open
  BY DEF Takeable, LeaseExpired, Open
<1>. QED BY <1>1, <1>2, <1>3 DEF RowOnly, RunRows, Unleased, Closed, EndSaved

\* _claim opens an attempt.
ClaimSaved(c, r) ==
    /\ r \in Runs /\ r = call[c].run /\ RowOnly(r)
    /\ run[r].status \in Open /\ run'[r].status = "claimed"
    /\ run'[r].owner = Strip[WorkerId[c]]
    /\ run[r].attempts \in Nat /\ run[r].attempts + 1 \in Attempts
    /\ run'[r].attempts = run[r].attempts + 1
    /\ run'[r].output = run[r].output
    /\ \A n \in Attempts :
         attempt'[r][n] = IF n = run[r].attempts + 1 THEN "running"
                          ELSE IF attempt[r][n] = "running" THEN "retryable"
                          ELSE attempt[r][n]

LEMMA ClaimEffect ==
    ASSUME IndInv, NEW c \in Calls, ClaimCommit(c)
    PROVE  \E r \in Runs : ClaimSaved(c, r)
<1>. SUFFICES ASSUME NEW r, r = call[c].run
             PROVE  r \in Runs /\ ClaimSaved(c, r)
  OBVIOUS
<1>1. /\ r \in Runs
      /\ run[r].status \in {"queued", "retryable"} \/ LeaseExpired(r)
      /\ run[r].attempts < MaxAttempts
  BY CheckedRun DEF ClaimCommit, IndInv, ChecksStand, Stands
<1>2. run[r].attempts \in Nat /\ run[r].attempts + 1 \in 1 .. MaxAttempts
  BY <1>1, NextAttempt DEF IndInv
<1>3. [run[r] EXCEPT !.status = "claimed", !.owner = Strip[WorkerId[c]],
                     !.live = TRUE, !.attempts = run[r].attempts + 1] \in RunRows
  BY <1>1, <1>2, RowTypes, IdsType DEF IndInv
<1>4. /\ run'[r] = [run[r] EXCEPT !.status = "claimed", !.owner = Strip[WorkerId[c]],
                                  !.live = TRUE, !.attempts = run[r].attempts + 1]
      /\ \A q \in Runs : q # r => run'[q] = run[q]
      /\ run[r] \in RunRows
  <2>1. Becomes(r, [run[r] EXCEPT !.status = "claimed", !.owner = Strip[WorkerId[c]],
                                  !.live = TRUE, !.attempts = run[r].attempts + 1])
    BY Zenon DEF ClaimCommit
  <2>2. TypeOK
    BY DEF IndInv
  <2>. QED BY <1>1, <1>3, <2>1, <2>2, BecomesType, RowTypes
<1>5. /\ attempt'[r] = [Closed(r, "retryable") EXCEPT ![run[r].attempts + 1] = "running"]
      /\ \A q \in Runs : q # r => attempt'[q] = attempt[q]
  BY <1>1 DEF ClaimCommit, IndInv, TypeOK
<1>6. run[r].status \in Open
  BY <1>1 DEF LeaseExpired, Open
<1>7. \A n \in Attempts :
        attempt'[r][n] = IF n = run[r].attempts + 1 THEN "running"
                         ELSE IF attempt[r][n] = "running" THEN "retryable"
                         ELSE attempt[r][n]
  BY <1>5 DEF Closed
<1>8. /\ run'[r].status = "claimed"
      /\ run'[r].owner = Strip[WorkerId[c]]
      /\ run'[r].attempts = run[r].attempts + 1
      /\ run'[r].output = run[r].output
  BY <1>4 DEF RunRows
<1>9. RowOnly(r)
  BY <1>4, <1>5 DEF RowOnly
<1>. QED BY <1>1, <1>2, <1>6, <1>7, <1>8, <1>9 DEF Attempts, ClaimSaved

\* _advance commits the next stage.
AdvanceSaved(c, r, status) ==
    /\ r \in Runs /\ r = call[c].run /\ RowOnly(r)
    /\ run[r].status \in Stage(status) /\ run[r].owner = WorkerId[c]
    /\ run'[r].status = status
    /\ run'[r].owner = run[r].owner
    /\ run'[r].attempts = run[r].attempts
    /\ run'[r].output = run[r].output
    /\ attempt'[r] = attempt[r]

LEMMA AdvanceEffect ==
    ASSUME IndInv, NEW c \in Calls, NEW status \in Working \ {"claimed"}, NEW work,
           AdvanceCommit(c, status, work)
    PROVE  \E r \in Runs : AdvanceSaved(c, r, status)
<1>. SUFFICES ASSUME NEW r, r = call[c].run
             PROVE  r \in Runs /\ AdvanceSaved(c, r, status)
  OBVIOUS
<1>1. r \in Runs /\ run[r].status \in Stage(status) /\ run[r].owner = WorkerId[c]
  BY CheckedRun DEF AdvanceCommit, IndInv, Owns, Working
<1>2. /\ run'[r] = [run[r] EXCEPT !.status = status, !.live = TRUE]
      /\ \A q \in Runs : q # r => run'[q] = run[q]
      /\ run[r] \in RunRows
  BY <1>1, BecomesType, RowTypes DEF AdvanceCommit, IndInv
<1>3. UNCHANGED attempt
  BY DEF AdvanceCommit
<1>. QED BY <1>1, <1>2, <1>3 DEF RowOnly, RunRows, AdvanceSaved

\* _persist_ready commits.
PersistSaved(c, r) ==
    /\ r \in Runs /\ r = call[c].run /\ RowOnly(r)
    /\ run[r].status = "quality_check" /\ run'[r].status = "ready_for_generation"
    /\ run'[r].owner = None
    /\ ~run'[r].live
    /\ run'[r].attempts = run[r].attempts
    /\ call[c].pages \in Projections
    /\ run'[r].output = call[c].pages
    /\ \A n \in Attempts :
         attempt'[r][n] = IF n = run[r].attempts THEN "completed" ELSE attempt[r][n]

LEMMA PersistEffect ==
    ASSUME IndInv, NEW c \in Calls, PersistCommit(c)
    PROVE  \E r \in Runs : PersistSaved(c, r)
<1>. SUFFICES ASSUME NEW r, r = call[c].run
             PROVE  r \in Runs /\ PersistSaved(c, r)
  OBVIOUS
<1>1. r \in Runs /\ run[r].status = "quality_check" /\ call[c].pages \in Projections
  BY CheckedRun DEF PersistCommit, IndInv, Stage, CallsCarry, Carries
<1>2. /\ run'[r] = [Unleased(r, "ready_for_generation") EXCEPT !.output = call[c].pages]
      /\ \A q \in Runs : q # r => run'[q] = run[q]
      /\ run[r] \in RunRows
  BY <1>1, BecomesType, RowTypes DEF PersistCommit, IndInv
<1>3. /\ attempt'[r] = [attempt[r] EXCEPT ![run[r].attempts] = "completed"]
      /\ \A q \in Runs : q # r => attempt'[q] = attempt[q]
      /\ attempt[r] \in [Attempts -> Outcomes]
  BY <1>1, SMTT(40) DEF PersistCommit, IndInv, TypeOK
<1>4. \A n \in Attempts :
        attempt'[r][n] = IF n = run[r].attempts THEN "completed" ELSE attempt[r][n]
  BY <1>3
<1>5. /\ run'[r].status = "ready_for_generation" /\ run'[r].owner = None
      /\ ~run'[r].live
      /\ run'[r].attempts = run[r].attempts
      /\ run'[r].output = call[c].pages
  BY <1>2, SMTT(40) DEF RunRows, Unleased
<1>. QED BY <1>1, <1>2, <1>3, <1>4, <1>5 DEF RowOnly, PersistSaved

\* _finish_failure commits.
FinishSaved(c, r) ==
    /\ r \in Runs /\ r = call[c].run /\ RowOnly(r)
    /\ run[r].status \in Working
    /\ run'[r].status \in {"rights_blocked", "failed", "retryable"}
    /\ run'[r].status = "rights_blocked" => call[c].failure = "rights"
    /\ run'[r].status = "retryable" => run[r].attempts < MaxAttempts
    /\ run'[r].owner = None
    /\ ~run'[r].live
    /\ run'[r].attempts = run[r].attempts
    /\ run'[r].output = run[r].output
    /\ \A n \in Attempts :
         attempt'[r][n] = IF n = run[r].attempts THEN run'[r].status ELSE attempt[r][n]

LEMMA FinishEffect ==
    ASSUME IndInv, NEW c \in Calls, FinishFailure(c)
    PROVE  \E r \in Runs : FinishSaved(c, r)
<1>. SUFFICES ASSUME NEW r, r = call[c].run
             PROVE  r \in Runs /\ FinishSaved(c, r)
  OBVIOUS
<1>. DEFINE status == FailedStatus(r, call[c].failure)
<1>1. r \in Runs /\ run[r].status \in Working
  BY DEF FinishFailure, Begins, MayFinish, IndInv, CallsCarry, Carries
<1>2. run[r].attempts \in Nat /\ MaxAttempts \in Nat
  BY <1>1, AttemptsAssumption DEF IndInv, TypeOK, RunRows, AttemptsAssumption
<1>3. /\ status \in {"rights_blocked", "failed", "retryable"}
      /\ status = "rights_blocked" => call[c].failure = "rights"
      /\ status = "retryable" => run[r].attempts < MaxAttempts
  BY <1>2, SMTT(40) DEF FailedStatus
<1>4. /\ run'[r] = Unleased(r, status)
      /\ \A q \in Runs : q # r => run'[q] = run[q]
      /\ run[r] \in RunRows
  BY <1>1, <1>3, BecomesType, RowTypes, ZenonT(60) DEF FinishFailure, IndInv, Open, Terminal
<1>5. /\ attempt'[r] = [attempt[r] EXCEPT ![run[r].attempts] = status]
      /\ \A q \in Runs : q # r => attempt'[q] = attempt[q]
      /\ attempt[r] \in [Attempts -> Outcomes]
  BY <1>1 DEF FinishFailure, IndInv, TypeOK
<1>6. /\ run'[r].status = status /\ run'[r].owner = None
      /\ ~run'[r].live
      /\ run'[r].attempts = run[r].attempts
      /\ run'[r].output = run[r].output
  BY <1>4 DEF RunRows, Unleased
<1>7. \A n \in Attempts :
        attempt'[r][n] = IF n = run[r].attempts THEN status ELSE attempt[r][n]
  BY <1>5
<1>. QED BY <1>1, <1>3, <1>4, <1>5, <1>6, <1>7 DEF RowOnly, FinishSaved

\* The steps that touch rights or calls only.
Quiet ==
    \/ Decide
    \/ \E c \in Calls :
          \/ \E r \in Runs : ClaimCheck(c, r)
          \/ AdvanceCheck(c) \/ PersistCheck(c)
          \/ Extract(c) \/ Normalize(c) \/ RequireOcr(c)
          \/ PersistMismatch(c) \/ FinishConflict(c) \/ Crash(c)

LEMMA QuietKeeps ==
    ASSUME Quiet
    PROVE  UNCHANGED <<run, attempt, artifacts>>
<1>1. CASE Decide
  BY <1>1
  DEF Decide, RequestAuthorization, ActivateAuthorization, DenyAuthorization, RevokeAuthorization,
      Decision, BlockVersion, RightsLapse
<1>2. ASSUME NEW c \in Calls, NEW pc, NEW status, Check(c, pc, status)
      PROVE  UNCHANGED <<run, attempt, artifacts>>
  BY <1>2 DEF Check
<1>3. ASSUME NEW c \in Calls, AdvanceCheck(c) \/ PersistCheck(c)
      PROVE  UNCHANGED <<run, attempt, artifacts>>
  BY <1>2, <1>3 DEF AdvanceCheck, PersistCheck
<1>4. ASSUME NEW c \in Calls, NEW r \in Runs, ClaimCheck(c, r)
      PROVE  UNCHANGED <<run, attempt, artifacts>>
  BY <1>4 DEF ClaimCheck
<1>5. ASSUME NEW c \in Calls,
             \/ Extract(c) \/ Normalize(c) \/ RequireOcr(c)
             \/ PersistMismatch(c) \/ FinishConflict(c) \/ Crash(c)
      PROVE  UNCHANGED <<run, attempt, artifacts>>
  BY <1>5 DEF Extract, Normalize, RequireOcr, PersistMismatch, FinishConflict, Crash
<1>. QED BY <1>1, <1>3, <1>4, <1>5 DEF Quiet

\* _claim ends a run in two ways.
ClaimEnds(r, status) ==
    /\ Takeable(r)
    /\ Becomes(r, Unleased(r, status))
    /\ attempt' = [attempt EXCEPT ![r] = Closed(r, "retryable")]
    /\ status = "rights_blocked" => ~ExtractActive
    /\ status = "failed" => run[r].attempts >= MaxAttempts
    /\ UNCHANGED <<rights, artifacts, call>>

\* The ways a call commits a stage.
AdvanceSteps == {<<"extracting", "extract">>, <<"normalizing", "normalize">>,
                 <<"quality_check", "persist">>}

LEMMA NextCases ==
    ASSUME Next
    PROVE  \/ Quiet
           \/ \E r \in Runs : StartIngestion(r) \/ LeaseLapse(r)
           \/ \E r \in Runs, status \in {"failed", "rights_blocked"} : ClaimEnds(r, status)
           \/ \E c \in Calls :
                 \/ ClaimCommit(c)
                 \/ \E step \in AdvanceSteps : AdvanceCommit(c, step[1], step[2])
                 \/ PersistCommit(c)
                 \/ FinishFailure(c)
<1>1. ASSUME NEW r \in Runs, ClaimExhausted(r) \/ ClaimBlocked(r)
      PROVE  \E status \in {"failed", "rights_blocked"} : ClaimEnds(r, status)
  BY <1>1 DEF ClaimExhausted, ClaimBlocked, ClaimEnds
<1>2. ASSUME NEW c \in Calls, Advance(c)
      PROVE  \E step \in AdvanceSteps : AdvanceCommit(c, step[1], step[2])
  BY <1>2, Zenon DEF Advance, AdvanceSteps
<1>. QED BY <1>1, <1>2 DEF Next, Claim, Continue, Quiet

-----------------------------------------------------------------------------
(* Leases, attempts and runs.                                              *)

LEMMA StoryStep ==
    ASSUME IndInv, Next
    PROVE  LeaseDiscipline' /\ AttemptsExplainRun'
<1>1. /\ \A r \in Runs : RunLeased(r) /\ RunExplained(r)
      /\ \A r \in Runs : run[r].attempts \in Nat /\ attempt[r] \in [Attempts -> Outcomes]
      /\ \A n \in Attempts : n \in Nat
  BY DEF IndInv, LeaseDiscipline, AttemptsExplainRun, TypeOK, RunRows, Attempts
<1>2. ASSUME NEW r \in Runs, run'[r] = run[r], attempt'[r] = attempt[r]
      PROVE  RunLeased(r)' /\ RunExplained(r)'
  BY <1>1, <1>2 DEF RunLeased, RunExplained
<1>3. ASSUME NEW r \in Runs, RowOnly(r), RunLeased(r)', RunExplained(r)'
      PROVE  LeaseDiscipline' /\ AttemptsExplainRun'
  BY <1>2, <1>3 DEF RowOnly, LeaseDiscipline, AttemptsExplainRun
<1>4. CASE Quiet
  BY <1>2, <1>4, QuietKeeps DEF LeaseDiscipline, AttemptsExplainRun
<1>5. ASSUME NEW r \in Runs, StartIngestion(r)
      PROVE  LeaseDiscipline' /\ AttemptsExplainRun'
  <2>1. RunLeased(r)' /\ RunExplained(r)'
    BY <1>1, <1>5, StartEffect DEF StartSaved, RunLeased, RunExplained, Working
  <2>. QED BY <1>3, <1>5, <2>1, StartEffect DEF StartSaved
<1>6. ASSUME NEW r \in Runs, LeaseLapse(r)
      PROVE  LeaseDiscipline' /\ AttemptsExplainRun'
  <2>1. RunLeased(r)' /\ RunExplained(r)'
    BY <1>1, <1>6, LapseEffect DEF LapseSaved, RunLeased, RunExplained
  <2>. QED BY <1>3, <1>6, <2>1, LapseEffect DEF LapseSaved
<1>7. ASSUME NEW r \in Runs, NEW status \in {"failed", "rights_blocked"}, ClaimEnds(r, status)
      PROVE  LeaseDiscipline' /\ AttemptsExplainRun'
  <2>1. EndSaved(r, status)
    BY <1>7, ClaimEndsEffect DEF ClaimEnds
  <2>2. RunLeased(r)'
    BY <1>1, <2>1 DEF EndSaved, RunLeased, Working, Open
  <2>3. RunExplained(r)'
    BY <1>1, <2>1 DEF EndSaved, RunExplained, Working, Open
  <2>. QED BY <1>3, <2>1, <2>2, <2>3 DEF EndSaved
<1>8. ASSUME NEW c \in Calls, ClaimCommit(c)
      PROVE  LeaseDiscipline' /\ AttemptsExplainRun'
  <2>0. PICK r \in Runs : ClaimSaved(c, r)
    BY <1>8, ClaimEffect
  <2>1. run'[r].owner \in Ids /\ None \notin Ids
    BY <2>0, IdsType, NoneAssumption DEF ClaimSaved, NoneAssumption
  <2>2. RunLeased(r)'
    BY <1>1, <2>0, <2>1 DEF ClaimSaved, RunLeased, Working, Open
  <2>3. RunExplained(r)'
    BY <1>1, <2>0 DEF ClaimSaved, RunLeased, RunExplained, Working, Open
  <2>. QED BY <1>3, <2>0, <2>2, <2>3 DEF ClaimSaved
<1>9. ASSUME NEW c \in Calls, NEW step \in AdvanceSteps, AdvanceCommit(c, step[1], step[2])
      PROVE  LeaseDiscipline' /\ AttemptsExplainRun'
  <2>1. step[1] \in Working \ {"claimed"} /\ Stage(step[1]) \subseteq Working
    BY DEF AdvanceSteps, Working, Stage
  <2>2. PICK r \in Runs : AdvanceSaved(c, r, step[1])
    BY <1>9, <2>1, AdvanceEffect
  <2>3. RunLeased(r)'
    BY <1>1, <2>1, <2>2 DEF AdvanceSaved, RunLeased, Working
  <2>4. RunExplained(r)'
    BY <1>1, <2>1, <2>2 DEF AdvanceSaved, RunExplained, Working
  <2>. QED BY <1>3, <2>2, <2>3, <2>4 DEF AdvanceSaved
<1>10. ASSUME NEW c \in Calls, PersistCommit(c)
       PROVE  LeaseDiscipline' /\ AttemptsExplainRun'
  <2>0. PICK r \in Runs : PersistSaved(c, r)
    BY <1>10, PersistEffect
  <2>1. RunLeased(r)'
    BY <1>1, <2>0 DEF PersistSaved, RunLeased, Working
  <2>2. RunExplained(r)'
    BY <1>1, <2>0 DEF PersistSaved, RunExplained, Working
  <2>. QED BY <1>3, <2>0, <2>1, <2>2 DEF PersistSaved
<1>11. ASSUME NEW c \in Calls, FinishFailure(c)
       PROVE  LeaseDiscipline' /\ AttemptsExplainRun'
  <2>0. PICK r \in Runs : FinishSaved(c, r)
    BY <1>11, FinishEffect
  <2>1. RunLeased(r)'
    BY <1>1, <2>0 DEF FinishSaved, RunLeased, Working
  <2>2. RunExplained(r)'
    BY <1>1, <2>0 DEF FinishSaved, RunExplained, Working
  <2>. QED BY <1>3, <2>0, <2>1, <2>2 DEF FinishSaved
<1>. QED BY <1>4, <1>5, <1>6, <1>7, <1>8, <1>9, <1>10, <1>11, NextCases

-----------------------------------------------------------------------------
(* Outputs, open runs and rights.                                          *)

LEMMA OutputKept ==
    ASSUME OneOutput, NEW r \in Runs, RowOnly(r), UNCHANGED artifacts,
           run'[r].status = "ready_for_generation" <=> run[r].status = "ready_for_generation",
           run'[r].output = run[r].output
    PROVE  OneOutput'
  BY DEF OneOutput, RowOnly

LEMMA OutputStep ==
    ASSUME IndInv, Next
    PROVE  OneOutput'
<1>0. OneOutput
  BY DEF IndInv
<1>1. CASE Quiet
  BY <1>0, <1>1, QuietKeeps DEF OneOutput
<1>2. ASSUME NEW r \in Runs, StartIngestion(r)
      PROVE  OneOutput'
  BY <1>0, <1>2, StartEffect, OutputKept DEF StartSaved
<1>3. ASSUME NEW r \in Runs, LeaseLapse(r)
      PROVE  OneOutput'
  BY <1>0, <1>3, LapseEffect, OutputKept DEF LapseSaved
<1>4. ASSUME NEW r \in Runs, NEW status \in {"failed", "rights_blocked"}, ClaimEnds(r, status)
      PROVE  OneOutput'
  <2>1. EndSaved(r, status) /\ UNCHANGED artifacts
    BY <1>4, ClaimEndsEffect DEF ClaimEnds
  <2>. QED BY <1>0, <2>1, OutputKept DEF EndSaved, Open, Working
<1>5. ASSUME NEW c \in Calls, ClaimCommit(c)
      PROVE  OneOutput'
  <2>1. PICK r \in Runs : ClaimSaved(c, r)
    BY <1>5, ClaimEffect
  <2>2. UNCHANGED artifacts
    BY <1>5 DEF ClaimCommit
  <2>. QED BY <1>0, <2>1, <2>2, OutputKept DEF ClaimSaved, Open, Working
<1>6. ASSUME NEW c \in Calls, NEW step \in AdvanceSteps, AdvanceCommit(c, step[1], step[2])
      PROVE  OneOutput'
  <2>1. step[1] \in Working \ {"claimed"} /\ Stage(step[1]) \subseteq Working
    BY DEF AdvanceSteps, Working, Stage
  <2>2. PICK r \in Runs : AdvanceSaved(c, r, step[1])
    BY <1>6, <2>1, AdvanceEffect
  <2>3. UNCHANGED artifacts
    BY <1>6 DEF AdvanceCommit
  <2>. QED BY <1>0, <2>1, <2>2, <2>3, OutputKept DEF AdvanceSaved, Working
<1>7. ASSUME NEW c \in Calls, PersistCommit(c)
      PROVE  OneOutput'
  <2>1. PICK r \in Runs : PersistSaved(c, r)
    BY <1>7, PersistEffect
  <2>2. artifacts \in {None, call[c].pages} /\ artifacts' = call[c].pages
    BY <1>7 DEF PersistCommit
  <2>3. artifacts' # None
    BY <2>1, <2>2, NoneAssumption DEF PersistSaved, NoneAssumption
  <2>4. ASSUME NEW q \in Runs, q # r
        PROVE  IF run'[q].status = "ready_for_generation" THEN run'[q].output = artifacts'
                                                          ELSE run'[q].output = None
    BY <1>0, <2>1, <2>2, <2>4 DEF PersistSaved, RowOnly, OneOutput
  <2>. QED BY <2>1, <2>2, <2>3, <2>4 DEF PersistSaved, OneOutput
<1>8. ASSUME NEW c \in Calls, FinishFailure(c)
      PROVE  OneOutput'
  <2>1. PICK r \in Runs : FinishSaved(c, r)
    BY <1>8, FinishEffect
  <2>2. UNCHANGED artifacts
    BY <1>8 DEF FinishFailure
  <2>. QED BY <1>0, <2>1, <2>2, OutputKept DEF FinishSaved, Working
<1>. QED BY <1>1, <1>2, <1>3, <1>4, <1>5, <1>6, <1>7, <1>8, NextCases

\* A run never goes back to not existing, spends attempts only, and is touched
\* only while it is open, or when it is asked for.
LEMMA RowsMove ==
    ASSUME IndInv, Next
    PROVE  /\ \A r \in Runs :
                /\ run[r].status # "none" => run'[r].status # "none"
                /\ run'[r].attempts >= run[r].attempts
           /\ \A r \in Runs :
                run[r].status \notin Open => run'[r] = run[r] \/ StartIngestion(r)
<1>0. \A r \in Runs : run[r].attempts \in Nat
  BY DEF IndInv, TypeOK, RunRows
<1>1. CASE Quiet
  BY <1>0, <1>1, QuietKeeps
<1>2. ASSUME NEW r \in Runs, StartIngestion(r)
      PROVE  /\ \A q \in Runs : /\ run[q].status # "none" => run'[q].status # "none"
                                /\ run'[q].attempts >= run[q].attempts
             /\ \A q \in Runs : run[q].status \notin Open => run'[q] = run[q] \/ StartIngestion(q)
  BY <1>0, <1>2, StartEffect DEF StartSaved, RowOnly
<1>3. ASSUME NEW r \in Runs, RowOnly(r), run[r].status \in Open, run'[r].status # "none",
             run'[r].attempts >= run[r].attempts
      PROVE  /\ \A q \in Runs : /\ run[q].status # "none" => run'[q].status # "none"
                                /\ run'[q].attempts >= run[q].attempts
             /\ \A q \in Runs : run[q].status \notin Open => run'[q] = run[q] \/ StartIngestion(q)
  BY <1>0, <1>3 DEF RowOnly
<1>4. ASSUME NEW r \in Runs, LeaseLapse(r)
      PROVE  RowOnly(r) /\ run[r].status \in Open /\ run'[r].status # "none"
             /\ run'[r].attempts >= run[r].attempts
  <2>1. run[r].status \in Working
    BY <1>4 DEF LeaseLapse, IndInv, LeaseDiscipline, RunLeased
  <2>. QED BY <1>0, <1>4, <2>1, LapseEffect DEF LapseSaved, Open, Working
<1>5. ASSUME NEW r \in Runs, NEW status \in {"failed", "rights_blocked"}, ClaimEnds(r, status)
      PROVE  RowOnly(r) /\ run[r].status \in Open /\ run'[r].status # "none"
             /\ run'[r].attempts >= run[r].attempts
  <2>1. EndSaved(r, status)
    BY <1>5, ClaimEndsEffect DEF ClaimEnds
  <2>. QED BY <1>0, <2>1 DEF EndSaved
<1>6. ASSUME NEW c \in Calls, ClaimCommit(c)
      PROVE  \E r \in Runs : RowOnly(r) /\ run[r].status \in Open /\ run'[r].status # "none"
                             /\ run'[r].attempts >= run[r].attempts
  <2>1. PICK r \in Runs : ClaimSaved(c, r)
    BY <1>6, ClaimEffect
  <2>. QED BY <1>0, <2>1 DEF ClaimSaved
<1>7. ASSUME NEW c \in Calls, NEW step \in AdvanceSteps, AdvanceCommit(c, step[1], step[2])
      PROVE  \E r \in Runs : RowOnly(r) /\ run[r].status \in Open /\ run'[r].status # "none"
                             /\ run'[r].attempts >= run[r].attempts
  <2>1. step[1] \in Working \ {"claimed"} /\ Stage(step[1]) \subseteq Working
    BY DEF AdvanceSteps, Working, Stage
  <2>2. PICK r \in Runs : AdvanceSaved(c, r, step[1])
    BY <1>7, <2>1, AdvanceEffect
  <2>. QED BY <1>0, <2>1, <2>2 DEF AdvanceSaved, Working, Open
<1>8. ASSUME NEW c \in Calls, PersistCommit(c) \/ FinishFailure(c)
      PROVE  \E r \in Runs : RowOnly(r) /\ run[r].status \in Open /\ run'[r].status # "none"
                             /\ run'[r].attempts >= run[r].attempts
  <2>1. CASE PersistCommit(c)
    <3>1. PICK r \in Runs : PersistSaved(c, r)
      BY <2>1, PersistEffect
    <3>. QED BY <1>0, <3>1 DEF PersistSaved, Working, Open
  <2>2. CASE FinishFailure(c)
    <3>1. PICK r \in Runs : FinishSaved(c, r)
      BY <2>2, FinishEffect
    <3>. QED BY <1>0, <3>1 DEF FinishSaved, Working, Open
  <2>. QED BY <1>8, <2>1, <2>2
<1>. QED BY <1>1, <1>2, <1>3, <1>4, <1>5, <1>6, <1>7, <1>8, NextCases

LEMMA OpenStep ==
    ASSUME IndInv, Next
    PROVE  OneOpenRun'
<1>1. CASE \E r \in Runs : StartIngestion(r)
  <2>1. PICK r \in Runs : StartIngestion(r)
    BY <1>1
  <2>2. \A q \in Runs : q # r => run'[q].status \notin Open
    BY <2>1, StartEffect DEF StartSaved, RowOnly, StartIngestion
  <2>. QED BY <2>2 DEF OneOpenRun
<1>2. CASE ~\E r \in Runs : StartIngestion(r)
  <2>1. \A r \in Runs : run'[r].status \in Open => run[r].status \in Open
    BY <1>2, RowsMove
  <2>. QED BY <2>1 DEF IndInv, OneOpenRun
<1>. QED BY <1>1, <1>2

\* Once granted, the right to extract can only end, and for good.
LEMMA RightsEnd ==
    ASSUME IndInv, Next, auth["extract"] \in {"active", "revoked"}
    PROVE  /\ auth'["extract"] \in {"active", "revoked"}
           /\ ExtractActive' => ExtractActive
<1>0. "extract" \in Operations /\ auth["extract"] = auth["extract"]
  BY OperationsAssumption DEF OperationsAssumption
<1>1. CASE Decide
  BY <1>0, <1>1
  DEF Decide, RequestAuthorization, ActivateAuthorization, DenyAuthorization, RevokeAuthorization,
      Decision, BlockVersion, RightsLapse, ExtractActive, IndInv, TypeOK
<1>2. ASSUME NEW c \in Calls, RequireOcr(c)
      PROVE  /\ auth'["extract"] \in {"active", "revoked"}
             /\ ExtractActive' => ExtractActive
  BY <1>0, <1>2 DEF RequireOcr, ExtractActive, IndInv, TypeOK
<1>3. CASE UNCHANGED rights
  BY <1>3 DEF rights, ExtractActive
<1>4. ASSUME NEW c \in Calls, NEW pc, NEW status, Check(c, pc, status)
      PROVE  UNCHANGED rights
  BY <1>4 DEF Check
<1>5. ASSUME NEW c \in Calls, NEW status, NEW work, AdvanceCommit(c, status, work)
      PROVE  UNCHANGED rights
  BY <1>5, SMTT(40) DEF AdvanceCommit
<1>6. ASSUME NEW c \in Calls, Continue(c), ~RequireOcr(c)
      PROVE  UNCHANGED rights
  BY <1>4, <1>5, <1>6
  DEF Continue, ClaimCommit, AdvanceCheck, Advance, Extract, Normalize, PersistCheck, PersistCommit,
      PersistMismatch, FinishFailure, FinishConflict
<1>7. ASSUME NEW c \in Calls, Crash(c)
      PROVE  UNCHANGED rights
  BY <1>7 DEF Crash
<1>8. ASSUME NEW r \in Runs, StartIngestion(r) \/ Claim(r) \/ LeaseLapse(r)
      PROVE  UNCHANGED rights
  BY <1>8 DEF StartIngestion, Claim, ClaimExhausted, ClaimBlocked, ClaimCheck, LeaseLapse
<1>. QED BY <1>1, <1>2, <1>3, <1>6, <1>7, <1>8 DEF Next

\* A run that a step blocks was found without rights.
LEMMA NewlyBlocked ==
    ASSUME IndInv, Next, NEW r \in Runs,
           run'[r].status = "rights_blocked", run[r].status # "rights_blocked"
    PROVE  ~ExtractActive
<1>0. \A c \in Calls : call[c].failure = "rights" => ~ExtractActive
  BY DEF IndInv, CallsCarry, Carries
<1>1. CASE Quiet
  BY <1>1, QuietKeeps
<1>2. ASSUME NEW q \in Runs, StartIngestion(q) \/ LeaseLapse(q)
      PROVE  FALSE
  <2>1. CASE StartIngestion(q)
    BY <2>1, StartEffect DEF StartSaved, RowOnly
  <2>2. CASE LeaseLapse(q)
    BY <2>2, LapseEffect DEF LapseSaved, RowOnly
  <2>. QED BY <1>2, <2>1, <2>2
<1>3. ASSUME NEW q \in Runs, NEW status \in {"failed", "rights_blocked"}, ClaimEnds(q, status)
      PROVE  ~ExtractActive
  <2>1. EndSaved(q, status) /\ (status = "rights_blocked" => ~ExtractActive)
    BY <1>3, ClaimEndsEffect DEF ClaimEnds
  <2>. QED BY <2>1 DEF EndSaved, RowOnly
<1>4. ASSUME NEW c \in Calls, ClaimCommit(c)
      PROVE  FALSE
  <2>1. PICK q \in Runs : ClaimSaved(c, q)
    BY <1>4, ClaimEffect
  <2>. QED BY <2>1 DEF ClaimSaved, RowOnly
<1>5. ASSUME NEW c \in Calls, NEW step \in AdvanceSteps, AdvanceCommit(c, step[1], step[2])
      PROVE  FALSE
  <2>1. step[1] \in Working \ {"claimed"}
    BY DEF AdvanceSteps, Working
  <2>2. PICK q \in Runs : AdvanceSaved(c, q, step[1])
    BY <1>5, <2>1, AdvanceEffect
  <2>. QED BY <2>1, <2>2 DEF AdvanceSaved, RowOnly, Working
<1>6. ASSUME NEW c \in Calls, PersistCommit(c)
      PROVE  FALSE
  <2>1. PICK q \in Runs : PersistSaved(c, q)
    BY <1>6, PersistEffect
  <2>. QED BY <2>1 DEF PersistSaved, RowOnly
<1>7. ASSUME NEW c \in Calls, FinishFailure(c)
      PROVE  ~ExtractActive
  <2>1. PICK q \in Runs : FinishSaved(c, q)
    BY <1>7, FinishEffect
  <2>. QED BY <1>0, <2>1 DEF FinishSaved, RowOnly
<1>. QED BY <1>1, <1>2, <1>3, <1>4, <1>5, <1>6, <1>7, NextCases

LEMMA BlockedStep ==
    ASSUME IndInv, Next
    PROVE  BlockedForGood'
<1>0. BlockedForGood
  BY DEF IndInv
<1>1. ASSUME NEW r \in Runs, run'[r].status # "none"
      PROVE  auth["extract"] \in {"active", "revoked"}
  <2>1. CASE run[r].status # "none"
    BY <1>0, <2>1 DEF BlockedForGood
  <2>2. CASE run[r].status = "none"
    <3>1. StartIngestion(r)
      BY <1>1, <2>2, RowsMove DEF Open, Working
    <3>. QED BY <3>1 DEF StartIngestion, ExtractActive
  <2>. QED BY <2>1, <2>2
<1>2. ASSUME NEW r \in Runs, run'[r].status = "rights_blocked"
      PROVE  ~ExtractActive
  BY <1>0, <1>2, NewlyBlocked DEF BlockedForGood
<1>3. ASSUME NEW r \in Runs, run'[r].status # "none"
      PROVE  /\ auth'["extract"] \in {"active", "revoked"}
             /\ ExtractActive' => ExtractActive
  BY <1>1, <1>3, RightsEnd
<1>. QED BY <1>2, <1>3 DEF BlockedForGood

-----------------------------------------------------------------------------
(* Transactions in progress.                                               *)

\* A row as its checks saw it, but for a lease that ran out.
RowHeld(r) ==
    /\ run'[r].status = run[r].status
    /\ run'[r].owner = run[r].owner
    /\ run'[r].attempts = run[r].attempts
    /\ run'[r].live => run[r].live

\* Every checked call but c goes on holding its row, and c holds none.
LEMMA OthersStand ==
    ASSUME ChecksStand, NEW c \in Calls,
           ~call'[c].checked, call'[c].pc # "claim",
           \A d \in Calls : d # c => call'[d] = call[d],
           \A d \in Calls : d # c /\ call[d].checked => RowHeld(call[d].run)
    PROVE  ChecksStand'
<1>1. ASSUME NEW d \in Calls, d # c
      PROVE  Stands(d)'
  <2>1. call'[d] = call[d] /\ Stands(d) /\ (call[d].checked => RowHeld(call[d].run))
    BY <1>1 DEF ChecksStand
  <2>2. \A e \in Calls : call'[e].checked => call'[e] = call[e]
    OBVIOUS
  <2>. QED BY <2>1, <2>2 DEF Stands, RowHeld, Owns, LeaseExpired
<1>2. Stands(c)'
  BY DEF Stands
<1>. QED BY <1>1, <1>2 DEF ChecksStand

\* A call that passed its checks holds its row alone.
LEMMA CheckStands ==
    ASSUME ChecksStand, NEW c \in Calls, UNCHANGED run, ~call[c].checked,
           call'[c].checked, RowFree(call'[c].run),
           \A d \in Calls : d # c => call'[d] = call[d],
           call'[c].pc \in {"claim", "extracting", "normalizing", "quality_check", "persist"},
           IF call'[c].pc = "claim"
           THEN /\ run[call'[c].run].status \in {"queued", "retryable"} \/ LeaseExpired(call'[c].run)
                /\ run[call'[c].run].attempts < MaxAttempts
           ELSE run[call'[c].run].status \in Stage(call'[c].pc) /\ run[call'[c].run].owner = WorkerId[c]
    PROVE  ChecksStand'
<1>1. \A d \in Calls : call'[d].checked /\ call'[d].run = call'[c].run => d = c
  BY DEF RowFree
<1>2. Stands(c)'
  BY <1>1 DEF Stands, Owns, LeaseExpired
<1>3. ASSUME NEW d \in Calls, d # c
      PROVE  Stands(d)'
  <2>1. call'[d] = call[d] /\ Stands(d)
    BY <1>3 DEF ChecksStand
  <2>2. call[d].checked => call[d].run # call'[c].run
    BY <1>3 DEF RowFree
  <2>3. \A e \in Calls : call'[e].checked /\ call'[e].run = call'[d].run /\ call'[d].checked => e = d
    BY <2>1, <2>2 DEF Stands
  <2>. QED BY <2>1, <2>3 DEF Stands, Owns, LeaseExpired
<1>. QED BY <1>2, <1>3 DEF ChecksStand

LEMMA RowsHeld ==
    ASSUME NEW r, run'[r] = run[r]
    PROVE  RowHeld(r)
  BY DEF RowHeld

\* A step of a call that leaves it outside any transaction.
Leaves(c) ==
    /\ \A d \in Calls : d # c => call'[d] = call[d]
    /\ ~call'[c].checked /\ call'[c].pc # "claim"

LEMMA LeavesTransaction ==
    ASSUME IndInv, NEW c \in Calls,
           \/ Crash(c) \/ Extract(c) \/ Normalize(c) \/ RequireOcr(c) \/ ClaimCommit(c)
           \/ PersistMismatch(c) \/ PersistCommit(c) \/ FinishFailure(c) \/ FinishConflict(c)
           \/ \E step \in AdvanceSteps : AdvanceCommit(c, step[1], step[2])
    PROVE  Leaves(c)
<1>0. TypeOK /\ call[c] \in CallStates
  BY DEF IndInv, TypeOK
<1>1. call[c].checked => call[c].pc \notin {"extract", "normalize", "finish"}
  BY DEF IndInv, ChecksStand, Stands
<1>2. ASSUME NEW state \in CallStates, Goes(c, state), ~state.checked, state.pc # "claim"
      PROVE  Leaves(c)
  BY <1>0, <1>2, GoesType DEF Leaves
<1>3. IdleCall \in CallStates /\ ~IdleCall.checked /\ IdleCall.pc # "claim"
  <2>1. IdleCall \in CallStates
    BY <1>0, StateTypes
  <2>. QED BY <2>1, SMTT(40) DEF IdleCall
<1>4. CASE Goes(c, IdleCall)
  BY <1>2, <1>3, <1>4
<1>5. CASE Extract(c) \/ Normalize(c) \/ RequireOcr(c)
  <2>1. ~call[c].checked
    BY <1>1, <1>5 DEF Extract, Normalize, RequireOcr
  <2>2. ASSUME NEW failure \in {"retryable", "permanent"}, GiveUp(c, failure)
        PROVE  Leaves(c)
    <3>. DEFINE state == [call[c] EXCEPT !.pc = "finish", !.failure = failure]
    <3>1. state \in CallStates
      BY <1>0, StateTypes
    <3>2. ~state.checked /\ state.pc # "claim"
      BY <1>0, <2>1 DEF CallStates
    <3>3. Goes(c, state)
      BY <2>2 DEF GiveUp
    <3>. HIDE DEF state
    <3>. QED BY <1>2, <3>1, <3>2, <3>3, SMTT(40)
  <2>3. ASSUME Goes(c, [call[c] EXCEPT !.pc = "normalizing"])
        PROVE  Leaves(c)
    <3>. DEFINE state == [call[c] EXCEPT !.pc = "normalizing"]
    <3>1. state \in CallStates
      BY <1>0, StateTypes
    <3>2. ~state.checked /\ state.pc # "claim"
      BY <1>0, <2>1 DEF CallStates
    <3>3. Goes(c, state)
      BY <2>3
    <3>. HIDE DEF state
    <3>. QED BY <1>2, <3>1, <3>2, <3>3, SMTT(40)
  <2>4. ASSUME NEW pages \in Projections,
               Goes(c, [call[c] EXCEPT !.pc = "quality_check", !.pages = pages])
        PROVE  Leaves(c)
    <3>. DEFINE state == [call[c] EXCEPT !.pc = "quality_check", !.pages = pages]
    <3>1. state \in CallStates
      BY <1>0, StateTypes
    <3>2. ~state.checked /\ state.pc # "claim"
      BY <1>0, <2>1 DEF CallStates
    <3>3. Goes(c, state)
      BY <2>4
    <3>. HIDE DEF state
    <3>. QED BY <1>2, <3>1, <3>2, <3>3, SMTT(40)
  <2>. QED BY <1>5, <2>2, <2>3, <2>4 DEF Extract, Normalize, RequireOcr
<1>6. CASE ClaimCommit(c)
  <2>1. PICK r \in Runs : ClaimSaved(c, r)
    BY <1>6, ClaimEffect
  <2>2. run[r].attempts + 1 \in 1 .. MaxAttempts /\ r = call[c].run
    BY <2>1, SMTT(40) DEF ClaimSaved, Attempts
  <2>. DEFINE state == [call[c] EXCEPT !.pc = "extracting", !.checked = FALSE,
                                       !.attempt = run[r].attempts + 1]
  <2>3. state \in CallStates
    BY <1>0, <2>2, StateTypes
  <2>4. ~state.checked /\ state.pc # "claim"
    BY <1>0 DEF CallStates
  <2>5. Goes(c, state)
    BY <1>6, <2>2 DEF ClaimCommit
  <2>. HIDE DEF state
  <2>. QED BY <1>2, <2>3, <2>4, <2>5
<1>7. ASSUME NEW step \in AdvanceSteps, AdvanceCommit(c, step[1], step[2])
      PROVE  Leaves(c)
  <2>1. step[2] \in {"extract", "normalize", "persist"}
    BY SMTT(40) DEF AdvanceSteps
  <2>. DEFINE state == [call[c] EXCEPT !.pc = step[2], !.checked = FALSE]
  <2>2. state \in CallStates
    BY <1>0, <2>1, StateTypes, ZenonT(60)
  <2>3. ~state.checked /\ state.pc # "claim"
    BY <1>0, <2>1, SMTT(40) DEF CallStates
  <2>4. Goes(c, state)
    BY <1>7 DEF AdvanceCommit
  <2>. HIDE DEF state
  <2>. QED BY <1>2, <2>2, <2>3, <2>4
<1>. QED BY <1>4, <1>5, <1>6, <1>7
     DEF Crash, PersistMismatch, PersistCommit, FinishFailure, FinishConflict

LEMMA ChecksKeep ==
    ASSUME IndInv, NEW c \in Calls,
           \/ \E r \in Runs : ClaimCheck(c, r)
           \/ \E pc, status : Check(c, pc, status) /\ status \in Stage(pc)
                /\ pc \in {"extracting", "normalizing", "quality_check", "persist"}
    PROVE  ChecksStand'
<1>0. TypeOK /\ ChecksStand /\ call[c] \in CallStates
  BY DEF IndInv, TypeOK
<1>1. ASSUME NEW state \in CallStates, Goes(c, state)
      PROVE  call'[c] = state /\ \A d \in Calls : d # c => call'[d] = call[d]
  BY <1>0, <1>1, GoesType
<1>2. ASSUME NEW r \in Runs, ClaimCheck(c, r)
      PROVE  ChecksStand'
  <2>. DEFINE state == [call[c] EXCEPT !.pc = "claim", !.checked = TRUE, !.run = r]
  <2>1. state \in CallStates
    BY <1>0, StateTypes
  <2>2. state.checked /\ state.pc = "claim" /\ state.run = r
    BY <1>0 DEF CallStates
  <2>3. Goes(c, state) /\ UNCHANGED run /\ Takeable(r) /\ run[r].attempts < MaxAttempts
    BY <1>2 DEF ClaimCheck
  <2>. HIDE DEF state
  <2>4. call'[c] = state /\ \A d \in Calls : d # c => call'[d] = call[d]
    BY <1>1, <2>1, <2>3, SMTT(40)
  <2>5. ~call[c].checked
    BY <1>0, <1>2 DEF ClaimCheck, ChecksStand, Stands
  <2>. QED BY <1>0, <2>2, <2>3, <2>4, <2>5, CheckStands, SMTT(40) DEF Takeable
<1>3. ASSUME NEW pc \in {"extracting", "normalizing", "quality_check", "persist"}, NEW status,
             Check(c, pc, status), status \in Stage(pc)
      PROVE  ChecksStand'
  <2>1. UNCHANGED run /\ call[c].pc = pc /\ ~call[c].checked /\ RowFree(call[c].run)
    BY <1>3 DEF Check, Begins
  <2>2. CASE PassChecks(c, status)
    <3>. DEFINE state == [call[c] EXCEPT !.checked = TRUE]
    <3>1. state \in CallStates
      BY <1>0, StateTypes
    <3>2. state.checked /\ state.pc = pc /\ state.run = call[c].run
      BY <1>0, <2>1 DEF CallStates
    <3>3. Goes(c, state) /\ run[call[c].run].status = status /\ run[call[c].run].owner = WorkerId[c]
      BY <2>2 DEF PassChecks, HoldsStage, Owns
    <3>. HIDE DEF state
    <3>4. call'[c] = state /\ \A d \in Calls : d # c => call'[d] = call[d]
      BY <1>1, <3>1, <3>3
    <3>5. /\ call'[c].checked /\ call'[c].pc = pc /\ RowFree(call'[c].run)
          /\ run[call'[c].run].status \in Stage(call'[c].pc)
          /\ run[call'[c].run].owner = WorkerId[c]
      BY <1>3, <2>1, <3>2, <3>3, <3>4
    <3>. QED BY <1>0, <2>1, <3>4, <3>5, CheckStands, SMTT(40)
  <2>3. CASE ~PassChecks(c, status)
    <3>1. PICK state \in CallStates : Goes(c, state) /\ ~state.checked /\ state.pc # "claim"
      <4>1. CASE FindRightsEnded(c, status)
        <5>. DEFINE state == [call[c] EXCEPT !.pc = "finish", !.failure = "rights"]
        <5>1. state \in CallStates /\ ~state.checked /\ state.pc # "claim"
          BY <1>0, <2>1 DEF CallStates
        <5>2. Goes(c, state)
          BY <4>1 DEF FindRightsEnded, GiveUp
        <5>. HIDE DEF state
        <5>. QED BY <5>1, <5>2
      <4>2. CASE Conflict(c, status)
        <5>1. IdleCall \in CallStates /\ ~IdleCall.checked /\ IdleCall.pc # "claim"
          <6>1. IdleCall \in CallStates
            BY <1>0, StateTypes
          <6>. QED BY <6>1 DEF IdleCall
        <5>. QED BY <4>2, <5>1 DEF Conflict
      <4>. QED BY <1>3, <2>3, <4>1, <4>2 DEF Check
    <3>2. call'[c] = state /\ \A d \in Calls : d # c => call'[d] = call[d]
      BY <1>1, <3>1
    <3>3. \A r : RowHeld(r)
      BY <2>1, RowsHeld
    <3>. QED BY <1>0, <3>1, <3>2, <3>3, OthersStand
  <2>. QED BY <2>2, <2>3
<1>. QED BY <1>2, <1>3

LEMMA ChecksStep ==
    ASSUME IndInv, Next
    PROVE  ChecksStand'
<1>0. ChecksStand /\ TypeOK
  BY DEF IndInv
<1>1. ASSUME UNCHANGED call, \A d \in Calls : call[d].checked => RowHeld(call[d].run)
      PROVE  ChecksStand'
  BY <1>0, <1>1 DEF ChecksStand, Stands, RowHeld, Owns, LeaseExpired
<1>2. ASSUME NEW c \in Calls, Leaves(c), \A d \in Calls : d # c /\ call[d].checked => RowHeld(call[d].run)
      PROVE  ChecksStand'
  BY <1>0, <1>2, OthersStand DEF Leaves
<1>3. ASSUME NEW r \in Runs, RowOnly(r), NEW d \in Calls, call[d].checked, call[d].run # r
      PROVE  RowHeld(call[d].run)
  <2>1. call[d].run \in Runs
    BY <1>3, CheckedRun DEF IndInv
  <2>. QED BY <1>3, <2>1, RowsHeld DEF RowOnly
<1>4. CASE Decide
  <2>1. UNCHANGED <<run, call>>
    BY <1>4
    DEF Decide, RequestAuthorization, ActivateAuthorization, DenyAuthorization, RevokeAuthorization,
        Decision, BlockVersion, RightsLapse
  <2>. QED BY <1>1, <2>1, RowsHeld
<1>5. ASSUME NEW r \in Runs, StartIngestion(r)
      PROVE  ChecksStand'
  <2>1. RowOnly(r) /\ UNCHANGED call /\ run[r].status = "none"
    BY <1>5, StartEffect DEF StartSaved
  <2>2. \A d \in Calls : call[d].checked => run[call[d].run].status # "none"
    BY <1>0, CheckedRun DEF IndInv, ChecksStand, Stands, Stage, LeaseExpired, Working
  <2>. QED BY <1>1, <1>3, <2>1, <2>2
<1>6. ASSUME NEW r \in Runs, LeaseLapse(r)
      PROVE  ChecksStand'
  <2>1. RowOnly(r) /\ UNCHANGED call /\ RowHeld(r)
    BY <1>6, LapseEffect DEF LapseSaved, RowHeld
  <2>. QED BY <1>1, <1>3, <2>1
<1>7. ASSUME NEW r \in Runs, NEW status \in {"failed", "rights_blocked"}, ClaimEnds(r, status)
      PROVE  ChecksStand'
  <2>1. EndSaved(r, status) /\ UNCHANGED call /\ RowFree(r)
    BY <1>7, ClaimEndsEffect DEF ClaimEnds, Takeable
  <2>. QED BY <1>1, <1>3, <2>1 DEF EndSaved, RowFree
<1>8. ASSUME NEW c \in Calls, \E r \in Runs : ClaimCheck(c, r)
      PROVE  ChecksStand'
  BY <1>8, ChecksKeep
<1>9. ASSUME NEW c \in Calls, AdvanceCheck(c) \/ PersistCheck(c)
      PROVE  ChecksStand'
  <2>1. \E pc, status : Check(c, pc, status) /\ status \in Stage(pc)
           /\ pc \in {"extracting", "normalizing", "quality_check", "persist"}
    BY <1>9 DEF AdvanceCheck, PersistCheck, Stage
  <2>. QED BY <2>1, ChecksKeep
<1>10. ASSUME NEW c \in Calls,
              \/ Crash(c) \/ Extract(c) \/ Normalize(c) \/ RequireOcr(c)
              \/ PersistMismatch(c) \/ FinishConflict(c)
       PROVE  ChecksStand'
  <2>1. UNCHANGED run
    BY <1>10, QuietKeeps DEF Quiet
  <2>. QED BY <1>2, <1>10, <2>1, LeavesTransaction, RowsHeld
<1>11. ASSUME NEW c \in Calls, NEW r \in Runs, RowOnly(r), r = call[c].run, Leaves(c),
              call[c].checked \/ RowFree(r)
       PROVE  ChecksStand'
  <2>1. ASSUME NEW d \in Calls, d # c, call[d].checked
        PROVE  call[d].run # r
    BY <1>11, <2>1, CheckedRun DEF IndInv, RowFree
  <2>. QED BY <1>2, <1>3, <1>11, <2>1
<1>12. ASSUME NEW c \in Calls, ClaimCommit(c)
       PROVE  ChecksStand'
  <2>1. PICK r \in Runs : ClaimSaved(c, r)
    BY <1>12, ClaimEffect
  <2>2. call[c].checked
    BY <1>0, <1>12 DEF ClaimCommit, ChecksStand, Stands
  <2>. QED BY <1>11, <1>12, <2>1, <2>2, LeavesTransaction DEF ClaimSaved
<1>13. ASSUME NEW c \in Calls, NEW step \in AdvanceSteps, AdvanceCommit(c, step[1], step[2])
       PROVE  ChecksStand'
  <2>1. step[1] \in Working \ {"claimed"}
    BY DEF AdvanceSteps, Working
  <2>2. PICK r \in Runs : AdvanceSaved(c, r, step[1])
    BY <1>13, <2>1, AdvanceEffect
  <2>3. call[c].checked
    BY <1>13 DEF AdvanceCommit
  <2>. QED BY <1>11, <1>13, <2>2, <2>3, LeavesTransaction DEF AdvanceSaved
<1>14. ASSUME NEW c \in Calls, PersistCommit(c)
       PROVE  ChecksStand'
  <2>1. PICK r \in Runs : PersistSaved(c, r)
    BY <1>14, PersistEffect
  <2>2. call[c].checked
    BY <1>14 DEF PersistCommit
  <2>. QED BY <1>11, <1>14, <2>1, <2>2, LeavesTransaction DEF PersistSaved
<1>15. ASSUME NEW c \in Calls, FinishFailure(c)
       PROVE  ChecksStand'
  <2>1. PICK r \in Runs : FinishSaved(c, r)
    BY <1>15, FinishEffect
  <2>2. RowFree(call[c].run)
    BY <1>15 DEF FinishFailure, Begins
  <2>. QED BY <1>11, <1>15, <2>1, <2>2, LeavesTransaction DEF FinishSaved
<1>. QED BY <1>4, <1>5, <1>6, <1>7, <1>8, <1>9, <1>10, <1>12, <1>13, <1>14, <1>15, NextCases
     DEF Quiet

-----------------------------------------------------------------------------
(* What calls carry.                                                       *)

\* Once a run exists, the right to extract is never granted again.
LEMMA RightsStayEnded ==
    ASSUME IndInv, Next, NEW r \in Runs, run[r].status # "none", ~ExtractActive
    PROVE  ~ExtractActive'
<1>1. auth["extract"] \in {"active", "revoked"}
  BY DEF IndInv, BlockedForGood
<1>. QED BY <1>1, RightsEnd

\* A call that goes on with its run and its attempt.
LEMMA CarriesOn ==
    ASSUME IndInv, Next, NEW c \in Calls, call[c].pc # "idle",
           call'[c].run = call[c].run, call'[c].pc # "idle",
           call'[c].pc \notin {"idle", "claim"} =>
               call'[c].attempt \in 1 .. run'[call[c].run].attempts,
           call'[c].pc \in {"quality_check", "persist"} => call'[c].pages \in Projections,
           call'[c].pc = "finish" => call'[c].failure # "none",
           call'[c].failure = "rights" => ~ExtractActive
    PROVE  Carries(c)'
<1>1. call[c].run \in Runs /\ run[call[c].run].status # "none"
  BY DEF IndInv, CallsCarry, Carries
<1>2. run'[call[c].run].status # "none"
  BY <1>1, RowsMove
<1>3. call'[c].failure = "rights" => ~ExtractActive'
  BY <1>1, RightsStayEnded
<1>. QED BY <1>1, <1>2, <1>3 DEF Carries

\* The attempt of a call stays within those its run counts.
LEMMA AttemptCounted ==
    ASSUME IndInv, Next, NEW c \in Calls, call[c].pc \notin {"idle", "claim"}
    PROVE  call[c].attempt \in 1 .. run'[call[c].run].attempts
<1>1. /\ call[c].run \in Runs
      /\ call[c].attempt \in 1 .. run[call[c].run].attempts
  BY DEF IndInv, CallsCarry, Carries
<1>2. /\ run[call[c].run].attempts \in Nat
      /\ run'[call[c].run].attempts \in Nat
      /\ run'[call[c].run].attempts >= run[call[c].run].attempts
  BY <1>1, RowsMove, TypeStep, AttemptsAssumption
  DEF IndInv, TypeOK, RunRows, AttemptsAssumption
<1>. QED BY <1>1, <1>2

LEMMA CarriesKept ==
    ASSUME IndInv, Next, NEW c \in Calls, call'[c] = call[c]
    PROVE  Carries(c)'
<1>0. Carries(c)
  BY DEF IndInv, CallsCarry
<1>1. CASE call[c].pc = "idle"
  BY <1>0, <1>1 DEF Carries
<1>2. CASE call[c].pc # "idle"
  <2>1. call[c].pc \notin {"idle", "claim"} => call[c].attempt \in 1 .. run'[call[c].run].attempts
    BY AttemptCounted
  <2>. QED BY <1>0, <1>2, <2>1, CarriesOn DEF Carries
<1>. QED BY <1>1, <1>2

LEMMA IdleCarries ==
    ASSUME NEW c \in Calls, call'[c] = IdleCall
    PROVE  Carries(c)'
  BY DEF Carries, IdleCall

\* The steps of a call that goes on past its claim: only pages and the reason to
\* give up are set, each where the call gets to know them.
LEMMA CarriesMoved ==
    ASSUME IndInv, Next, NEW c \in Calls, NEW state \in CallStates, Goes(c, state),
           call[c].pc \notin {"idle", "claim"},
           state.run = call[c].run, state.attempt = call[c].attempt, state.pc # "idle",
           state.pc \in {"quality_check", "persist"} => state.pages \in Projections,
           state.pc = "finish" => state.failure # "none",
           state.failure = "rights" => ~ExtractActive
    PROVE  Carries(c)'
<1>1. call'[c] = state
  BY GoesType DEF IndInv
<1>2. call[c].attempt \in 1 .. run'[call[c].run].attempts
  BY AttemptCounted
<1>. QED BY <1>1, <1>2, CarriesOn

LEMMA GiveUpCarries ==
    ASSUME IndInv, Next, NEW c \in Calls, NEW failure \in {"retryable", "permanent", "rights"},
           GiveUp(c, failure), call[c].pc \notin {"idle", "claim"},
           failure = "rights" => ~ExtractActive
    PROVE  Carries(c)'
<1>. DEFINE state == [call[c] EXCEPT !.pc = "finish", !.failure = failure]
<1>0. call[c] \in CallStates /\ TypeOK
  BY SMTT(40) DEF IndInv, TypeOK
<1>1. state \in CallStates
  BY <1>0, StateTypes
<1>2. /\ state.run = call[c].run /\ state.attempt = call[c].attempt
      /\ state.pc = "finish" /\ state.failure = failure
  BY <1>0 DEF CallStates
<1>3. Goes(c, state)
  BY DEF GiveUp
<1>. HIDE DEF state
<1>. QED BY <1>1, <1>2, <1>3, CarriesMoved

LEMMA CheckCarries ==
    ASSUME IndInv, Next, NEW c \in Calls,
           NEW pc \in {"extracting", "normalizing", "quality_check", "persist"}, NEW status,
           Check(c, pc, status)
    PROVE  Carries(c)'
<1>0. call[c] \in CallStates /\ TypeOK /\ Carries(c) /\ call[c].pc = pc
  BY DEF IndInv, TypeOK, CallsCarry, Check, Begins
<1>1. CASE PassChecks(c, status)
  <2>. DEFINE state == [call[c] EXCEPT !.checked = TRUE]
  <2>1. state \in CallStates
    BY <1>0, StateTypes
  <2>2. /\ state.run = call[c].run /\ state.attempt = call[c].attempt
        /\ state.pc = pc /\ state.failure = call[c].failure /\ state.pages = call[c].pages
    BY <1>0 DEF CallStates
  <2>3. Goes(c, state)
    BY <1>1 DEF PassChecks
  <2>. HIDE DEF state
  <2>. QED BY <1>0, <2>1, <2>2, <2>3, CarriesMoved, SMTT(40) DEF Carries
<1>2. CASE FindRightsEnded(c, status)
  BY <1>0, <1>2, GiveUpCarries DEF FindRightsEnded
<1>3. CASE Conflict(c, status)
  <2>1. IdleCall \in CallStates
    BY <1>0, StateTypes
  <2>2. call'[c] = IdleCall
    BY <1>0, <1>3, <2>1, GoesType DEF Conflict
  <2>. QED BY <2>2, IdleCarries, SMTT(40)
<1>. QED BY <1>1, <1>2, <1>3 DEF Check

LEMMA ClaimCheckCarries ==
    ASSUME IndInv, Next, NEW c \in Calls, NEW r \in Runs, ClaimCheck(c, r)
    PROVE  Carries(c)'
<1>0. call[c] \in CallStates /\ TypeOK /\ Carries(c) /\ call[c].pc = "idle"
  BY SMTT(40) DEF IndInv, TypeOK, CallsCarry, ClaimCheck
<1>. DEFINE state == [call[c] EXCEPT !.pc = "claim", !.checked = TRUE, !.run = r]
<1>1. state \in CallStates
  BY <1>0, StateTypes
<1>2. state.run = r /\ state.pc = "claim" /\ state.failure = call[c].failure
  BY <1>0 DEF CallStates
<1>3. Goes(c, state) /\ UNCHANGED run /\ run[r].status # "none"
  BY DEF ClaimCheck, Takeable, LeaseExpired, Working
<1>. HIDE DEF state
<1>4. call'[c] = state
  BY <1>0, <1>1, <1>3, GoesType
<1>. QED BY <1>0, <1>2, <1>3, <1>4 DEF Carries

LEMMA ClaimCommitCarries ==
    ASSUME IndInv, Next, NEW c \in Calls, ClaimCommit(c)
    PROVE  Carries(c)'
<1>0. call[c] \in CallStates /\ TypeOK /\ Carries(c) /\ call[c].pc = "claim"
  BY DEF IndInv, TypeOK, CallsCarry, ClaimCommit
<1>1. PICK r \in Runs : ClaimSaved(c, r)
  BY ClaimEffect
<1>2. /\ run[r].attempts + 1 \in 1 .. MaxAttempts /\ r = call[c].run
      /\ run'[r].attempts = run[r].attempts + 1
  BY <1>1, SMTT(40) DEF ClaimSaved, Attempts
<1>. DEFINE state == [call[c] EXCEPT !.pc = "extracting", !.checked = FALSE,
                                     !.attempt = run[r].attempts + 1]
<1>3. state \in CallStates
  BY <1>0, <1>2, StateTypes
<1>4. /\ state.run = r /\ state.pc = "extracting" /\ state.failure = call[c].failure
      /\ state.attempt = run'[r].attempts
  BY <1>0, <1>2 DEF CallStates
<1>5. Goes(c, state)
  BY <1>2 DEF ClaimCommit
<1>. HIDE DEF state
<1>6. call'[c] = state
  BY <1>0, <1>3, <1>5, GoesType
<1>7. state.attempt \in 1 .. run'[r].attempts
  BY <1>2, <1>4, SMTT(40)
<1>. QED BY <1>0, <1>2, <1>4, <1>6, <1>7, CarriesOn DEF Carries

LEMMA WorkCarries ==
    ASSUME IndInv, Next, NEW c \in Calls,
           \/ Extract(c) \/ Normalize(c) \/ RequireOcr(c)
           \/ \E step \in AdvanceSteps : AdvanceCommit(c, step[1], step[2])
    PROVE  Carries(c)'
<1>0. call[c] \in CallStates /\ TypeOK /\ Carries(c)
  BY DEF IndInv, TypeOK, CallsCarry
<1>1. ASSUME NEW failure \in {"retryable", "permanent"}, GiveUp(c, failure),
             Extract(c) \/ Normalize(c) \/ RequireOcr(c)
      PROVE  Carries(c)'
  BY <1>1, GiveUpCarries DEF Extract, Normalize, RequireOcr
<1>2. CASE Extract(c) /\ Goes(c, [call[c] EXCEPT !.pc = "normalizing"])
  <2>. DEFINE state == [call[c] EXCEPT !.pc = "normalizing"]
  <2>1. state \in CallStates
    BY <1>0, StateTypes
  <2>2. /\ state.run = call[c].run /\ state.attempt = call[c].attempt
        /\ state.pc = "normalizing" /\ state.failure = call[c].failure
    BY <1>0 DEF CallStates
  <2>3. Goes(c, state) /\ call[c].pc = "extract"
    BY <1>2 DEF Extract
  <2>. HIDE DEF state
  <2>. QED BY <1>0, <2>1, <2>2, <2>3, CarriesMoved, SMTT(40) DEF Carries
<1>3. ASSUME Normalize(c), NEW pages \in Projections,
             Goes(c, [call[c] EXCEPT !.pc = "quality_check", !.pages = pages])
      PROVE  Carries(c)'
  <2>. DEFINE state == [call[c] EXCEPT !.pc = "quality_check", !.pages = pages]
  <2>1. state \in CallStates
    BY <1>0, StateTypes
  <2>2. /\ state.run = call[c].run /\ state.attempt = call[c].attempt
        /\ state.pc = "quality_check" /\ state.failure = call[c].failure /\ state.pages = pages
    BY <1>0 DEF CallStates
  <2>3. Goes(c, state) /\ call[c].pc = "normalize"
    BY <1>3 DEF Normalize
  <2>. HIDE DEF state
  <2>. QED BY <1>0, <2>1, <2>2, <2>3, CarriesMoved, SMTT(40) DEF Carries
<1>4. ASSUME NEW step \in AdvanceSteps, AdvanceCommit(c, step[1], step[2])
      PROVE  Carries(c)'
  <2>0. /\ step[2] \in {"extract", "normalize", "persist"}
        /\ step[1] \notin {"idle", "claim"}
        /\ step[2] = "persist" => step[1] = "quality_check"
    BY SMTT(40) DEF AdvanceSteps
  <2>. DEFINE state == [call[c] EXCEPT !.pc = step[2], !.checked = FALSE]
  <2>1. state \in CallStates
    BY <1>0, <2>0, StateTypes
  <2>2. /\ state.run = call[c].run /\ state.attempt = call[c].attempt
        /\ state.pc = step[2] /\ state.failure = call[c].failure /\ state.pages = call[c].pages
    BY <1>0, SMTT(40) DEF CallStates
  <2>3. Goes(c, state) /\ call[c].pc = step[1]
    BY <1>4 DEF AdvanceCommit
  <2>. HIDE DEF state
  <2>. QED BY <1>0, <2>0, <2>1, <2>2, <2>3, CarriesMoved DEF Carries
<1>. QED BY <1>1, <1>2, <1>3, <1>4 DEF Extract, Normalize, RequireOcr

LEMMA CarryStep ==
    ASSUME IndInv, Next
    PROVE  CallsCarry'
<1>0. call \in [Calls -> CallStates] /\ TypeOK
  BY DEF IndInv, TypeOK
<1>1. ASSUME UNCHANGED call
      PROVE  CallsCarry'
  BY <1>1, CarriesKept DEF CallsCarry
<1>2. ASSUME NEW c \in Calls, NEW state, Goes(c, state), Carries(c)'
      PROVE  CallsCarry'
  <2>1. \A d \in Calls : d # c => call'[d] = call[d]
    BY <1>0, <1>2 DEF Goes
  <2>. QED BY <1>2, <2>1, CarriesKept DEF CallsCarry
<1>3. ASSUME NEW c \in Calls, Goes(c, IdleCall)
      PROVE  CallsCarry'
  <2>1. IdleCall \in CallStates
    BY <1>0, StateTypes
  <2>2. call'[c] = IdleCall
    BY <1>0, <1>3, <2>1, GoesType
  <2>. QED BY <1>2, <1>3, <2>2, IdleCarries, SMTT(40)
<1>4. CASE Decide
  <2>1. UNCHANGED call
    BY <1>4
    DEF Decide, RequestAuthorization, ActivateAuthorization, DenyAuthorization, RevokeAuthorization,
        Decision, BlockVersion, RightsLapse
  <2>. QED BY <1>1, <2>1
<1>5. ASSUME NEW r \in Runs, StartIngestion(r) \/ LeaseLapse(r)
      PROVE  CallsCarry'
  BY <1>1, <1>5 DEF StartIngestion, LeaseLapse
<1>6. ASSUME NEW r \in Runs, NEW status \in {"failed", "rights_blocked"}, ClaimEnds(r, status)
      PROVE  CallsCarry'
  BY <1>1, <1>6 DEF ClaimEnds
<1>7. ASSUME NEW c \in Calls, NEW r \in Runs, ClaimCheck(c, r)
      PROVE  CallsCarry'
  <2>1. \E state : Goes(c, state)
    BY <1>7 DEF ClaimCheck
  <2>. QED BY <1>2, <1>7, <2>1, ClaimCheckCarries
<1>8. ASSUME NEW c \in Calls, AdvanceCheck(c) \/ PersistCheck(c)
      PROVE  CallsCarry'
  <2>1. PICK pc \in {"extracting", "normalizing", "quality_check", "persist"} :
           \E status : Check(c, pc, status)
    BY <1>8 DEF AdvanceCheck, PersistCheck
  <2>2. \E state : Goes(c, state)
    BY <2>1 DEF Check, PassChecks, FindRightsEnded, Conflict, GiveUp
  <2>. QED BY <1>2, <2>1, <2>2, CheckCarries
<1>9. ASSUME NEW c \in Calls, Extract(c) \/ Normalize(c) \/ RequireOcr(c)
      PROVE  CallsCarry'
  <2>1. \E state : Goes(c, state)
    BY <1>9 DEF Extract, Normalize, RequireOcr, GiveUp
  <2>. QED BY <1>2, <1>9, <2>1, WorkCarries
<1>10. ASSUME NEW c \in Calls,
              \/ Crash(c) \/ PersistMismatch(c) \/ PersistCommit(c)
              \/ FinishFailure(c) \/ FinishConflict(c)
       PROVE  CallsCarry'
  BY <1>3, <1>10 DEF Crash, PersistMismatch, PersistCommit, FinishFailure, FinishConflict
<1>11. ASSUME NEW c \in Calls, ClaimCommit(c)
       PROVE  CallsCarry'
  <2>1. \E state : Goes(c, state)
    BY <1>11 DEF ClaimCommit
  <2>. QED BY <1>2, <1>11, <2>1, ClaimCommitCarries
<1>12. ASSUME NEW c \in Calls, NEW step \in AdvanceSteps, AdvanceCommit(c, step[1], step[2])
       PROVE  CallsCarry'
  <2>1. \E state : Goes(c, state)
    BY <1>12 DEF AdvanceCommit
  <2>. QED BY <1>2, <1>12, <2>1, WorkCarries
<1>. QED BY <1>4, <1>5, <1>6, <1>7, <1>8, <1>9, <1>10, <1>11, <1>12, NextCases DEF Quiet

-----------------------------------------------------------------------------
(* The inductive invariant and what follows from it.                       *)

LEMMA InitHolds ==
    ASSUME Init
    PROVE  IndInv
<1>0. MaxAttempts \in Nat
  BY AttemptsAssumption DEF AttemptsAssumption
<1>1. TypeOK
  BY <1>0 DEF Init, TypeOK, RunRows, NoRun, Outcomes, CallStates, IdleCall
<1>2. LeaseDiscipline /\ AttemptsExplainRun
  BY <1>0 DEF Init, LeaseDiscipline, RunLeased, AttemptsExplainRun, RunExplained, NoRun, Working,
     Attempts
<1>3. OneOutput /\ OneOpenRun /\ BlockedForGood
  BY DEF Init, OneOutput, OneOpenRun, BlockedForGood, NoRun, Open, Working
<1>4. ChecksStand /\ CallsCarry
  BY DEF Init, ChecksStand, Stands, CallsCarry, Carries, IdleCall
<1>. QED BY <1>1, <1>2, <1>3, <1>4 DEF IndInv

LEMMA StutterHolds ==
    ASSUME IndInv, UNCHANGED vars
    PROVE  IndInv'
<1>0. /\ UNCHANGED <<admitted, rightsLive, auth, run, attempt, artifacts, call>>
      /\ TypeOK /\ LeaseDiscipline /\ AttemptsExplainRun /\ OneOutput /\ OneOpenRun
      /\ BlockedForGood /\ ChecksStand /\ CallsCarry
  BY DEF vars, IndInv
<1>1. TypeOK'
  BY <1>0 DEF TypeOK
<1>2. LeaseDiscipline' /\ AttemptsExplainRun'
  BY <1>0 DEF LeaseDiscipline, RunLeased, AttemptsExplainRun, RunExplained
<1>3. OneOutput' /\ OneOpenRun' /\ BlockedForGood'
  BY <1>0 DEF OneOutput, OneOpenRun, BlockedForGood, ExtractActive
<1>4. ChecksStand'
  BY <1>0 DEF ChecksStand, Stands, Owns, LeaseExpired
<1>5. CallsCarry'
  BY <1>0 DEF CallsCarry, Carries, ExtractActive
<1>. QED BY <1>1, <1>2, <1>3, <1>4, <1>5 DEF IndInv

LEMMA StepHolds ==
    ASSUME IndInv, [Next]_vars
    PROVE  IndInv'
<1>1. CASE Next
  BY <1>1, TypeStep, StoryStep, OutputStep, OpenStep, BlockedStep, ChecksStep, CarryStep DEF IndInv
<1>2. CASE UNCHANGED vars
  BY <1>2, StutterHolds
<1>. QED BY <1>1, <1>2

\* IndInv holds in every state ingestion reaches.
THEOREM InvariantHolds == Spec => []IndInv
<1>1. Init => IndInv
  BY InitHolds
<1>2. IndInv /\ [Next]_vars => IndInv'
  BY StepHolds
<1>. QED BY <1>1, <1>2, PTL DEF Spec

\* Every variable keeps its type.
THEOREM TypeCorrect == Spec => []TypeOK
<1>1. IndInv => TypeOK
  BY DEF IndInv
<1>. QED BY <1>1, InvariantHolds, PTL

\* A lease, a running attempt and a working stage come and go together, however
\* many calls share a worker id or come back late.
THEOREM LeasesAreKept == Spec => []LeaseDiscipline
<1>1. IndInv => LeaseDiscipline
  BY DEF IndInv
<1>. QED BY <1>1, InvariantHolds, PTL

\* The attempts of a run tell how it ended.
THEOREM AttemptsTell == Spec => []AttemptsExplainRun
<1>1. IndInv => AttemptsExplainRun
  BY DEF IndInv
<1>. QED BY <1>1, InvariantHolds, PTL

\* All runs of a version that are ready deliver the same output.
THEOREM OutputRepeats == Spec => []OneOutput
<1>1. IndInv => OneOutput
  BY DEF IndInv
<1>. QED BY <1>1, InvariantHolds, PTL

\* A run is blocked only when the right to extract is gone for good.
THEOREM BlocksAreFinal == Spec => []BlockedForGood
<1>1. IndInv => BlockedForGood
  BY DEF IndInv
<1>. QED BY <1>1, InvariantHolds, PTL

-----------------------------------------------------------------------------
(* The triggers accept every step.                                         *)

\* What TriggersAccept says of one run.
Accepted(r) == RunTrigger(r) /\ \A n \in Attempts : AttemptTrigger(r, n)

LEMMA AcceptStep ==
    ASSUME IndInv, Next
    PROVE  \A r \in Runs : Accepted(r)
<1>1. /\ \A r \in Runs : RunLeased(r)
      /\ \A r \in Runs : run[r].attempts \in Nat /\ attempt[r] \in [Attempts -> Outcomes]
      /\ \A n \in Attempts : n \in Nat
  BY DEF IndInv, LeaseDiscipline, TypeOK, RunRows, Attempts
<1>2. ASSUME NEW r \in Runs, run'[r] = run[r], attempt'[r] = attempt[r]
      PROVE  Accepted(r)
  BY <1>2 DEF Accepted, RunTrigger, AttemptTrigger
<1>3. ASSUME NEW r \in Runs, RowOnly(r), Accepted(r)
      PROVE  \A q \in Runs : Accepted(q)
  BY <1>2, <1>3 DEF RowOnly
<1>4. CASE Quiet
  BY <1>2, <1>4, QuietKeeps
<1>5. ASSUME NEW r \in Runs, StartIngestion(r)
      PROVE  \A q \in Runs : Accepted(q)
  <2>1. StartSaved(r)
    BY <1>5, StartEffect
  <2>2. Accepted(r)
    BY <1>5, <2>1 DEF StartIngestion, ExtractActive, StartSaved, Accepted, RunTrigger, AttemptTrigger, MayMove, Terminal
  <2>. QED BY <1>3, <2>1, <2>2 DEF StartSaved
<1>6. ASSUME NEW r \in Runs, LeaseLapse(r)
      PROVE  \A q \in Runs : Accepted(q)
  <2>1. LapseSaved(r) /\ run[r].status \in Working
    BY <1>1, <1>6, LapseEffect DEF LeaseLapse, RunLeased
  <2>2. Accepted(r)
    BY <2>1 DEF LapseSaved, Accepted, RunTrigger, AttemptTrigger, Terminal, Working
  <2>. QED BY <1>3, <2>1, <2>2 DEF LapseSaved
<1>7. ASSUME NEW r \in Runs, NEW status \in {"failed", "rights_blocked"}, ClaimEnds(r, status)
      PROVE  \A q \in Runs : Accepted(q)
  <2>1. EndSaved(r, status)
    BY <1>7, ClaimEndsEffect DEF ClaimEnds
  <2>2. status = "failed" => run[r].status # "queued"
    BY <1>1, <1>7, AttemptsAssumption DEF ClaimEnds, RunLeased, AttemptsAssumption
  <2>3. MayMove(run[r].status, run'[r].status)
    BY <2>1, <2>2 DEF EndSaved, MayMove, Open
  <2>4. Accepted(r)
    BY <2>1, <2>3 DEF EndSaved, Accepted, RunTrigger, AttemptTrigger, Terminal, Open, Working
  <2>. QED BY <1>3, <2>1, <2>4 DEF EndSaved
<1>8. ASSUME NEW c \in Calls, ClaimCommit(c)
      PROVE  \A q \in Runs : Accepted(q)
  <2>1. PICK r \in Runs : ClaimSaved(c, r)
    BY <1>8, ClaimEffect
  <2>2. MayMove(run[r].status, run'[r].status)
    BY <2>1 DEF ClaimSaved, MayMove, Open
  <2>3. Accepted(r)
    BY <1>1, <2>1, <2>2 DEF ClaimSaved, Accepted, RunTrigger, AttemptTrigger, RunLeased, Terminal, Open, Working
  <2>. QED BY <1>3, <2>1, <2>3 DEF ClaimSaved
<1>9. ASSUME NEW c \in Calls, NEW step \in AdvanceSteps, AdvanceCommit(c, step[1], step[2])
      PROVE  \A q \in Runs : Accepted(q)
  <2>1. step[1] \in {"extracting", "normalizing", "quality_check"}
    BY DEF AdvanceSteps
  <2>2. PICK r \in Runs : AdvanceSaved(c, r, step[1])
    BY <1>9, <2>1, AdvanceEffect DEF Working
  <2>3. MayMove(run[r].status, run'[r].status)
    BY <2>1, <2>2 DEF AdvanceSaved, MayMove, Stage
  <2>4. Accepted(r)
    BY <2>1, <2>2, <2>3 DEF AdvanceSaved, Accepted, RunTrigger, AttemptTrigger, Stage, Terminal
  <2>. QED BY <1>3, <2>2, <2>4 DEF AdvanceSaved
<1>10. ASSUME NEW c \in Calls, PersistCommit(c)
       PROVE  \A q \in Runs : Accepted(q)
  <2>1. PICK r \in Runs : PersistSaved(c, r)
    BY <1>10, PersistEffect
  <2>2. Accepted(r)
    BY <1>1, <2>1 DEF PersistSaved, Accepted, RunTrigger, AttemptTrigger, MayMove, RunLeased, Terminal, Working
  <2>. QED BY <1>3, <2>1, <2>2 DEF PersistSaved
<1>11. ASSUME NEW c \in Calls, FinishFailure(c)
       PROVE  \A q \in Runs : Accepted(q)
  <2>1. PICK r \in Runs : FinishSaved(c, r)
    BY <1>11, FinishEffect
  <2>2. MayMove(run[r].status, run'[r].status)
    BY <2>1 DEF FinishSaved, MayMove
  <2>3. Accepted(r)
    BY <1>1, <2>1, <2>2, SMTT(40)
       DEF FinishSaved, Accepted, RunTrigger, AttemptTrigger, RunLeased, Terminal, Working
  <2>. QED BY <1>3, <2>1, <2>3 DEF FinishSaved
<1>. QED BY <1>4, <1>5, <1>6, <1>7, <1>8, <1>9, <1>10, <1>11, NextCases

LEMMA ArtifactsStep ==
    ASSUME IndInv, Next
    PROVE  ArtifactsTrigger
<1>1. CASE artifacts' = artifacts
  BY <1>1 DEF ArtifactsTrigger
<1>2. ASSUME NEW c \in Calls, PersistCommit(c)
      PROVE  ArtifactsTrigger
  BY <1>2 DEF PersistCommit, ArtifactsTrigger
<1>. QED BY <1>1, <1>2
     DEF Next, Decide, RequestAuthorization, ActivateAuthorization, DenyAuthorization, RevokeAuthorization, Decision,
         BlockVersion, RightsLapse, StartIngestion, Claim, ClaimExhausted, ClaimBlocked, ClaimCheck, LeaseLapse,
         Continue, ClaimCommit, AdvanceCheck, Check, Advance, AdvanceCommit, Extract, Normalize, RequireOcr,
         PersistCheck, PersistMismatch, FinishFailure, FinishConflict, Crash

\* No call, however late, makes the database refuse a write: stages are taken one
\* by one, and neither an ended run nor a closed attempt is written again.
THEOREM TriggersNeverRefuse == Spec => TriggersAccept
<1>1. IndInv /\ [Next]_vars =>
        [/\ \A r \in Runs : RunTrigger(r) /\ \A n \in Attempts : AttemptTrigger(r, n)
         /\ ArtifactsTrigger]_vars
  BY AcceptStep, ArtifactsStep DEF Accepted
<1>. QED BY <1>1, InvariantHolds, PTL DEF Spec, TriggersAccept

-----------------------------------------------------------------------------
(* The work of a run runs out.                                             *)

\* How far a run is from its end within an attempt.
Rank(status) ==
    IF status = "none" THEN 7
    ELSE IF status = "queued" THEN 6
    ELSE IF status = "claimed" THEN 5
    ELSE IF status = "extracting" THEN 4
    ELSE IF status = "normalizing" THEN 3
    ELSE IF status = "quality_check" THEN 2
    ELSE IF status = "retryable" THEN 1
    ELSE 0

\* What a run can still be written: its unspent attempts, each worth more than
\* all stages of one, then its stage, then its lease.
WorkLeft(r) ==
    16 * (MaxAttempts - run[r].attempts) + 2 * Rank(run[r].status)
        + (IF run[r].live THEN 1 ELSE 0)

\* Whatever calls die, wake late or take over, every write of a run's row uses up
\* some of a budget that MaxAttempts fixes, so a run is written finitely often:
\* no lease, retry or takeover can keep it going for ever.
WorkRunsOut == [][\A r \in Runs : run'[r] # run[r] => WorkLeft(r)' < WorkLeft(r)]_vars

\* The budget is never overdrawn.
WorkIsBounded == \A r \in Runs : WorkLeft(r) \in 0 .. 16 * MaxAttempts + 14

\* A step that touches run r alone uses up the budget if it does so for r.
LEMMA OthersWait ==
    ASSUME NEW r \in Runs, RowOnly(r), WorkLeft(r)' < WorkLeft(r)
    PROVE  \A q \in Runs : run'[q] # run[q] => WorkLeft(q)' < WorkLeft(q)
  BY DEF RowOnly

\* What a row is worth, before and after a step that writes it.
LEMMA WorkOfRows ==
    ASSUME IndInv, Next, NEW r \in Runs
    PROVE  /\ run[r].attempts \in Nat /\ run'[r].attempts \in Nat /\ MaxAttempts \in Nat
           /\ WorkLeft(r) = 16 * (MaxAttempts - run[r].attempts) + 2 * Rank(run[r].status)
                                + (IF run[r].live THEN 1 ELSE 0)
           /\ WorkLeft(r)' = 16 * (MaxAttempts - run'[r].attempts) + 2 * Rank(run'[r].status)
                                + (IF run'[r].live THEN 1 ELSE 0)
<1>1. TypeOK'
  BY StepHolds DEF IndInv
<1>. QED BY <1>1, AttemptsAssumption DEF IndInv, TypeOK, RunRows, WorkLeft, AttemptsAssumption

LEMMA WorkStep ==
    ASSUME IndInv, Next
    PROVE  \A r \in Runs : run'[r] # run[r] => WorkLeft(r)' < WorkLeft(r)
<1>1. CASE Quiet
  BY <1>1, QuietKeeps
<1>2. ASSUME NEW r \in Runs, StartIngestion(r)
      PROVE  RowOnly(r) /\ WorkLeft(r)' < WorkLeft(r)
  <2>1. StartSaved(r)
    BY <1>2, StartEffect
  <2>. QED BY <2>1, WorkOfRows DEF StartSaved, Rank
<1>3. ASSUME NEW r \in Runs, LeaseLapse(r)
      PROVE  RowOnly(r) /\ WorkLeft(r)' < WorkLeft(r)
  <2>1. LapseSaved(r) /\ run[r].live
    BY <1>3, LapseEffect DEF LeaseLapse
  <2>2. Rank(run[r].status) \in Nat
    BY DEF Rank
  <2>. QED BY <2>1, <2>2, WorkOfRows DEF LapseSaved
<1>4. ASSUME NEW r \in Runs, NEW status \in {"failed", "rights_blocked"}, ClaimEnds(r, status)
      PROVE  RowOnly(r) /\ WorkLeft(r)' < WorkLeft(r)
  <2>1. EndSaved(r, status)
    BY <1>4, ClaimEndsEffect DEF ClaimEnds
  <2>2. Rank(run[r].status) \in 1 .. 6 /\ Rank(run'[r].status) = 0
    BY <2>1 DEF EndSaved, Rank, Open, Working
  <2>. QED BY <2>1, <2>2, WorkOfRows DEF EndSaved
<1>5. ASSUME NEW c \in Calls, ClaimCommit(c)
      PROVE  \E r \in Runs : RowOnly(r) /\ WorkLeft(r)' < WorkLeft(r)
  <2>1. PICK r \in Runs : ClaimSaved(c, r)
    BY <1>5, ClaimEffect
  <2>2. Rank(run[r].status) \in 1 .. 6 /\ Rank(run'[r].status) = 5
    BY <2>1 DEF ClaimSaved, Rank, Open, Working
  <2>. QED BY <2>1, <2>2, WorkOfRows DEF ClaimSaved
<1>6. ASSUME NEW c \in Calls, NEW step \in AdvanceSteps, AdvanceCommit(c, step[1], step[2])
      PROVE  \E r \in Runs : RowOnly(r) /\ WorkLeft(r)' < WorkLeft(r)
  <2>1. step[1] \in {"extracting", "normalizing", "quality_check"}
    BY DEF AdvanceSteps
  <2>2. PICK r \in Runs : AdvanceSaved(c, r, step[1])
    BY <1>6, <2>1, AdvanceEffect DEF Working
  <2>3. Rank(run[r].status) = Rank(run'[r].status) + 1 /\ Rank(run'[r].status) \in Nat
    BY <2>1, <2>2 DEF AdvanceSaved, Stage, Rank
  <2>. QED BY <2>2, <2>3, WorkOfRows DEF AdvanceSaved
<1>7. ASSUME NEW c \in Calls, PersistCommit(c)
      PROVE  \E r \in Runs : RowOnly(r) /\ WorkLeft(r)' < WorkLeft(r)
  <2>1. PICK r \in Runs : PersistSaved(c, r)
    BY <1>7, PersistEffect
  <2>2. Rank(run[r].status) = 2 /\ Rank(run'[r].status) = 0
    BY <2>1 DEF PersistSaved, Rank
  <2>. QED BY <2>1, <2>2, WorkOfRows DEF PersistSaved
<1>8. ASSUME NEW c \in Calls, FinishFailure(c)
      PROVE  \E r \in Runs : RowOnly(r) /\ WorkLeft(r)' < WorkLeft(r)
  <2>1. PICK r \in Runs : FinishSaved(c, r)
    BY <1>8, FinishEffect
  <2>2. Rank(run[r].status) \in 2 .. 5 /\ Rank(run'[r].status) \in {0, 1}
    BY <2>1 DEF FinishSaved, Rank, Working
  <2>. QED BY <2>1, <2>2, WorkOfRows DEF FinishSaved
<1>. QED BY <1>1, <1>2, <1>3, <1>4, <1>5, <1>6, <1>7, <1>8, NextCases, OthersWait

\* Whatever calls die, hang or come back late, a run's row is written finitely
\* often: every write spends a budget MaxAttempts fixes.
THEOREM RunsRunOut == Spec => WorkRunsOut /\ []WorkIsBounded
<1>1. IndInv => WorkIsBounded
  <2>. HAVE IndInv
  <2>. SUFFICES ASSUME NEW r \in Runs
               PROVE  WorkLeft(r) \in 0 .. 16 * MaxAttempts + 14
    BY DEF WorkIsBounded
  <2>1. run[r].attempts \in 0 .. MaxAttempts /\ MaxAttempts \in Nat
    BY AttemptsAssumption DEF IndInv, TypeOK, RunRows, AttemptsAssumption
  <2>2. Rank(run[r].status) \in 0 .. 7
    BY DEF Rank
  <2>3. run[r].live => Rank(run[r].status) \in 2 .. 5
    BY DEF IndInv, LeaseDiscipline, RunLeased, Rank, Working
  <2>. QED BY <2>1, <2>2, <2>3 DEF WorkLeft
<1>. DEFINE A == \A r \in Runs : run'[r] # run[r] => WorkLeft(r)' < WorkLeft(r)
<1>2. IndInv /\ [Next]_vars => [A]_vars
  BY WorkStep
<1>. HIDE DEF A
<1>3. Spec => [][A]_vars
  BY <1>2, InvariantHolds, PTL DEF Spec
<1>4. Spec => []WorkIsBounded
  BY <1>1, InvariantHolds, PTL
<1>. QED BY <1>3, <1>4 DEF WorkRunsOut, A

-----------------------------------------------------------------------------
(* The rights of the later operations.                                     *)

\* The right to an operation, as GenerationRun and IngestionContract look at it:
\* not granted yet, in force, or ended by a denial, a revocation, the clock or
\* the block of the version.
RightTo(op) ==
    IF ~(admitted /\ rightsLive) \/ auth[op] \in {"denied", "revoked"} THEN "ended"
    ELSE IF auth[op] = "active" THEN "active"
    ELSE "pending"

\* A right is granted at most once and ends for good: the steps GrantRight and
\* EndRight of GenerationRun, and no others.
RightMoves(op) ==
    \/ RightTo(op)' = "ended"
    \/ RightTo(op) = "pending" /\ RightTo(op)' = "active"

RightLife(op) == RightTo(op) = "pending" /\ [][RightMoves(op)]_(RightTo(op))

\* One step of the rows behind the rights.
LEMMA RightsMove ==
    ASSUME IndInv, [Next]_vars, NEW op \in Operations
    PROVE  /\ admitted' => admitted
           /\ rightsLive' => rightsLive
           /\ \/ auth'[op] = auth[op]
              \/ auth[op] = "none" /\ auth'[op] = "requested"
              \/ auth[op] = "requested" /\ auth'[op] \in {"active", "denied"}
              \/ auth[op] = "active" /\ auth'[op] = "revoked"
<1>. DEFINE Goal == /\ admitted' => admitted
                    /\ rightsLive' => rightsLive
                    /\ \/ auth'[op] = auth[op]
                       \/ auth[op] = "none" /\ auth'[op] = "requested"
                       \/ auth[op] = "requested" /\ auth'[op] \in {"active", "denied"}
                       \/ auth[op] = "active" /\ auth'[op] = "revoked"
<1>0. auth \in [Operations -> {"none", "requested", "active", "denied", "revoked"}]
  BY DEF IndInv, TypeOK
<1>1. ASSUME NEW from, NEW to, NEW o \in Operations, Decision(o, from, to),
             \/ from = "none" /\ to = "requested"
             \/ from = "requested" /\ to \in {"active", "denied"}
             \/ from = "active" /\ to = "revoked"
      PROVE  Goal
  BY <1>0, <1>1 DEF Decision
<1>2. CASE Decide
  BY <1>1, <1>2
  DEF Decide, RequestAuthorization, ActivateAuthorization, DenyAuthorization, RevokeAuthorization,
      BlockVersion, RightsLapse
<1>3. ASSUME NEW c \in Calls, RequireOcr(c)
      PROVE  Goal
  BY <1>0, <1>3 DEF RequireOcr
<1>4. CASE UNCHANGED rights
  BY <1>4 DEF rights
<1>5. ASSUME NEW c \in Calls, NEW pc, NEW status, Check(c, pc, status)
      PROVE  UNCHANGED rights
  BY <1>5 DEF Check
<1>6. ASSUME NEW c \in Calls, NEW status, NEW work, AdvanceCommit(c, status, work)
      PROVE  UNCHANGED rights
  BY <1>6, SMTT(40) DEF AdvanceCommit
<1>7. ASSUME NEW c \in Calls, Continue(c), ~RequireOcr(c)
      PROVE  UNCHANGED rights
  BY <1>5, <1>6, <1>7
  DEF Continue, ClaimCommit, AdvanceCheck, Advance, Extract, Normalize, PersistCheck, PersistCommit,
      PersistMismatch, FinishFailure, FinishConflict
<1>8. ASSUME NEW c \in Calls, Crash(c)
      PROVE  UNCHANGED rights
  BY <1>8 DEF Crash
<1>9. ASSUME NEW r \in Runs, StartIngestion(r) \/ Claim(r) \/ LeaseLapse(r)
      PROVE  UNCHANGED rights
  BY <1>9 DEF StartIngestion, Claim, ClaimExhausted, ClaimBlocked, ClaimCheck, LeaseLapse
<1>10. CASE UNCHANGED vars
  BY <1>10 DEF vars, rights
<1>. QED BY <1>2, <1>3, <1>4, <1>7, <1>8, <1>9, <1>10 DEF Next

\* The right to every operation, to generate among them, lives the way the
\* components that need it assume: granted once, and ended for good.
THEOREM RightsEndForGood == Spec => \A op \in Operations : RightLife(op)
<1>. SUFFICES ASSUME NEW op \in Operations
             PROVE  Spec => RightLife(op)
  OBVIOUS
<1>1. Init => RightTo(op) = "pending"
  BY DEF Init, RightTo
<1>2. IndInv /\ [Next]_vars => [RightMoves(op)]_(RightTo(op))
  <2>. SUFFICES ASSUME IndInv, [Next]_vars
               PROVE  [RightMoves(op)]_(RightTo(op))
    OBVIOUS
  <2>1. admitted' => admitted
    BY RightsMove
  <2>2. rightsLive' => rightsLive
    BY RightsMove
  <2>3. \/ auth'[op] = auth[op]
        \/ auth[op] = "none" /\ auth'[op] = "requested"
        \/ auth[op] = "requested" /\ auth'[op] \in {"active", "denied"}
        \/ auth[op] = "active" /\ auth'[op] = "revoked"
    BY RightsMove
  <2>. DEFINE Good == admitted /\ rightsLive
  <2>4. ASSUME ~Good PROVE ~Good'
    BY <2>1, <2>2, <2>4
  <2>5. CASE ~Good
    <3>1. RightTo(op) = "ended" /\ RightTo(op)' = "ended"
      BY <2>4, <2>5 DEF RightTo
    <3>. QED BY <3>1
  <2>6. CASE Good /\ ~Good'
    BY <2>6 DEF RightTo, RightMoves
  <2>7. CASE Good /\ Good'
    <3>1. RightTo(op) = IF auth[op] \in {"denied", "revoked"} THEN "ended"
              ELSE IF auth[op] = "active" THEN "active" ELSE "pending"
      BY <2>7 DEF RightTo
    <3>2. RightTo(op)' = IF auth'[op] \in {"denied", "revoked"} THEN "ended"
               ELSE IF auth'[op] = "active" THEN "active" ELSE "pending"
      BY <2>7 DEF RightTo
    <3>. QED BY <2>3, <3>1, <3>2 DEF RightMoves
  <2>. QED BY <2>5, <2>6, <2>7
<1>3. Spec => [][RightMoves(op)]_(RightTo(op))
  BY <1>2, InvariantHolds, PTL DEF Spec
<1>4. Spec => RightTo(op) = "pending"
  BY <1>1, PTL DEF Spec
<1>. QED BY <1>3, <1>4 DEF RightLife

\* The right to extract does not end while a call stands between its checks and its
\* commit: nobody revokes it or blocks the version, as a lock on those rows would see
\* to, and the declaration does not run out meanwhile.
RightsWaitForChecks == [][ExtractActive /\ ~ExtractActive' => \A c \in Calls : ~call[c].checked]_vars

CheckedUnderRights == \A c \in Calls : call[c].checked => ExtractActive

LEMMA CheckedStep ==
    ASSUME IndInv, CheckedUnderRights, Next,
           ExtractActive /\ ~ExtractActive' => \A c \in Calls : ~call[c].checked
    PROVE  CheckedUnderRights'
<1>0. call \in [Calls -> CallStates]
  BY DEF IndInv, TypeOK
<1>1. CASE Decide
  BY <1>1
  DEF Decide, RequestAuthorization, ActivateAuthorization, DenyAuthorization, RevokeAuthorization, Decision,
      BlockVersion, RightsLapse, CheckedUnderRights
<1>2. ASSUME NEW c \in Calls, NEW state, Goes(c, state),
             ~state.checked \/ (ExtractActive /\ UNCHANGED rights)
      PROVE  CheckedUnderRights'
  <2>1. call'[c] = state /\ \A d \in Calls : d # c => call'[d] = call[d]
    BY <1>0, <1>2 DEF Goes
  <2>2. state.checked => ExtractActive'
    BY <1>2 DEF ExtractActive, rights
  <2>. QED BY <2>1, <2>2 DEF CheckedUnderRights
<1>3. ASSUME NEW c \in Calls
      PROVE  /\ ~IdleCall.checked
             /\ \A pc, n : ~[call[c] EXCEPT !.pc = pc, !.checked = FALSE, !.attempt = n].checked
             /\ \A pc : ~[call[c] EXCEPT !.pc = pc, !.checked = FALSE].checked
             /\ \A pc : [call[c] EXCEPT !.pc = pc].checked = call[c].checked
             /\ \A pc, pages : [call[c] EXCEPT !.pc = pc, !.pages = pages].checked = call[c].checked
             /\ \A pc, failure :
                   [call[c] EXCEPT !.pc = pc, !.failure = failure].checked = call[c].checked
  BY <1>0 DEF IdleCall, CallStates
<1>4. ASSUME NEW c \in Calls, NEW failure, ~call[c].checked, GiveUp(c, failure)
      PROVE  CheckedUnderRights'
  <2>. DEFINE state == [call[c] EXCEPT !.pc = "finish", !.failure = failure]
  <2>1. Goes(c, state) /\ ~state.checked
    BY <1>3, <1>4 DEF GiveUp
  <2>. HIDE DEF state
  <2>. QED BY <1>2, <2>1
<1>5. ASSUME NEW c \in Calls, NEW pc, ~call[c].checked, Goes(c, [call[c] EXCEPT !.pc = pc])
       PROVE  CheckedUnderRights'
  <2>. DEFINE state == [call[c] EXCEPT !.pc = pc]
  <2>1. Goes(c, state) /\ ~state.checked
    BY <1>3, <1>5
  <2>. HIDE DEF state
  <2>. QED BY <1>2, <2>1
<1>6. ASSUME NEW c \in Calls, NEW pc, NEW pages, ~call[c].checked,
              Goes(c, [call[c] EXCEPT !.pc = pc, !.pages = pages])
       PROVE  CheckedUnderRights'
  <2>. DEFINE state == [call[c] EXCEPT !.pc = pc, !.pages = pages]
  <2>1. Goes(c, state) /\ ~state.checked
    BY <1>3, <1>6
  <2>. HIDE DEF state
  <2>. QED BY <1>2, <2>1
<1>7. CASE UNCHANGED call
  BY <1>7 DEF CheckedUnderRights
<1>8. ASSUME NEW r \in Runs, StartIngestion(r) \/ LeaseLapse(r) \/ ClaimExhausted(r) \/ ClaimBlocked(r)
      PROVE  CheckedUnderRights'
  BY <1>7, <1>8 DEF StartIngestion, LeaseLapse, ClaimExhausted, ClaimBlocked
<1>9. ASSUME NEW r \in Runs, NEW c \in Calls, ClaimCheck(c, r)
      PROVE  CheckedUnderRights'
  BY <1>2, <1>9 DEF ClaimCheck
<1>10. ASSUME NEW c \in Calls, NEW pc, NEW status, Check(c, pc, status)
      PROVE  CheckedUnderRights'
  <2>1. CASE PassChecks(c, status)
    <3>1. ExtractActive /\ Goes(c, [call[c] EXCEPT !.checked = TRUE])
      BY <2>1 DEF PassChecks
    <3>2. UNCHANGED rights
      BY <1>10 DEF Check
    <3>. DEFINE state == [call[c] EXCEPT !.checked = TRUE]
    <3>3. Goes(c, state) /\ (~state.checked \/ (ExtractActive /\ UNCHANGED rights))
      BY <3>1, <3>2
    <3>. HIDE DEF state
    <3>. QED BY <1>2, <3>3
  <2>2. CASE FindRightsEnded(c, status)
    BY <1>10, <1>4, <2>2 DEF FindRightsEnded, Check, Begins
  <2>3. CASE Conflict(c, status)
    BY <1>2, <1>3, <2>3 DEF Conflict
  <2>. QED BY <1>10, <2>1, <2>2, <2>3 DEF Check
<1>11. ASSUME NEW c \in Calls, NEW status, NEW work, AdvanceCommit(c, status, work)
      PROVE  CheckedUnderRights'
  BY <1>2, <1>3, <1>11 DEF AdvanceCommit
<1>12. ASSUME NEW c \in Calls, Extract(c) \/ Normalize(c) \/ RequireOcr(c)
      PROVE  CheckedUnderRights'
  <2>1. ~call[c].checked
    <3>1. call[c].pc \in {"extract", "normalize"}
      BY <1>12 DEF Extract, Normalize, RequireOcr
    <3>2. call[c].checked =>
             call[c].pc \in {"claim", "extracting", "normalizing", "quality_check", "persist"}
      BY DEF IndInv, ChecksStand, Stands
    <3>. QED BY <3>1, <3>2
  <2>. QED BY <1>12, <1>4, <1>5, <1>6, <2>1 DEF Extract, Normalize, RequireOcr
<1>13. ASSUME NEW c \in Calls,
              \/ PersistCommit(c) \/ PersistMismatch(c)
              \/ FinishFailure(c) \/ FinishConflict(c) \/ Crash(c)
       PROVE  CheckedUnderRights'
  <2>1. Goes(c, IdleCall)
    BY <1>13 DEF PersistCommit, PersistMismatch, FinishFailure, FinishConflict, Crash
  <2>. QED BY <1>2, <1>3, <2>1
<1>14. ASSUME NEW c \in Calls, ClaimCommit(c)
       PROVE  CheckedUnderRights'
  BY <1>2, <1>3, <1>14 DEF ClaimCommit
<1>. QED BY <1>1, <1>8, <1>9, <1>10, <1>11, <1>12, <1>13, <1>14
     DEF Next, Claim, Continue, AdvanceCheck, Advance, PersistCheck

\* A run that a step makes ready was committed by a call that had passed its checks.
LEMMA ReadyStep ==
    ASSUME IndInv, CheckedUnderRights, Next, NEW r \in Runs,
           run'[r].status = "ready_for_generation", run[r].status # "ready_for_generation"
    PROVE  ExtractActive
<1>1. CASE Quiet
  BY <1>1, QuietKeeps
<1>2. ASSUME NEW q \in Runs, RowOnly(q), run'[q].status # "ready_for_generation"
      PROVE  FALSE
  BY <1>2 DEF RowOnly
<1>3. ASSUME NEW q \in Runs, StartIngestion(q) \/ LeaseLapse(q)
      PROVE  FALSE
  <2>1. CASE StartIngestion(q)
    BY <1>2, <2>1, StartEffect DEF StartSaved
  <2>2. CASE LeaseLapse(q)
    BY <2>2, LapseEffect DEF LapseSaved, RowOnly
  <2>. QED BY <1>3, <2>1, <2>2
<1>4. ASSUME NEW q \in Runs, NEW status \in {"failed", "rights_blocked"}, ClaimEnds(q, status)
      PROVE  FALSE
  <2>1. EndSaved(q, status)
    BY <1>4, ClaimEndsEffect DEF ClaimEnds
  <2>. QED BY <1>2, <2>1 DEF EndSaved
<1>5. ASSUME NEW c \in Calls, ClaimCommit(c)
      PROVE  FALSE
  <2>1. PICK q \in Runs : ClaimSaved(c, q)
    BY <1>5, ClaimEffect
  <2>. QED BY <1>2, <2>1 DEF ClaimSaved
<1>6. ASSUME NEW c \in Calls, NEW step \in AdvanceSteps, AdvanceCommit(c, step[1], step[2])
      PROVE  FALSE
  <2>1. step[1] \in Working \ {"claimed"}
    BY DEF AdvanceSteps, Working
  <2>2. PICK q \in Runs : AdvanceSaved(c, q, step[1])
    BY <1>6, <2>1, AdvanceEffect
  <2>. QED BY <1>2, <2>1, <2>2 DEF AdvanceSaved, Working
<1>7. ASSUME NEW c \in Calls, PersistCommit(c)
      PROVE  ExtractActive
  BY <1>7 DEF PersistCommit, CheckedUnderRights
<1>8. ASSUME NEW c \in Calls, FinishFailure(c)
      PROVE  FALSE
  <2>1. PICK q \in Runs : FinishSaved(c, q)
    BY <1>8, FinishEffect
  <2>. QED BY <1>2, <2>1 DEF FinishSaved
<1>. QED BY <1>1, <1>3, <1>4, <1>5, <1>6, <1>7, <1>8, NextCases

\* Finding 4 has no other cause than the unlocked read of the rights: where they
\* do not end between a call's checks and its commit, no run becomes ready without
\* them, however late the call and whatever crashed before.
THEOREM OnlyTheGapMisses == Spec /\ RightsWaitForChecks => ReadyUnderRights
<1>. DEFINE B == ExtractActive /\ ~ExtractActive' => \A c \in Calls : ~call[c].checked
            A == \A r \in Runs :
                    run'[r].status = "ready_for_generation" /\ run[r].status # "ready_for_generation"
                       => ExtractActive
<1>1. Init => CheckedUnderRights
  BY DEF Init, IdleCall, CheckedUnderRights
<1>2. IndInv /\ CheckedUnderRights /\ [Next]_vars /\ [B]_vars => CheckedUnderRights'
  <2>1. CASE UNCHANGED vars
    BY <2>1 DEF vars, CheckedUnderRights, ExtractActive
  <2>. QED BY <2>1, CheckedStep
<1>3. IndInv /\ CheckedUnderRights /\ [Next]_vars => [A]_vars
  BY ReadyStep
<1>. HIDE DEF A
<1>4. Spec /\ [][B]_vars => [][A]_vars
  <2>. HIDE DEF B
  <2>. QED BY <1>1, <1>2, <1>3, InvariantHolds, PTL DEF Spec
<1>. QED BY <1>4 DEF RightsWaitForChecks, ReadyUnderRights, A

-----------------------------------------------------------------------------
(* Worker ids of their own.                                                *)

\* The lease a call takes is in no other call's name, once it is stripped.
EachItsOwn == \A c, d \in Calls : Strip[WorkerId[c]] = WorkerId[d] => c = d

InWork(c) == call[c].pc \notin {"idle", "claim"}

\* A call that still owns the lease opened the attempt it covers.
OwnsLast(c) == InWork(c) /\ Owns(c) => call[c].attempt = run[call[c].run].attempts

\* A call goes on with the run and the attempt it had, or has none.
SameWork(c) ==
    \/ ~InWork(c)'
    \/ InWork(c) /\ call'[c].run = call[c].run /\ call'[c].attempt = call[c].attempt

LEMMA CallsGoOn ==
    ASSUME TypeOK, Next, NEW d \in Calls
    PROVE  SameWork(d) \/ ClaimCommit(d)
<1>1. call \in [Calls -> CallStates]
  BY DEF TypeOK
<1>2. ASSUME call' = call PROVE SameWork(d)
  BY <1>2 DEF SameWork, InWork
<1>3. ASSUME NEW c \in Calls, NEW state, Goes(c, state),
             \/ state.pc \in {"idle", "claim"}
             \/ InWork(c) /\ state.run = call[c].run /\ state.attempt = call[c].attempt
      PROVE  SameWork(d)
  <2>1. CASE d = c
    <3>1. call'[d] = state
      BY <1>1, <1>3, <2>1 DEF Goes
    <3>. QED BY <1>3, <2>1, <3>1 DEF SameWork, InWork
  <2>2. CASE d # c
    <3>1. call'[d] = call[d]
      BY <1>1, <1>3, <2>2 DEF Goes
    <3>. QED BY <3>1 DEF SameWork, InWork
  <2>. QED BY <2>1, <2>2
<1>4. ASSUME NEW c \in Calls, NEW failure, GiveUp(c, failure), InWork(c)
      PROVE  SameWork(d)
  <2>. DEFINE state == [call[c] EXCEPT !.pc = "finish", !.failure = failure]
  <2>1. state.run = call[c].run /\ state.attempt = call[c].attempt
    BY <1>1 DEF CallStates
  <2>. QED BY <1>3, <1>4, <2>1 DEF GiveUp
<1>5. ASSUME NEW c \in Calls, Goes(c, IdleCall)
      PROVE  SameWork(d)
  BY <1>3, <1>5 DEF IdleCall
<1>6. ASSUME NEW c \in Calls, NEW pc, pc \notin {"idle", "claim"}, NEW status,
             Check(c, pc, status)
      PROVE  SameWork(d)
  <2>1. InWork(c)
    BY <1>6 DEF Check, Begins, InWork
  <2>2. CASE Goes(c, [call[c] EXCEPT !.checked = TRUE])
    <3>1. /\ [call[c] EXCEPT !.checked = TRUE].run = call[c].run
          /\ [call[c] EXCEPT !.checked = TRUE].attempt = call[c].attempt
      BY <1>1 DEF CallStates
    <3>. QED BY <1>3, <2>1, <2>2, <3>1
  <2>. QED BY <1>4, <1>5, <1>6, <2>1, <2>2 DEF Check, PassChecks, FindRightsEnded, Conflict
<1>7. ASSUME NEW c \in Calls, AdvanceCheck(c) \/ PersistCheck(c)
      PROVE  SameWork(d)
  BY <1>6, <1>7 DEF AdvanceCheck, PersistCheck
<1>8. ASSUME NEW c \in Calls, NEW r \in Runs, ClaimCheck(c, r)
      PROVE  SameWork(d)
  <2>1. [call[c] EXCEPT !.pc = "claim", !.checked = TRUE, !.run = r].pc = "claim"
    BY <1>1 DEF CallStates
  <2>. QED BY <1>3, <1>8, <2>1 DEF ClaimCheck
<1>9. ASSUME NEW c \in Calls, NEW step \in AdvanceSteps, AdvanceCommit(c, step[1], step[2])
      PROVE  SameWork(d)
  <2>. DEFINE state == [call[c] EXCEPT !.pc = step[2], !.checked = FALSE]
  <2>1. state.run = call[c].run /\ state.attempt = call[c].attempt
    BY <1>1 DEF CallStates
  <2>2. InWork(c) /\ Goes(c, state)
    BY <1>9 DEF AdvanceCommit, AdvanceSteps, InWork
  <2>. QED BY <1>3, <2>1, <2>2
<1>10. ASSUME NEW c \in Calls, Extract(c) \/ Normalize(c) \/ RequireOcr(c)
       PROVE  SameWork(d)
  <2>1. InWork(c)
    BY <1>10 DEF Extract, Normalize, RequireOcr, InWork
  <2>2. CASE Goes(c, [call[c] EXCEPT !.pc = "normalizing"])
    <3>1. /\ [call[c] EXCEPT !.pc = "normalizing"].run = call[c].run
          /\ [call[c] EXCEPT !.pc = "normalizing"].attempt = call[c].attempt
      BY <1>1 DEF CallStates
    <3>. QED BY <1>3, <2>1, <2>2, <3>1
  <2>3. ASSUME NEW pages, Goes(c, [call[c] EXCEPT !.pc = "quality_check", !.pages = pages])
        PROVE  SameWork(d)
    <3>1. /\ [call[c] EXCEPT !.pc = "quality_check", !.pages = pages].run = call[c].run
          /\ [call[c] EXCEPT !.pc = "quality_check", !.pages = pages].attempt = call[c].attempt
      BY <1>1 DEF CallStates
    <3>. QED BY <1>3, <2>1, <2>3, <3>1
  <2>. QED BY <1>4, <1>10, <2>1, <2>2, <2>3 DEF Extract, Normalize, RequireOcr
<1>11. ASSUME NEW c \in Calls,
              PersistMismatch(c) \/ FinishConflict(c) \/ Crash(c) \/ PersistCommit(c) \/ FinishFailure(c)
       PROVE  SameWork(d)
  <2>1. Goes(c, IdleCall)
    BY <1>11 DEF PersistMismatch, FinishConflict, Crash, PersistCommit, FinishFailure
  <2>. QED BY <1>5, <2>1
<1>12. CASE Decide
  BY <1>2, <1>12
  DEF Decide, RequestAuthorization, ActivateAuthorization, DenyAuthorization, RevokeAuthorization,
      Decision, BlockVersion, RightsLapse
<1>13. ASSUME NEW r \in Runs, StartIngestion(r) \/ LeaseLapse(r)
       PROVE  SameWork(d)
  BY <1>2, <1>13 DEF StartIngestion, LeaseLapse
<1>14. ASSUME NEW r \in Runs, NEW status, ClaimEnds(r, status)
       PROVE  SameWork(d)
  BY <1>2, <1>14 DEF ClaimEnds
<1>15. ASSUME NEW c \in Calls, ClaimCommit(c), c # d
       PROVE  SameWork(d)
  <2>1. call'[d] = call[d]
    BY <1>1, <1>15 DEF ClaimCommit, Goes
  <2>. QED BY <2>1 DEF SameWork, InWork
<1>16. CASE Quiet
  BY <1>7, <1>8, <1>10, <1>11, <1>12, <1>16 DEF Quiet
<1>. QED BY <1>9, <1>11, <1>13, <1>14, <1>15, <1>16, NextCases

\* A lease keeps its owner and its attempt, ends, or is taken by a claim.
LEMMA LeasesGoOn ==
    ASSUME IndInv, Next, NEW r \in Runs
    PROVE  \/ run'[r].owner = run[r].owner /\ run'[r].attempts = run[r].attempts
           \/ run'[r].owner = None
           \/ \E c \in Calls : ClaimCommit(c) /\ ClaimSaved(c, r)
<1>1. CASE Quiet
  BY <1>1, QuietKeeps
<1>2. ASSUME NEW q \in Runs, StartIngestion(q) \/ LeaseLapse(q)
      PROVE  run'[r].owner = run[r].owner /\ run'[r].attempts = run[r].attempts
  BY <1>2, StartEffect, LapseEffect DEF StartSaved, LapseSaved, RowOnly
<1>3. ASSUME NEW q \in Runs, NEW status \in {"failed", "rights_blocked"}, ClaimEnds(q, status)
      PROVE  \/ run'[r] = run[r]
             \/ run'[r].owner = None
  BY <1>3, ClaimEndsEffect DEF ClaimEnds, EndSaved, RowOnly
<1>4. ASSUME NEW c \in Calls, ClaimCommit(c)
      PROVE  run'[r] = run[r] \/ ClaimSaved(c, r)
  <2>1. PICK q \in Runs : ClaimSaved(c, q)
    BY <1>4, ClaimEffect
  <2>. QED BY <2>1 DEF ClaimSaved, RowOnly
<1>5. ASSUME NEW c \in Calls, NEW step \in AdvanceSteps, AdvanceCommit(c, step[1], step[2])
      PROVE  run'[r].owner = run[r].owner /\ run'[r].attempts = run[r].attempts
  <2>1. step[1] \in Working \ {"claimed"}
    BY DEF AdvanceSteps, Working
  <2>2. PICK q \in Runs : AdvanceSaved(c, q, step[1])
    BY <1>5, <2>1, AdvanceEffect
  <2>. QED BY <2>2 DEF AdvanceSaved, RowOnly
<1>6. ASSUME NEW c \in Calls, PersistCommit(c) \/ FinishFailure(c)
      PROVE  run'[r] = run[r] \/ run'[r].owner = None
  BY <1>6, PersistEffect, FinishEffect DEF PersistSaved, FinishSaved, RowOnly
<1>. QED BY <1>1, <1>2, <1>3, <1>4, <1>5, <1>6, NextCases

LEMMA OwnsLastStep ==
    ASSUME EachItsOwn, IndInv, Next, \A c \in Calls : OwnsLast(c), NEW d \in Calls
    PROVE  OwnsLast(d)'
<1>. SUFFICES ASSUME InWork(d)', Owns(d)'
              PROVE  call'[d].attempt = run'[call'[d].run].attempts
  BY DEF OwnsLast
<1>1. run'[call'[d].run].owner = WorkerId[d]
  BY DEF Owns
<1>2. CASE ClaimCommit(d)
  <2>1. PICK r \in Runs : ClaimSaved(d, r)
    BY <1>2, ClaimEffect
  <2>2. r = call[d].run
    BY <2>1 DEF ClaimSaved
  <2>3. call'[d] = [call[d] EXCEPT !.pc = "extracting", !.checked = FALSE,
                                   !.attempt = run[r].attempts + 1]
    BY <1>2, <2>2 DEF ClaimCommit, Goes, IndInv, TypeOK
  <2>4. call'[d].run = r /\ call'[d].attempt = run[r].attempts + 1
    BY <2>2, <2>3 DEF IndInv, TypeOK, CallStates
  <2>. QED BY <2>1, <2>4 DEF ClaimSaved
<1>3. CASE ~ClaimCommit(d)
  <2>1. InWork(d) /\ call'[d].run = call[d].run /\ call'[d].attempt = call[d].attempt
    BY <1>3, CallsGoOn DEF SameWork, IndInv
  <2>2. call[d].run \in Runs
    BY <2>1 DEF InWork, IndInv, CallsCarry, Carries
  <2>3. run'[call[d].run].owner # None
    BY <1>1, <2>1, NoneAssumption DEF NoneAssumption, Ids
  <2>4. ASSUME NEW c \in Calls, ClaimCommit(c), ClaimSaved(c, call[d].run)
        PROVE  FALSE
    <3>1. Strip[WorkerId[c]] = WorkerId[d]
      BY <1>1, <2>1, <2>4 DEF ClaimSaved
    <3>. QED BY <1>3, <2>4, <3>1 DEF EachItsOwn
  <2>5. run'[call[d].run].owner = run[call[d].run].owner
        /\ run'[call[d].run].attempts = run[call[d].run].attempts
    BY <2>2, <2>3, <2>4, LeasesGoOn
  <2>6. Owns(d)
    BY <1>1, <2>1, <2>5 DEF Owns
  <2>. QED BY <2>1, <2>5, <2>6 DEF OwnsLast
<1>. QED BY <1>2, <1>3

\* How an attempt ends, whoever asks.
Ended(r, n) ==
    attempt[r][n] = "running" /\ attempt'[r][n] # "running" =>
       \/ ~run[r].live /\ attempt'[r][n] = "retryable"
       \/ \E c \in Calls : /\ call[c].run = r
                           /\ call[c].attempt = n
                           /\ call'[c].pc = "idle"

LEMMA EndedStep ==
    ASSUME IndInv, Next, \A c \in Calls : OwnsLast(c), NEW r \in Runs, NEW n \in Attempts
    PROVE  Ended(r, n)
<1>. SUFFICES ASSUME attempt[r][n] = "running", attempt'[r][n] # "running"
              PROVE  \/ ~run[r].live /\ attempt'[r][n] = "retryable"
                     \/ \E c \in Calls : call[c].run = r /\ call[c].attempt = n /\ call'[c].pc = "idle"
  BY DEF Ended
<1>1. n = run[r].attempts /\ run[r].status \in Working
  BY DEF IndInv, LeaseDiscipline, RunLeased
<1>2. ~Quiet /\ \A q \in Runs : ~StartIngestion(q) /\ ~LeaseLapse(q)
  BY QuietKeeps, StartEffect, LapseEffect DEF StartSaved, LapseSaved, RowOnly
<1>3. ASSUME NEW q \in Runs, NEW status \in {"failed", "rights_blocked"}, ClaimEnds(q, status)
      PROVE  ~run[r].live /\ attempt'[r][n] = "retryable"
  <2>1. EndSaved(q, status)
    BY <1>3, ClaimEndsEffect DEF ClaimEnds
  <2>2. q = r
    BY <2>1 DEF EndSaved, RowOnly
  <2>. QED BY <1>1, <1>3, <2>1, <2>2 DEF EndSaved, ClaimEnds, Takeable, LeaseExpired, Working
<1>4. ASSUME NEW c \in Calls, ClaimCommit(c)
      PROVE  ~run[r].live /\ attempt'[r][n] = "retryable"
  <2>1. PICK q \in Runs : ClaimSaved(c, q)
    BY <1>4, ClaimEffect
  <2>2. q = r
    BY <2>1 DEF ClaimSaved, RowOnly
  <2>3. run[r].status \in {"queued", "retryable"} \/ LeaseExpired(r)
    <3>1. call[c].pc = "claim" /\ call[c].run = r
      BY <1>4, <2>1, <2>2 DEF ClaimSaved, ClaimCommit
    <3>2. Stands(c)
      BY DEF IndInv, ChecksStand
    <3>. QED BY <3>1, <3>2 DEF Stands
  <2>. QED BY <1>1, <2>1, <2>2, <2>3 DEF ClaimSaved, LeaseExpired, Working
<1>5. ASSUME NEW c \in Calls, NEW step \in AdvanceSteps, AdvanceCommit(c, step[1], step[2])
      PROVE  FALSE
  BY <1>5 DEF AdvanceCommit
<1>6. ASSUME NEW c \in Calls, PersistCommit(c)
      PROVE  call[c].run = r /\ call[c].attempt = n /\ call'[c].pc = "idle"
  <2>1. PICK q \in Runs : PersistSaved(c, q)
    BY <1>6, PersistEffect
  <2>2. q = r /\ call[c].run = r
    BY <2>1 DEF PersistSaved, RowOnly
  <2>3. InWork(c) /\ Owns(c)
    BY <1>6 DEF PersistCommit, InWork, IndInv, ChecksStand, Stands
  <2>4. call'[c].pc = "idle"
    BY <1>6 DEF PersistCommit, Goes, IdleCall, IndInv, TypeOK
  <2>. QED BY <1>1, <2>2, <2>3, <2>4 DEF OwnsLast
<1>7. ASSUME NEW c \in Calls, FinishFailure(c)
      PROVE  call[c].run = r /\ call[c].attempt = n /\ call'[c].pc = "idle"
  <2>1. PICK q \in Runs : FinishSaved(c, q)
    BY <1>7, FinishEffect
  <2>2. q = r /\ call[c].run = r
    BY <2>1 DEF FinishSaved, RowOnly
  <2>3. InWork(c) /\ Owns(c)
    BY <1>7 DEF FinishFailure, MayFinish, Begins, InWork
  <2>4. call'[c].pc = "idle"
    BY <1>7 DEF FinishFailure, Goes, IdleCall, IndInv, TypeOK
  <2>. QED BY <1>1, <2>2, <2>3, <2>4 DEF OwnsLast
<1>. QED BY <1>2, <1>3, <1>4, <1>5, <1>6, <1>7, NextCases

\* If every lease is in its call's own name, a running attempt is ended by the call that
\* opened it, or closed by a claim once its lease ran out, however late calls return.
THEOREM AttemptsAreTheirCalls ==
    ASSUME EachItsOwn
    PROVE  Spec => AttemptsEndedByTheirCall
<1>1. Init => \A c \in Calls : OwnsLast(c)
  BY DEF Init, OwnsLast, InWork, IdleCall
<1>2. IndInv /\ (\A c \in Calls : OwnsLast(c)) /\ [Next]_vars => (\A c \in Calls : OwnsLast(c))'
  <2>1. CASE UNCHANGED vars
    BY <2>1 DEF vars, OwnsLast, InWork, Owns
  <2>. QED BY <2>1, OwnsLastStep
<1>3. IndInv /\ (\A c \in Calls : OwnsLast(c)) /\ [Next]_vars =>
        [\A r \in Runs, n \in Attempts :
           attempt[r][n] = "running" /\ attempt'[r][n] # "running" =>
              \/ ~run[r].live /\ attempt'[r][n] = "retryable"
              \/ \E c \in Calls : /\ call[c].run = r
                                  /\ call[c].attempt = n
                                  /\ call'[c].pc = "idle"]_vars
  BY EndedStep DEF Ended
<1>. QED BY <1>1, <1>2, <1>3, InvariantHolds, PTL DEF Spec, AttemptsEndedByTheirCall

-----------------------------------------------------------------------------
(* Ingestion implements IngestionContract.                                 *)

\* The runs as the contract sees them.
Seen == [r \in Runs |-> RunState(run[r].status)]

LEMMA ContractInit == Init => Contract!Init
<1>. SUFFICES ASSUME Init PROVE Contract!Init
  OBVIOUS
<1>1. Rights = "pending"
  BY OperationsAssumption DEF Init, Rights, ExtractActive, OperationsAssumption
<1>2. Seen = [r \in Runs |-> "none"]
  BY DEF Init, Seen, NoRun, RunState, Open, Working
<1>3. artifacts = None
  BY DEF Init
<1>. QED BY <1>1, <1>2, <1>3, Zenon DEF Contract!Init, Seen

\* The contract sees nothing of a step that leaves its variables alone.
LEMMA ContractStutter ==
    ASSUME Rights' = Rights, Seen' = Seen, artifacts' = artifacts
    PROVE  UNCHANGED Contract!vars
  BY Zenon DEF Contract!vars, Seen

LEMMA RightsSame ==
    ASSUME admitted' = admitted, rightsLive' = rightsLive, auth'["extract"] = auth["extract"]
    PROVE  Rights' = Rights
  BY DEF Rights, ExtractActive

\* One run is seen to change.
LEMMA SeenChange ==
    ASSUME NEW r \in Runs, RowOnly(r)
    PROVE  Seen' = [Seen EXCEPT ![r] = RunState(run'[r].status)]
  BY DEF Seen, RowOnly

LEMMA SeenSame ==
    ASSUME NEW r \in Runs, RowOnly(r), RunState(run'[r].status) = RunState(run[r].status)
    PROVE  Seen' = Seen
  BY DEF Seen, RowOnly

\* A decision grants the right to extract, ends it, or does not touch it.
LEMMA ContractDecide ==
    ASSUME IndInv, Decide
    PROVE  Contract!Next \/ UNCHANGED Contract!vars
<1>0. auth \in [Operations -> {"none", "requested", "active", "denied", "revoked"}]
      /\ "extract" \in Operations
  BY OperationsAssumption DEF IndInv, TypeOK, OperationsAssumption
<1>1. UNCHANGED <<run, artifacts>>
  BY DEF Decide, RequestAuthorization, ActivateAuthorization, DenyAuthorization, RevokeAuthorization,
         Decision, BlockVersion, RightsLapse
<1>2. Seen' = Seen
  BY <1>1 DEF Seen
<1>3. \/ Rights' = Rights
      \/ Rights = "pending" /\ Rights' = "active"
      \/ Rights' = "ended"
  <2>1. CASE BlockVersion \/ RightsLapse
    BY <2>1 DEF BlockVersion, RightsLapse, Rights, ExtractActive
  <2>2. ASSUME NEW op \in Operations, NEW from, NEW to, Decision(op, from, to), op # "extract"
        PROVE  Rights' = Rights
    BY <1>0, <2>2, RightsSame DEF Decision
  <2>3. ASSUME NEW from, NEW to, Decision("extract", from, to)
        PROVE  /\ admitted' = admitted /\ rightsLive' = rightsLive /\ admitted /\ rightsLive
               /\ auth["extract"] = from /\ auth'["extract"] = to
    BY <1>0, <2>3 DEF Decision, StoreActive
  <2>4. CASE Decision("extract", "none", "requested")
    BY <2>3, <2>4 DEF Rights, ExtractActive
  <2>5. CASE Decision("extract", "requested", "active")
    BY <2>3, <2>5 DEF Rights, ExtractActive
  <2>6. CASE Decision("extract", "requested", "denied") \/ Decision("extract", "active", "revoked")
    BY <2>3, <2>6 DEF Rights, ExtractActive
  <2>. QED BY <2>1, <2>2, <2>4, <2>5, <2>6
       DEF Decide, RequestAuthorization, ActivateAuthorization, DenyAuthorization, RevokeAuthorization
<1>4. CASE Rights' = Rights
  BY <1>1, <1>2, <1>4, ContractStutter
<1>5. CASE Rights = "pending" /\ Rights' = "active"
  <2>1. Contract!Grant
    BY <1>1, <1>2, <1>5, Zenon DEF Contract!Grant, Seen
  <2>. QED BY <2>1 DEF Contract!Next
<1>6. CASE Rights' = "ended"
  <2>1. Contract!End
    BY <1>1, <1>2, <1>6, Zenon DEF Contract!End, Seen
  <2>. QED BY <2>1 DEF Contract!Next
<1>. QED BY <1>3, <1>4, <1>5, <1>6

\* A run that ends, failed or blocked.
LEMMA ContractEnds ==
    ASSUME IndInv, NEW r \in Runs, RowOnly(r), run[r].status \in Open,
           UNCHANGED <<rights, artifacts>>,
           \/ run'[r].status = "failed"
           \/ run'[r].status = "rights_blocked" /\ ~ExtractActive
    PROVE  Contract!Next
<1>1. Rights' = Rights
  BY RightsSame DEF rights
<1>2. Seen[r] = "open"
  BY DEF Seen, RunState
<1>3. CASE run'[r].status = "failed"
  <2>1. Seen' = [Seen EXCEPT ![r] = "failed"]
    BY <1>3, SeenChange DEF RunState, Open, Working
  <2>2. Contract!Fail(r)
    BY <1>1, <1>2, <2>1, Zenon DEF Contract!Fail, Seen
  <2>. QED BY <2>2 DEF Contract!Next
<1>4. CASE run'[r].status = "rights_blocked" /\ ~ExtractActive
  <2>1. Seen' = [Seen EXCEPT ![r] = "blocked"]
    BY <1>4, SeenChange DEF RunState, Open, Working
  <2>2. Rights = "ended"
    BY <1>4 DEF Rights, ExtractActive, IndInv, BlockedForGood, Open, Working
  <2>3. Contract!Block(r)
    BY <1>1, <1>2, <2>1, <2>2, Zenon DEF Contract!Block, Seen
  <2>. QED BY <2>3 DEF Contract!Next
<1>. QED BY <1>3, <1>4

\* A run that stays open.
LEMMA ContractGoesOn ==
    ASSUME NEW r \in Runs, RowOnly(r), run[r].status \in Open, run'[r].status \in Open,
           UNCHANGED <<rights, artifacts>>
    PROVE  UNCHANGED Contract!vars
<1>1. Rights' = Rights
  BY RightsSame DEF rights
<1>2. Seen' = Seen
  BY SeenSame DEF RunState
<1>. QED BY <1>1, <1>2, ContractStutter

LEMMA ContractQuiet ==
    ASSUME IndInv, Quiet
    PROVE  Contract!Next \/ UNCHANGED Contract!vars
<1>1. CASE Decide
  BY <1>1, ContractDecide
<1>2. ASSUME admitted' = admitted, rightsLive' = rightsLive, auth'["extract"] = auth["extract"]
      PROVE  UNCHANGED Contract!vars
  <2>1. UNCHANGED <<run, artifacts>>
    BY QuietKeeps
  <2>2. Seen' = Seen
    BY <2>1 DEF Seen
  <2>. QED BY <1>2, <2>1, <2>2, RightsSame, ContractStutter
<1>3. CASE UNCHANGED rights
  BY <1>2, <1>3 DEF rights
<1>4. ASSUME NEW c \in Calls, RequireOcr(c)
      PROVE  UNCHANGED Contract!vars
  <2>1. auth'["extract"] = auth["extract"]
    BY <1>4, OperationsAssumption DEF RequireOcr, IndInv, TypeOK, OperationsAssumption
  <2>. QED BY <1>2, <1>4, <2>1 DEF RequireOcr
<1>5. ASSUME NEW c \in Calls, AdvanceCheck(c) \/ PersistCheck(c)
      PROVE  UNCHANGED rights
  BY <1>5 DEF AdvanceCheck, PersistCheck, Check
<1>6. ASSUME NEW c \in Calls,
             \/ \E r \in Runs : ClaimCheck(c, r)
             \/ Extract(c) \/ Normalize(c) \/ PersistMismatch(c) \/ FinishConflict(c) \/ Crash(c)
      PROVE  UNCHANGED rights
  BY <1>6 DEF ClaimCheck, Extract, Normalize, PersistMismatch, FinishConflict, Crash
<1>. QED BY <1>1, <1>3, <1>4, <1>5, <1>6 DEF Quiet

LEMMA ContractStep ==
    ASSUME IndInv, Next
    PROVE  Contract!Next \/ UNCHANGED Contract!vars
<1>1. CASE Quiet
  BY <1>1, ContractQuiet
<1>2. ASSUME NEW r \in Runs, StartIngestion(r)
      PROVE  Contract!Next
  <2>1. StartSaved(r)
    BY <1>2, StartEffect
  <2>2. Rights = "active" /\ Rights' = Rights /\ artifacts' = artifacts
    BY <1>2, <2>1, RightsSame DEF StartSaved, StartIngestion, Rights, rights
  <2>3. /\ \A q \in Runs : Seen[q] # "open"
        /\ Seen[r] = "none"
    <3>1. \A q \in Runs : run[q].status \notin Open /\ run[q].status # "open"
      BY <1>2 DEF StartIngestion, IndInv, TypeOK, RunRows, Open, Working, Terminal
    <3>2. run[r].status = "none"
      BY <2>1 DEF StartSaved
    <3>. QED BY <3>1, <3>2 DEF Seen, RunState, Open, Working
  <2>4. Seen' = [Seen EXCEPT ![r] = "open"]
    BY <2>1, SeenChange DEF StartSaved, RunState, Open
  <2>5. Contract!Request(r)
    BY <2>2, <2>3, <2>4, Zenon DEF Contract!Request, Seen
  <2>. QED BY <2>5 DEF Contract!Next
<1>3. ASSUME NEW r \in Runs, LeaseLapse(r)
      PROVE  UNCHANGED Contract!vars
  <2>1. LapseSaved(r)
    BY <1>3, LapseEffect
  <2>2. run[r].status \in Open
    BY <1>3 DEF LeaseLapse, IndInv, LeaseDiscipline, RunLeased, Open
  <2>. QED BY <2>1, <2>2, ContractGoesOn DEF LapseSaved
<1>4. ASSUME NEW r \in Runs, NEW status \in {"failed", "rights_blocked"}, ClaimEnds(r, status)
      PROVE  Contract!Next
  <2>1. EndSaved(r, status)
    BY <1>4, ClaimEndsEffect DEF ClaimEnds
  <2>2. UNCHANGED <<rights, artifacts>> /\ (status = "rights_blocked" => ~ExtractActive)
    BY <1>4 DEF ClaimEnds
  <2>. QED BY <2>1, <2>2, ContractEnds DEF EndSaved
<1>5. ASSUME NEW c \in Calls, ClaimCommit(c)
      PROVE  UNCHANGED Contract!vars
  <2>1. PICK r \in Runs : ClaimSaved(c, r)
    BY <1>5, ClaimEffect
  <2>2. UNCHANGED <<rights, artifacts>>
    BY <1>5 DEF ClaimCommit
  <2>3. "claimed" \in Open
    BY DEF Open, Working
  <2>. QED BY <2>1, <2>2, <2>3, ContractGoesOn DEF ClaimSaved
<1>6. ASSUME NEW c \in Calls, NEW step \in AdvanceSteps, AdvanceCommit(c, step[1], step[2])
      PROVE  UNCHANGED Contract!vars
  <2>1. step[1] \in Working \ {"claimed"} /\ Stage(step[1]) \subseteq Open /\ step[1] \in Open
    BY DEF AdvanceSteps, Working, Stage, Open
  <2>2. PICK r \in Runs : AdvanceSaved(c, r, step[1])
    BY <1>6, <2>1, AdvanceEffect
  <2>3. UNCHANGED <<rights, artifacts>>
    BY <1>6 DEF AdvanceCommit
  <2>. QED BY <2>1, <2>2, <2>3, ContractGoesOn DEF AdvanceSaved
<1>7. ASSUME NEW c \in Calls, PersistCommit(c)
      PROVE  Contract!Next
  <2>1. PICK r \in Runs : PersistSaved(c, r)
    BY <1>7, PersistEffect
  <2>2. /\ artifacts \in {None, call[c].pages} /\ artifacts' = call[c].pages
        /\ UNCHANGED rights /\ call[c].pages \in Projections
    BY <1>7, <2>1 DEF PersistCommit, PersistSaved
  <2>3. Rights' = Rights
    BY <2>2, RightsSame DEF rights
  <2>4. Seen[r] = "open"
    BY <2>1 DEF PersistSaved, Seen, RunState, Open, Working
  <2>5. Seen' = [Seen EXCEPT ![r] = "ready"]
    BY <2>1, SeenChange DEF PersistSaved, RunState, Open, Working
  <2>6. Contract!Deliver(r, call[c].pages)
    BY <2>2, <2>3, <2>4, <2>5, Zenon DEF Contract!Deliver, Seen
  <2>. QED BY <2>2, <2>6 DEF Contract!Next
<1>8. ASSUME NEW c \in Calls, FinishFailure(c)
      PROVE  Contract!Next \/ UNCHANGED Contract!vars
  <2>1. PICK r \in Runs : FinishSaved(c, r)
    BY <1>8, FinishEffect
  <2>2. UNCHANGED <<rights, artifacts>>
    BY <1>8 DEF FinishFailure
  <2>3. run[r].status \in Open /\ RowOnly(r)
    BY <2>1 DEF FinishSaved, Open
  <2>4. CASE run'[r].status = "retryable"
    BY <2>2, <2>3, <2>4, ContractGoesOn DEF Open
  <2>5. CASE run'[r].status # "retryable"
    <3>1. call[c].failure = "rights" => ~ExtractActive
      BY DEF IndInv, CallsCarry, Carries
    <3>2. \/ run'[r].status = "failed"
          \/ run'[r].status = "rights_blocked" /\ ~ExtractActive
      BY <2>1, <2>5, <3>1 DEF FinishSaved
    <3>. QED BY <2>2, <2>3, <3>2, ContractEnds
  <2>. QED BY <2>4, <2>5
<1>. QED BY <1>1, <1>2, <1>3, <1>4, <1>5, <1>6, <1>7, <1>8, NextCases

\* Ingestion implements IngestionContract: one open run, one output, one end for
\* each run, and blocks only for rights that ended.
THEOREM IngestionImplementsContract == Spec => ImplementsContract
<1>1. IndInv /\ [Next]_vars => [Contract!Next]_Contract!vars
  <2>1. ASSUME UNCHANGED vars PROVE UNCHANGED Contract!vars
    <3>1. Rights' = Rights /\ artifacts' = artifacts
      BY <2>1, RightsSame DEF vars
    <3>2. Seen' = Seen
      BY <2>1 DEF vars, Seen
    <3>. QED BY <3>1, <3>2, ContractStutter
  <2>. QED BY <2>1, ContractStep
<1>. QED BY <1>1, ContractInit, InvariantHolds, PTL DEF Spec, ImplementsContract, Contract!Spec

=============================================================================
