------------------------ MODULE GenerationRunProofs ------------------------
(***************************************************************************)
(* Proofs about GenerationRun for any sets of runs, calls, worker ids,     *)
(* reviewers, plans and outputs and any bound on attempts: IndInv is an    *)
(* inductive invariant, the safety properties follow from it, the triggers *)
(* have nothing to refuse, and generation implements GenerationContract.   *)
(***************************************************************************)
EXTENDS GenerationRun, TLAPS

-----------------------------------------------------------------------------
(* Types.                                                                   *)

\* None is none of the values a row or a call records.
LEMMA NoneApart ==
    /\ None \notin Ids
    /\ None \notin Plans
    /\ None \notin Outputs
    /\ None \notin Runs
    /\ None \notin Stages
    /\ \A p \in Plans, o \in Outputs : [plan |-> p, content |-> o] # None
<1>1. None \notin Ids \cup Plans \cup Outputs \cup Runs \cup {"planning", "generating"}
  BY NoneAssumption, Zenon DEF NoneAssumption
<1>2. None \notin [plan : Plans, content : Outputs]
  BY NoneAssumption, Zenon DEF NoneAssumption
<1>3. \A p \in Plans, o \in Outputs : [plan |-> p, content |-> o] # None
  BY <1>2
<1>. QED BY <1>1, <1>3 DEF Stages

LEMMA WorkerIds ==
    ASSUME NEW c \in Calls
    PROVE  WorkerId[c] \in Ids /\ WorkerId[c] # None
<1>1. WorkerId[c] \in Ids
  BY DEF Ids
<1>. QED BY <1>1, NoneApart

LEMMA ClosedType ==
    ASSUME TypeOK, NEW r \in Runs
    PROVE  Closed(r) \in [Attempts -> AttemptRows]
<1>1. ASSUME NEW row \in AttemptRows
      PROVE  [row EXCEPT !.outcome = "retryable"] \in AttemptRows
  BY DEF AttemptRows
<1>2. attempt[r] \in [Attempts -> AttemptRows]
  BY DEF TypeOK
<1>. QED BY <1>1, <1>2 DEF Closed

\* The row of one run is saved, under the next version.
LEMMA BecomesType ==
    ASSUME TypeOK, NEW r \in Runs, NEW row \in RunRows, Becomes(r, row)
    PROVE  /\ run' \in [Runs -> RunRows]
           /\ run'[r] \in RunRows
           /\ run'[r].status = row.status
           /\ run'[r].owner = row.owner
           /\ run'[r].live = row.live
           /\ run'[r].attempts = row.attempts
           /\ run'[r].version = row.version + 1
           /\ run'[r].blueprint = row.blueprint
           /\ run'[r].output = row.output
           /\ \A q \in Runs : q # r => run'[q] = run[q]
<1>1. Saved(row) \in RunRows
  BY DEF Saved, RunRows
<1>2. run' \in [Runs -> RunRows] /\ run'[r] = Saved(row) /\ \A q \in Runs : q # r => run'[q] = run[q]
  BY <1>1 DEF Becomes, TypeOK
<1>. QED BY <1>1, <1>2 DEF Saved, RunRows

\* One call goes on.
LEMMA GoesType ==
    ASSUME TypeOK, NEW c \in Calls, NEW state \in CallStates, Goes(c, state)
    PROVE  /\ call' \in [Calls -> CallStates]
           /\ call'[c] = state
           /\ \A d \in Calls : d # c => call'[d] = call[d]
  BY DEF Goes, TypeOK

\* A row in a state that has no lease.
LEMMA UnleasedType ==
    ASSUME NEW row \in RunRows, NEW status \in Open \cup Terminal
    PROVE  /\ Unleased(row, status) \in RunRows
           /\ Unleased(row, status).status = status
           /\ Unleased(row, status).owner = None
           /\ ~Unleased(row, status).live
           /\ Unleased(row, status).attempts = row.attempts
           /\ Unleased(row, status).version = row.version
           /\ Unleased(row, status).blueprint = row.blueprint
           /\ Unleased(row, status).output = row.output
  BY DEF Unleased, RunRows

\* What _claim finds, or leaves of a lease that ran out.
LEMMA ReclaimedType ==
    ASSUME TypeOK, NEW r \in Runs
    PROVE  /\ Reclaimed(r) \in RunRows
           /\ Reclaimed(r).attempts = run[r].attempts
           /\ Reclaimed(r).version \in run[r].version .. run[r].version + 1
           /\ Reclaimed(r).blueprint = run[r].blueprint
           /\ Reclaimed(r).output = run[r].output
<1>1. run[r] \in RunRows
  BY DEF TypeOK
<1>2. CASE ~LeaseExpired(r)
  BY <1>1, <1>2 DEF Reclaimed, RunRows
<1>3. CASE LeaseExpired(r)
  <2>. DEFINE row == Unleased(run[r], "retryable")
  <2>1. /\ row \in RunRows
        /\ row.attempts = run[r].attempts
        /\ row.version = run[r].version
        /\ row.blueprint = run[r].blueprint
        /\ row.output = run[r].output
    BY <1>1, UnleasedType DEF Open, Waiting
  <2>2. Reclaimed(r) = Saved(row)
    BY <1>3 DEF Reclaimed
  <2>. HIDE DEF row
  <2>. QED BY <2>1, <2>2 DEF Saved, RunRows
<1>. QED BY <1>2, <1>3

\* A step changes the rows of one run at most.
RowOnly(r) ==
    /\ \A q \in Runs : q # r =>
          /\ run'[q] = run[q]
          /\ attempt'[q] = attempt[q]
          /\ blueprint'[q] = blueprint[q]
          /\ lessons'[q] = lessons[q]
          /\ review'[q] = review[q]
    /\ run'[r] \in RunRows

\* The types of the rows are kept.
RowsTyped ==
    /\ run' \in [Runs -> RunRows]
    /\ attempt' \in [Runs -> [Attempts -> AttemptRows]]
    /\ blueprint' \in [Runs -> BlueprintRows]
    /\ lessons' \in [Runs -> LessonRows]
    /\ review' \in [Runs -> ReviewRows]

\* The run a call in progress works on.
LEMMA CallRun ==
    ASSUME IndInv, NEW c \in Calls, call[c].pc # "idle"
    PROVE  call[c].run \in Runs /\ run[call[c].run].status # "none"
  BY DEF IndInv, CallsCarry, Carries

LEMMA Numbers ==
    ASSUME TypeOK, NEW r \in Runs
    PROVE  /\ run[r].attempts \in 0 .. MaxAttempts
           /\ run[r].attempts < MaxAttempts =>
                run[r].attempts + 1 \in 1 .. MaxAttempts
           /\ run[r].version \in Nat
           /\ MaxAttempts \in Nat
  BY AttemptsAssumption DEF AttemptsAssumption, TypeOK, RunRows

-----------------------------------------------------------------------------
(* What each step does to the one run it touches.                           *)

StartSaved(r) ==
    /\ RowOnly(r)
    /\ run[r].status = "none" /\ run'[r].status = "queued"
    /\ run'[r].owner = run[r].owner
    /\ run'[r].live = run[r].live
    /\ run'[r].attempts = run[r].attempts
    /\ run'[r].version = run[r].version
    /\ run'[r].blueprint = run[r].blueprint
    /\ run'[r].output = run[r].output
    /\ attempt'[r] = attempt[r] /\ blueprint'[r] = blueprint[r]
    /\ lessons'[r] = lessons[r] /\ review'[r] = review[r]

LEMMA StartEffect ==
    ASSUME IndInv, NEW r \in Runs, StartGeneration(r)
    PROVE  StartSaved(r) /\ RowsTyped
<1>. USE DEF IndInv, TypeOK
<1>1. /\ run'[r] = [run[r] EXCEPT !.status = "queued"]
      /\ \A q \in Runs : q # r => run'[q] = run[q]
      /\ run[r] \in RunRows
  BY DEF StartGeneration
<1>2. run'[r] \in RunRows
  BY <1>1 DEF RunRows, Open, Waiting
<1>3. run' \in [Runs -> RunRows]
  BY <1>2 DEF StartGeneration
<1>. QED BY <1>1, <1>2, <1>3 DEF StartGeneration, RowOnly, RunRows, StartSaved, RowsTyped

LapseSaved(r) ==
    /\ RowOnly(r)
    /\ run[r].status \in Stages
    /\ run'[r].status = run[r].status
    /\ run'[r].owner = run[r].owner
    /\ ~run'[r].live
    /\ run'[r].attempts = run[r].attempts
    /\ run'[r].version = run[r].version
    /\ run'[r].blueprint = run[r].blueprint
    /\ run'[r].output = run[r].output
    /\ attempt'[r] = attempt[r] /\ blueprint'[r] = blueprint[r]
    /\ lessons'[r] = lessons[r] /\ review'[r] = review[r]

LEMMA LapseEffect ==
    ASSUME IndInv, NEW r \in Runs, LeaseLapse(r)
    PROVE  LapseSaved(r) /\ RowsTyped
<1>. USE DEF IndInv, TypeOK
<1>1. /\ run'[r] = [run[r] EXCEPT !.live = FALSE]
      /\ \A q \in Runs : q # r => run'[q] = run[q]
      /\ run[r] \in RunRows
  BY DEF LeaseLapse
<1>2. run'[r] \in RunRows
  BY <1>1 DEF RunRows
<1>3. run' \in [Runs -> RunRows]
  BY <1>2 DEF LeaseLapse
<1>4. run[r].status \in Stages
  BY DEF LeaseLapse, LeaseDiscipline, RunLeased
<1>. QED BY <1>1, <1>2, <1>3, <1>4 DEF LeaseLapse, RowOnly, RunRows, LapseSaved, RowsTyped

\* _claim ends a run; the attempt that was running is closed.
EndSaved(r, status) ==
    /\ RowOnly(r)
    /\ run[r].status \in Waiting \cup Stages /\ run'[r].status = status
    /\ run'[r].owner = None
    /\ ~run'[r].live
    /\ run'[r].attempts = run[r].attempts
    /\ run'[r].version \in run[r].version + 1 .. run[r].version + 2
    /\ run'[r].blueprint = run[r].blueprint
    /\ run'[r].output = run[r].output
    /\ \A n \in Attempts : attempt'[r][n].stage = attempt[r][n].stage
    /\ \A n \in Attempts :
         attempt[r][n].outcome = "running" => attempt'[r][n].outcome = "retryable"
    /\ \A n \in Attempts : attempt[r][n].outcome # "running" => attempt'[r][n] = attempt[r][n]
    /\ blueprint'[r] = blueprint[r] /\ lessons'[r] = lessons[r] /\ review'[r] = review[r]

LEMMA ClosedRows ==
    ASSUME TypeOK, NEW r \in Runs, NEW n \in Attempts
    PROVE  /\ Closed(r)[n].stage = attempt[r][n].stage
           /\ attempt[r][n].outcome = "running" => Closed(r)[n].outcome = "retryable"
           /\ attempt[r][n].outcome # "running" => Closed(r)[n] = attempt[r][n]
<1>1. attempt[r][n] \in AttemptRows
  BY DEF TypeOK
<1>. QED BY <1>1 DEF Closed, AttemptRows

ClaimEnds(r, status) ==
    /\ Takeable(r)
    /\ Becomes(r, Unleased(Reclaimed(r), status))
    /\ attempt' = [attempt EXCEPT ![r] = Closed(r)]
    /\ UNCHANGED <<right, blueprint, lessons, review, call, seen>>
    /\ status = "rights_blocked" => right # "active"

LEMMA ClaimEndsEffect ==
    ASSUME IndInv, NEW r \in Runs, NEW status \in {"failed", "rights_blocked"},
           ClaimEnds(r, status)
    PROVE  EndSaved(r, status) /\ RowsTyped
<1>0. TypeOK
  BY DEF IndInv
<1>1. /\ Reclaimed(r) \in RunRows
      /\ Reclaimed(r).attempts = run[r].attempts
      /\ Reclaimed(r).version \in run[r].version .. run[r].version + 1
      /\ Reclaimed(r).blueprint = run[r].blueprint
      /\ Reclaimed(r).output = run[r].output
  BY <1>0, ReclaimedType
<1>2. status \in Open \cup Terminal
  BY DEF Terminal
<1>. DEFINE row == Unleased(Reclaimed(r), status)
<1>3. /\ row \in RunRows
      /\ row.status = status
      /\ row.owner = None
      /\ ~row.live
      /\ row.attempts = run[r].attempts
      /\ row.version = Reclaimed(r).version
      /\ row.blueprint = run[r].blueprint
      /\ row.output = run[r].output
  BY <1>1, <1>2, UnleasedType
<1>4. Becomes(r, row)
  BY DEF ClaimEnds
<1>. HIDE DEF row
<1>5. /\ run' \in [Runs -> RunRows]
      /\ run'[r] \in RunRows
      /\ run'[r].status = status
      /\ run'[r].owner = None
      /\ ~run'[r].live
      /\ run'[r].attempts = run[r].attempts
      /\ run'[r].version = Reclaimed(r).version + 1
      /\ run'[r].blueprint = run[r].blueprint
      /\ run'[r].output = run[r].output
      /\ \A q \in Runs : q # r => run'[q] = run[q]
  BY <1>0, <1>3, <1>4, BecomesType
<1>6. run'[r].version \in run[r].version + 1 .. run[r].version + 2
  BY <1>0, <1>1, <1>5, Numbers
<1>7. /\ attempt'[r] = Closed(r)
      /\ \A q \in Runs : q # r => attempt'[q] = attempt[q]
      /\ attempt' \in [Runs -> [Attempts -> AttemptRows]]
  BY <1>0, ClosedType DEF ClaimEnds, TypeOK
<1>8. run[r].status \in Waiting \cup Stages
  BY DEF ClaimEnds, Takeable, LeaseExpired
<1>9. UNCHANGED <<blueprint, lessons, review>>
  BY DEF ClaimEnds
<1>10. RowsTyped
  BY <1>0, <1>5, <1>7, <1>9 DEF RowsTyped, TypeOK
<1>. QED BY <1>0, <1>5, <1>6, <1>7, <1>8, <1>9, <1>10, ClosedRows DEF RowOnly, EndSaved

\* _claim opens an attempt.
ClaimSaved(c, r) ==
    /\ r \in Runs /\ r = call[c].run /\ RowOnly(r)
    /\ run[r].status \in Waiting \cup Stages /\ run'[r].status = NextStage(r)
    /\ run'[r].owner = WorkerId[c]
    /\ run'[r].live
    /\ run[r].attempts + 1 \in Attempts
    /\ run'[r].attempts = run[r].attempts + 1
    /\ run'[r].version \in run[r].version + 1 .. run[r].version + 2
    /\ run'[r].blueprint = run[r].blueprint
    /\ run'[r].output = run[r].output
    /\ attempt'[r][run[r].attempts + 1].stage = NextStage(r)
    /\ attempt'[r][run[r].attempts + 1].outcome = "running"
    /\ \A n \in Attempts : n # run[r].attempts + 1 => attempt'[r][n].stage = attempt[r][n].stage
    /\ \A n \in Attempts :
         n # run[r].attempts + 1 /\ attempt[r][n].outcome = "running" =>
            attempt'[r][n].outcome = "retryable"
    /\ \A n \in Attempts :
         n # run[r].attempts + 1 /\ attempt[r][n].outcome # "running" =>
            attempt'[r][n] = attempt[r][n]
    /\ blueprint'[r] = blueprint[r] /\ lessons'[r] = lessons[r] /\ review'[r] = review[r]

LEMMA ClaimEffect ==
    ASSUME IndInv, NEW c \in Calls, ClaimCommit(c)
    PROVE  /\ ClaimSaved(c, call[c].run) /\ RowsTyped
           /\ call' \in [Calls -> CallStates]
           /\ call'[c] = [call[c] EXCEPT !.pc = "work", !.checked = FALSE,
                              !.attempt = run[call[c].run].attempts + 1,
                              !.stage = NextStage(call[c].run)]
           /\ \A d \in Calls : d # c => call'[d] = call[d]
<1>. DEFINE r == call[c].run
            n == run[r].attempts + 1
<1>0. TypeOK
  BY DEF IndInv
<1>1. /\ call[c].checked
      /\ run[r].status \in Waiting \/ LeaseExpired(r)
      /\ run[r].attempts < MaxAttempts
  BY DEF ClaimCommit, IndInv, ChecksStand, Stands
<1>2. r \in Runs
  BY CallRun DEF ClaimCommit
<1>3. run[r].status \in Waiting \cup Stages
  BY <1>1 DEF LeaseExpired
<1>4. n \in Attempts /\ n \in 0 .. MaxAttempts
  BY <1>0, <1>1, <1>2, Numbers DEF Attempts
<1>5. NextStage(r) \in Stages
  BY DEF NextStage, Stages
<1>6. /\ Reclaimed(r) \in RunRows
      /\ Reclaimed(r).attempts = run[r].attempts
      /\ Reclaimed(r).version \in run[r].version .. run[r].version + 1
      /\ Reclaimed(r).blueprint = run[r].blueprint
      /\ Reclaimed(r).output = run[r].output
  BY <1>0, <1>2, ReclaimedType
<1>. DEFINE row == [Reclaimed(r) EXCEPT !.status = NextStage(r), !.owner = WorkerId[c],
                                        !.live = TRUE, !.attempts = n]
            state == [call[c] EXCEPT !.pc = "work", !.checked = FALSE,
                                     !.attempt = n, !.stage = NextStage(r)]
<1>7. Becomes(r, row) /\ Goes(c, state)
  BY Zenon DEF ClaimCommit
<1>8. state \in CallStates
  BY <1>0, <1>4, <1>5, ZenonT(60) DEF TypeOK, CallStates
<1>9. /\ attempt' = [attempt EXCEPT ![r] = [Closed(r) EXCEPT
                        ![n] = [stage |-> NextStage(r), outcome |-> "running"]]]
      /\ UNCHANGED <<right, blueprint, lessons, review, seen>>
  BY DEF ClaimCommit
<1>10. [stage |-> NextStage(r), outcome |-> "running"] \in AttemptRows
  BY <1>5 DEF AttemptRows
<1>. HIDE DEF r, n
<1>11. /\ row \in RunRows
       /\ row.status = NextStage(r) /\ row.owner = WorkerId[c]
       /\ row.live /\ row.attempts = n
       /\ row.version = Reclaimed(r).version
       /\ row.blueprint = run[r].blueprint
       /\ row.output = run[r].output
  <2>. HIDE DEF NextStage, Reclaimed
  <2>. QED BY <1>4, <1>5, <1>6, WorkerIds DEF RunRows, Open
<1>. HIDE DEF row
<1>12. /\ run' \in [Runs -> RunRows]
       /\ run'[r] \in RunRows
       /\ run'[r].status = NextStage(r)
       /\ run'[r].owner = WorkerId[c]
       /\ run'[r].live
       /\ run'[r].attempts = n
       /\ run'[r].version = Reclaimed(r).version + 1
       /\ run'[r].blueprint = run[r].blueprint
       /\ run'[r].output = run[r].output
       /\ \A q \in Runs : q # r => run'[q] = run[q]
  BY <1>0, <1>2, <1>7, <1>11, BecomesType
<1>13. run'[r].version \in run[r].version + 1 .. run[r].version + 2
  BY <1>0, <1>2, <1>6, <1>12, Numbers
<1>14. attempt' \in [Runs -> [Attempts -> AttemptRows]]
  BY <1>0, <1>2, <1>4, <1>9, <1>10, ClosedType DEF TypeOK
<1>15. /\ \A q \in Runs : q # r => attempt'[q] = attempt[q]
       /\ attempt'[r] = [Closed(r) EXCEPT ![n] = [stage |-> NextStage(r), outcome |-> "running"]]
  BY <1>0, <1>2, <1>9 DEF TypeOK
<1>16. /\ attempt'[r][n] = [stage |-> NextStage(r), outcome |-> "running"]
       /\ \A m \in Attempts : m # n => attempt'[r][m] = Closed(r)[m]
  <2>. Closed(r) \in [Attempts -> AttemptRows]
    BY <1>0, <1>2, ClosedType
  <2>. QED BY <1>4, <1>15
<1>17. RowsTyped
  BY <1>0, <1>9, <1>12, <1>14 DEF RowsTyped, TypeOK
<1>18. RowOnly(r)
  BY <1>0, <1>9, <1>12, <1>15, SMTT(40) DEF RowOnly, TypeOK
<1>19. ClaimSaved(c, r)
  <2>1. r = call[c].run /\ n = run[r].attempts + 1
    BY DEF r, n
  <2>2. /\ attempt'[r][n].stage = NextStage(r)
        /\ attempt'[r][n].outcome = "running"
        /\ \A m \in Attempts : m # n => attempt'[r][m].stage = attempt[r][m].stage
        /\ \A m \in Attempts :
             m # n /\ attempt[r][m].outcome = "running" => attempt'[r][m].outcome = "retryable"
        /\ \A m \in Attempts :
             m # n /\ attempt[r][m].outcome # "running" => attempt'[r][m] = attempt[r][m]
    BY <1>0, <1>2, <1>16, ClosedRows
  <2>3. blueprint'[r] = blueprint[r] /\ lessons'[r] = lessons[r] /\ review'[r] = review[r]
    BY <1>9
  <2>. HIDE DEF NextStage
  <2>. QED BY <1>2, <1>3, <1>4, <1>12, <1>13, <1>18, <2>1, <2>2, <2>3 DEF ClaimSaved
<1>20. /\ call' \in [Calls -> CallStates]
       /\ call'[c] = state
       /\ \A d \in Calls : d # c => call'[d] = call[d]
  BY <1>0, <1>7, <1>8, GoesType
<1>. QED BY <1>17, <1>19, <1>20 DEF r, n

\* A call that passed its checks, and what they left standing.
LEMMA CheckedCall ==
    ASSUME IndInv, NEW c \in Calls, call[c].checked, call[c].pc = "persist"
    PROVE  /\ call[c].run \in Runs
           /\ run[call[c].run].status = call[c].stage
           /\ run[call[c].run].owner = WorkerId[c]
  BY CallRun DEF IndInv, ChecksStand, Stands, Owns

\* The last attempt of a leased run.
LEMMA LeasedRun ==
    ASSUME IndInv, NEW r \in Runs, run[r].status \in Stages
    PROVE  /\ run[r].attempts \in Attempts
           /\ attempt[r][run[r].attempts].stage = run[r].status
           /\ attempt[r][run[r].attempts].outcome = "running"
<1>1. run[r].attempts \in 0 .. MaxAttempts /\ MaxAttempts \in Nat
  BY Numbers DEF IndInv
<1>2. run[r].attempts > 0 /\ attempt[r][run[r].attempts].stage = run[r].status
  BY DEF IndInv, LeaseDiscipline, RunLeased
<1>3. run[r].attempts \in Attempts
  BY <1>1, <1>2 DEF Attempts
<1>. QED BY <1>2, <1>3 DEF IndInv, LeaseDiscipline, RunLeased

\* The lease is given up and the running attempt is closed.
CloseSaved(c, r, status, outcome) ==
    /\ r \in Runs /\ r = call[c].run /\ RowOnly(r)
    /\ run[r].status \in Stages /\ run'[r].status = status
    /\ run'[r].owner = None
    /\ ~run'[r].live
    /\ run'[r].attempts = run[r].attempts
    /\ run'[r].version = run[r].version + 1
    /\ run[r].attempts \in Attempts
    /\ attempt[r][run[r].attempts].stage = run[r].status
    /\ attempt[r][run[r].attempts].outcome = "running"
    /\ attempt'[r][run[r].attempts].stage = run[r].status
    /\ attempt'[r][run[r].attempts].outcome = outcome
    /\ \A n \in Attempts : n # run[r].attempts => attempt'[r][n] = attempt[r][n]
    /\ review'[r] = review[r]

LEMMA CloseAttempt ==
    ASSUME IndInv, NEW r \in Runs, run[r].status \in Stages,
           NEW outcome \in {"completed", "retryable", "failed", "rights_blocked"},
           attempt' = [attempt EXCEPT ![r][run[r].attempts].outcome = outcome]
    PROVE  /\ attempt' \in [Runs -> [Attempts -> AttemptRows]]
           /\ \A q \in Runs : q # r => attempt'[q] = attempt[q]
           /\ attempt'[r][run[r].attempts].stage = run[r].status
           /\ attempt'[r][run[r].attempts].outcome = outcome
           /\ \A n \in Attempts : n # run[r].attempts => attempt'[r][n] = attempt[r][n]
<1>1. /\ run[r].attempts \in Attempts
      /\ attempt[r][run[r].attempts].stage = run[r].status
  BY LeasedRun
<1>. DEFINE k == run[r].attempts
<1>2. attempt \in [Runs -> [Attempts -> AttemptRows]] /\ attempt[r][k] \in AttemptRows
  BY <1>1 DEF IndInv, TypeOK
<1>3. [attempt[r][k] EXCEPT !.outcome = outcome] = [stage |-> run[r].status, outcome |-> outcome]
  <2>1. \A row \in AttemptRows :
          [row EXCEPT !.outcome = outcome] = [stage |-> row.stage, outcome |-> outcome]
    BY DEF AttemptRows
  <2>. QED BY <1>1, <1>2, <2>1
<1>4. [stage |-> run[r].status, outcome |-> outcome] \in AttemptRows
  BY DEF AttemptRows
<1>5. attempt' = [attempt EXCEPT ![r] = [attempt[r] EXCEPT
                     ![k] = [stage |-> run[r].status, outcome |-> outcome]]]
  BY <1>1, <1>2, <1>3
<1>. HIDE DEF k
<1>6. [attempt[r] EXCEPT ![k] = [stage |-> run[r].status, outcome |-> outcome]]
          \in [Attempts -> AttemptRows]
  BY <1>2, <1>4
<1>7. attempt' \in [Runs -> [Attempts -> AttemptRows]]
  BY <1>2, <1>5, <1>6
<1>8. /\ attempt'[r][k] = [stage |-> run[r].status, outcome |-> outcome]
      /\ \A n \in Attempts : n # k => attempt'[r][n] = attempt[r][n]
  BY <1>1, <1>2, <1>5 DEF k
<1>. QED BY <1>2, <1>5, <1>7, <1>8 DEF k

\* The call goes back to where it waits for work.
Idles(c) ==
    /\ call' \in [Calls -> CallStates]
    /\ call'[c] = IdleCall
    /\ \A d \in Calls : d # c => call'[d] = call[d]

LEMMA IdleType == IdleCall \in CallStates
  BY AttemptsAssumption DEF IdleCall, CallStates, AttemptsAssumption

LEMMA GoesIdle ==
    ASSUME IndInv, NEW c \in Calls, Goes(c, IdleCall)
    PROVE  Idles(c)
  BY GoesType, IdleType DEF IndInv, Idles

\* _persist_blueprint commits.
PlanSaved(c, r) ==
    /\ CloseSaved(c, r, "blueprint_review", "completed")
    /\ run[r].status = "planning" /\ call[c].plan \in Plans
    /\ run'[r].blueprint = call[c].plan
    /\ run'[r].output = run[r].output
    /\ blueprint'[r] = [status |-> "reviewable", plan |-> call[c].plan]
    /\ lessons'[r] = lessons[r]

LEMMA PlanEffect ==
    ASSUME IndInv, NEW c \in Calls, PersistBlueprint(c)
    PROVE  PlanSaved(c, call[c].run) /\ RowsTyped /\ Idles(c)
<1>. DEFINE r == call[c].run
<1>0. TypeOK
  BY DEF IndInv
<1>1. r \in Runs /\ run[r].status = "planning"
  BY CheckedCall DEF PersistBlueprint
<1>2. call[c].plan \in Plans
  BY DEF PersistBlueprint, IndInv, CallsCarry, Carries
<1>3. /\ Becomes(r, [Unleased(run[r], "blueprint_review") EXCEPT !.blueprint = call[c].plan])
      /\ attempt' = [attempt EXCEPT ![r] = Completed(r)]
      /\ Goes(c, IdleCall)
      /\ blueprint' = [blueprint EXCEPT ![r] = [status |-> "reviewable", plan |-> call[c].plan]]
      /\ UNCHANGED <<right, lessons, review, seen>>
  BY Zenon DEF PersistBlueprint
<1>. HIDE DEF r
<1>4. run[r] \in RunRows
  BY <1>0, <1>1 DEF TypeOK
<1>. DEFINE free == Unleased(run[r], "blueprint_review")
            row == [free EXCEPT !.blueprint = call[c].plan]
<1>5. /\ free \in RunRows
      /\ free.status = "blueprint_review" /\ free.owner = None /\ ~free.live
      /\ free.attempts = run[r].attempts
      /\ free.version = run[r].version
      /\ free.output = run[r].output
  BY <1>4, UnleasedType DEF Open, Review
<1>. HIDE DEF free
<1>6. /\ row \in RunRows
      /\ row.status = "blueprint_review" /\ row.owner = None /\ ~row.live
      /\ row.attempts = run[r].attempts
      /\ row.version = run[r].version
      /\ row.blueprint = call[c].plan
      /\ row.output = run[r].output
  BY <1>2, <1>5 DEF RunRows
<1>7. Becomes(r, row)
  BY <1>3 DEF free
<1>. HIDE DEF row
<1>8. /\ run' \in [Runs -> RunRows]
      /\ run'[r] \in RunRows
      /\ run'[r].status = "blueprint_review"
      /\ run'[r].owner = None
      /\ ~run'[r].live
      /\ run'[r].attempts = run[r].attempts
      /\ run'[r].version = run[r].version + 1
      /\ run'[r].blueprint = call[c].plan
      /\ run'[r].output = run[r].output
      /\ \A q \in Runs : q # r => run'[q] = run[q]
  BY <1>0, <1>1, <1>6, <1>7, BecomesType, SMTT(40)
<1>9. /\ attempt' \in [Runs -> [Attempts -> AttemptRows]]
      /\ \A q \in Runs : q # r => attempt'[q] = attempt[q]
      /\ attempt'[r][run[r].attempts].stage = run[r].status
      /\ attempt'[r][run[r].attempts].outcome = "completed"
      /\ \A n \in Attempts : n # run[r].attempts => attempt'[r][n] = attempt[r][n]
  BY <1>1, <1>3, CloseAttempt DEF Completed, Stages
<1>10. [status |-> "reviewable", plan |-> call[c].plan] \in BlueprintRows
  BY <1>2 DEF BlueprintRows
<1>11. /\ blueprint' \in [Runs -> BlueprintRows]
       /\ blueprint'[r] = [status |-> "reviewable", plan |-> call[c].plan]
       /\ \A q \in Runs : q # r => blueprint'[q] = blueprint[q]
  BY <1>0, <1>1, <1>3, <1>10 DEF TypeOK
<1>12. RowsTyped /\ RowOnly(r)
  BY <1>0, <1>3, <1>8, <1>9, <1>11, SMTT(40) DEF RowsTyped, RowOnly, TypeOK
<1>13. PlanSaved(c, r)
  BY <1>1, <1>2, <1>3, <1>8, <1>9, <1>11, <1>12, LeasedRun DEF PlanSaved, CloseSaved, r, Stages
<1>. QED BY <1>3, <1>12, <1>13, GoesIdle DEF r

\* _persist_lessons commits.
WriteSaved(c, r) ==
    /\ CloseSaved(c, r, "review_ready", "completed")
    /\ run[r].status = "generating"
    /\ call[c].plan = blueprint[r].plan /\ call[c].plan \in Plans
    /\ call[c].output \in Outputs
    /\ blueprint[r].status = "approved"
    /\ run'[r].blueprint = run[r].blueprint
    /\ run'[r].output = call[c].output
    /\ lessons'[r] = [plan |-> call[c].plan, content |-> call[c].output]
    /\ blueprint'[r] = blueprint[r]

LEMMA WriteEffect ==
    ASSUME IndInv, NEW c \in Calls, PersistLessons(c)
    PROVE  WriteSaved(c, call[c].run) /\ RowsTyped /\ Idles(c)
<1>. DEFINE r == call[c].run
<1>0. TypeOK
  BY DEF IndInv
<1>1. r \in Runs /\ run[r].status = "generating"
  BY CheckedCall DEF PersistLessons
<1>2. /\ call[c].plan = blueprint[r].plan /\ call[c].output \in Outputs
      /\ blueprint[r].status = "approved"
  BY DEF PersistLessons, IndInv, CallsCarry, Carries
<1>3. call[c].plan \in Plans
  <2>1. blueprint[r].plan # None
    BY <1>1, <1>2 DEF IndInv, ReviewedExactly, RunReviewed
  <2>2. call[c].plan \in Plans \cup {None}
    BY <1>0 DEF TypeOK, CallStates
  <2>. QED BY <1>2, <2>1, <2>2
<1>4. /\ Becomes(r, [Unleased(run[r], "review_ready") EXCEPT !.output = call[c].output])
      /\ attempt' = [attempt EXCEPT ![r] = Completed(r)]
      /\ Goes(c, IdleCall)
      /\ lessons' = [lessons EXCEPT ![r] = [plan |-> call[c].plan, content |-> call[c].output]]
      /\ UNCHANGED <<right, blueprint, review, seen>>
  BY Zenon DEF PersistLessons
<1>. HIDE DEF r
<1>5. run[r] \in RunRows
  BY <1>0, <1>1 DEF TypeOK
<1>. DEFINE free == Unleased(run[r], "review_ready")
            row == [free EXCEPT !.output = call[c].output]
<1>6. /\ free \in RunRows
      /\ free.status = "review_ready" /\ free.owner = None /\ ~free.live
      /\ free.attempts = run[r].attempts
      /\ free.version = run[r].version
      /\ free.blueprint = run[r].blueprint
  BY <1>5, UnleasedType DEF Open, Review
<1>. HIDE DEF free
<1>7. /\ row \in RunRows
      /\ row.status = "review_ready" /\ row.owner = None /\ ~row.live
      /\ row.attempts = run[r].attempts
      /\ row.version = run[r].version
      /\ row.blueprint = run[r].blueprint
      /\ row.output = call[c].output
  BY <1>2, <1>6 DEF RunRows
<1>8. Becomes(r, row)
  BY <1>4 DEF free
<1>. HIDE DEF row
<1>9. /\ run' \in [Runs -> RunRows]
      /\ run'[r] \in RunRows
      /\ run'[r].status = "review_ready"
      /\ run'[r].owner = None
      /\ ~run'[r].live
      /\ run'[r].attempts = run[r].attempts
      /\ run'[r].version = run[r].version + 1
      /\ run'[r].blueprint = run[r].blueprint
      /\ run'[r].output = call[c].output
      /\ \A q \in Runs : q # r => run'[q] = run[q]
  BY <1>0, <1>1, <1>7, <1>8, BecomesType, SMTT(40)
<1>10. /\ attempt' \in [Runs -> [Attempts -> AttemptRows]]
       /\ \A q \in Runs : q # r => attempt'[q] = attempt[q]
       /\ attempt'[r][run[r].attempts].stage = run[r].status
       /\ attempt'[r][run[r].attempts].outcome = "completed"
       /\ \A n \in Attempts : n # run[r].attempts => attempt'[r][n] = attempt[r][n]
  BY <1>1, <1>4, CloseAttempt DEF Completed, Stages
<1>11. [plan |-> call[c].plan, content |-> call[c].output] \in LessonRows
  BY <1>2, <1>3 DEF LessonRows
<1>12. /\ lessons' \in [Runs -> LessonRows]
       /\ lessons'[r] = [plan |-> call[c].plan, content |-> call[c].output]
       /\ \A q \in Runs : q # r => lessons'[q] = lessons[q]
  BY <1>0, <1>1, <1>4, <1>11 DEF TypeOK
<1>13. RowsTyped /\ RowOnly(r)
  BY <1>0, <1>4, <1>9, <1>10, <1>12, SMTT(40) DEF RowsTyped, RowOnly, TypeOK
<1>14. WriteSaved(c, r)
  BY <1>1, <1>2, <1>3, <1>4, <1>9, <1>10, <1>12, <1>13, LeasedRun
  DEF WriteSaved, CloseSaved, r, Stages
<1>. QED BY <1>4, <1>13, <1>14, GoesIdle DEF r

\* _finish_failure commits.
FailSaved(c, r, status) ==
    /\ CloseSaved(c, r, status, status)
    /\ status = "rights_blocked" => right = "ended"
    /\ status = "retryable" => run[r].attempts < MaxAttempts
    /\ run'[r].blueprint = run[r].blueprint
    /\ run'[r].output = run[r].output
    /\ blueprint'[r] = blueprint[r] /\ lessons'[r] = lessons[r]

LEMMA FailEffect ==
    ASSUME IndInv, NEW c \in Calls, FinishFailure(c)
    PROVE  /\ \E status \in {"retryable", "failed", "rights_blocked"} :
                 FailSaved(c, call[c].run, status)
           /\ RowsTyped /\ Idles(c)
<1>. DEFINE r == call[c].run
            status == FailedStatus(r, call[c].failure)
<1>0. TypeOK
  BY DEF IndInv
<1>1. r \in Runs /\ run[r].status \in Stages
  BY CallRun DEF FinishFailure, Begins, MayFinish
<1>2. /\ status \in {"retryable", "failed", "rights_blocked"}
      /\ status = "rights_blocked" => right = "ended"
      /\ status = "retryable" => run[r].attempts < MaxAttempts
  <2>1. call[c].failure = "rights" => right = "ended"
    BY DEF IndInv, CallsCarry, Carries
  <2>2. run[r].attempts \in 0 .. MaxAttempts /\ MaxAttempts \in Nat
    BY <1>0, <1>1, Numbers
  <2>. QED BY <2>1, <2>2 DEF FailedStatus
<1>3. /\ Becomes(r, Unleased(run[r], status))
      /\ attempt' = [attempt EXCEPT ![r][run[r].attempts].outcome = status]
      /\ Goes(c, IdleCall)
      /\ UNCHANGED <<right, blueprint, lessons, review, seen>>
  BY Zenon DEF FinishFailure
<1>. HIDE DEF r, status
<1>4. run[r] \in RunRows
  BY <1>0, <1>1 DEF TypeOK
<1>. DEFINE row == Unleased(run[r], status)
<1>5. /\ row \in RunRows
      /\ row.status = status /\ row.owner = None /\ ~row.live
      /\ row.attempts = run[r].attempts
      /\ row.version = run[r].version
      /\ row.blueprint = run[r].blueprint
      /\ row.output = run[r].output
  BY <1>2, <1>4, UnleasedType DEF Open, Waiting, Terminal
<1>6. Becomes(r, row)
  BY <1>3
<1>. HIDE DEF row
<1>7. /\ run' \in [Runs -> RunRows]
      /\ run'[r] \in RunRows
      /\ run'[r].status = status
      /\ run'[r].owner = None
      /\ ~run'[r].live
      /\ run'[r].attempts = run[r].attempts
      /\ run'[r].version = run[r].version + 1
      /\ run'[r].blueprint = run[r].blueprint
      /\ run'[r].output = run[r].output
      /\ \A q \in Runs : q # r => run'[q] = run[q]
  BY <1>0, <1>1, <1>5, <1>6, BecomesType, SMTT(40)
<1>8. /\ attempt' \in [Runs -> [Attempts -> AttemptRows]]
      /\ \A q \in Runs : q # r => attempt'[q] = attempt[q]
      /\ attempt'[r][run[r].attempts].stage = run[r].status
      /\ attempt'[r][run[r].attempts].outcome = status
      /\ \A n \in Attempts : n # run[r].attempts => attempt'[r][n] = attempt[r][n]
  BY <1>1, <1>2, <1>3, CloseAttempt, ZenonT(60)
<1>9. RowsTyped /\ RowOnly(r)
  BY <1>0, <1>3, <1>7, <1>8, SMTT(40) DEF RowsTyped, RowOnly, TypeOK
<1>10. FailSaved(c, r, status)
  BY <1>1, <1>2, <1>3, <1>7, <1>8, <1>9, LeasedRun DEF FailSaved, CloseSaved, r
<1>. QED BY <1>2, <1>3, <1>9, <1>10, GoesIdle, SMTT(40) DEF r

\* A reviewer's decision moves the status under the next version.
DecisionSaved(v, r, from, status) ==
    /\ r \in Runs /\ r = seen[v].run /\ RowOnly(r)
    /\ run[r].status = from /\ run'[r].status = status
    /\ run'[r].owner = run[r].owner
    /\ run'[r].live = run[r].live
    /\ run'[r].attempts = run[r].attempts
    /\ run'[r].version = run[r].version + 1
    /\ run'[r].blueprint = run[r].blueprint
    /\ run'[r].output = run[r].output
    /\ attempt'[r] = attempt[r] /\ lessons'[r] = lessons[r]

LEMMA DecidedRow ==
    ASSUME IndInv, NEW r \in Runs, NEW status \in Open \cup Terminal, NEW row,
           row = [run[r] EXCEPT !.status = status], Becomes(r, row)
    PROVE  /\ run' \in [Runs -> RunRows]
           /\ run'[r] \in RunRows
           /\ run'[r].status = status
           /\ run'[r].owner = run[r].owner
           /\ run'[r].live = run[r].live
           /\ run'[r].attempts = run[r].attempts
           /\ run'[r].version = run[r].version + 1
           /\ run'[r].blueprint = run[r].blueprint
           /\ run'[r].output = run[r].output
           /\ \A q \in Runs : q # r => run'[q] = run[q]
<1>0. TypeOK
  BY DEF IndInv
<1>1. run[r] \in RunRows
  BY <1>0 DEF TypeOK
<1>2. /\ row \in RunRows
      /\ row.status = status
      /\ row.owner = run[r].owner
      /\ row.live = run[r].live
      /\ row.attempts = run[r].attempts
      /\ row.version = run[r].version
      /\ row.blueprint = run[r].blueprint
      /\ row.output = run[r].output
  BY <1>1 DEF RunRows
<1>3. /\ run' \in [Runs -> RunRows]
      /\ run'[r] \in RunRows
      /\ run'[r].status = row.status
      /\ run'[r].owner = row.owner
      /\ run'[r].live = row.live
      /\ run'[r].attempts = row.attempts
      /\ run'[r].version = row.version + 1
      /\ run'[r].blueprint = row.blueprint
      /\ run'[r].output = row.output
      /\ \A q \in Runs : q # r => run'[q] = run[q]
  <2>1. row \in RunRows
    BY <1>2
  <2>. QED BY ONLY <1>0, <2>1, Becomes(r, row), r \in Runs, BecomesType
<1>. QED BY <1>2, <1>3

LEMMA ReviewSaved ==
    ASSUME TypeOK, NEW r \in Runs, NEW row \in ReviewRows, review' = [review EXCEPT ![r] = row]
    PROVE  /\ review' \in [Runs -> ReviewRows]
           /\ review'[r] = row
           /\ \A q \in Runs : q # r => review'[q] = review[q]
  BY DEF TypeOK

\* A decision on the blueprint; the reviewer named the plan the run has.
BlueprintDecided(v, r, decision, status, after) ==
    /\ DecisionSaved(v, r, "blueprint_review", after)
    /\ seen[v].plan = blueprint[r].plan
    /\ blueprint[r].status = "reviewable"
    /\ blueprint'[r] = [status |-> status, plan |-> blueprint[r].plan]
    /\ review'[r] = [decision |-> decision, reviewed |-> blueprint[r].plan,
                     refused |-> review[r].refused, course |-> review[r].course]

LEMMA ReviewMade ==
    ASSUME NEW row \in ReviewRows, NEW decision, NEW plan
    PROVE  [[row EXCEPT !.decision = decision] EXCEPT !.reviewed = plan]
           = [decision |-> decision, reviewed |-> plan,
              refused |-> row.refused, course |-> row.course]
<1>. DEFINE one == [decision |-> decision, reviewed |-> row.reviewed,
                    refused |-> row.refused, course |-> row.course]
<1>1. [row EXCEPT !.decision = decision] = one
  BY DEF ReviewRows
<1>2. [one EXCEPT !.reviewed = plan]
      = [decision |-> decision, reviewed |-> plan,
         refused |-> row.refused, course |-> row.course]
  OBVIOUS
<1>. QED BY <1>1, <1>2

LEMMA BlueprintDecision ==
    ASSUME IndInv, NEW v \in Reviewers, NEW decision \in {"approve", "reject"},
           NEW status \in {"approved", "rejected"},
           NEW after \in {"generation_queued", "rejected"},
           StillAsRead(v), PlanAsRead(v), NEW r, r = seen[v].run,
           review' = [review EXCEPT ![r].decision = decision, ![r].reviewed = seen[v].plan],
           blueprint' = [blueprint EXCEPT ![r].status = status],
           Becomes(r, [run[r] EXCEPT !.status = after]),
           UNCHANGED <<right, attempt, lessons, call, seen>>
    PROVE  BlueprintDecided(v, r, decision, status, after) /\ RowsTyped
<1>0. TypeOK
  BY DEF IndInv
<1>1. after \in Open \cup Terminal
  BY DEF Open, Waiting, Terminal
<1>2. /\ r \in Runs
      /\ run' \in [Runs -> RunRows]
      /\ run'[r] \in RunRows
      /\ run'[r].status = after
      /\ run'[r].owner = run[r].owner
      /\ run'[r].live = run[r].live
      /\ run'[r].attempts = run[r].attempts
      /\ run'[r].version = run[r].version + 1
      /\ run'[r].blueprint = run[r].blueprint
      /\ run'[r].output = run[r].output
      /\ \A q \in Runs : q # r => run'[q] = run[q]
  <2>. DEFINE row == [run[r] EXCEPT !.status = after]
  <2>1. r \in Runs
    BY DEF StillAsRead, IndInv, VersionsTell
  <2>2. Becomes(r, row)
    OBVIOUS
  <2>3. after \in Open \cup Terminal
    BY <1>1 DEF Terminal
  <2>4. row = [run[r] EXCEPT !.status = after]
    OBVIOUS
  <2>. HIDE DEF row
  <2>. QED BY <2>1, <2>2, <2>3, <2>4, DecidedRow
<1>3. /\ run[r].status = "blueprint_review"
      /\ blueprint[r].status = "reviewable"
      /\ seen[v].plan = blueprint[r].plan
  BY DEF PlanAsRead
<1>4. blueprint[r] \in BlueprintRows /\ review[r] \in ReviewRows
  BY <1>0, <1>2 DEF TypeOK
<1>5. [blueprint[r] EXCEPT !.status = status] = [status |-> status, plan |-> blueprint[r].plan]
  BY <1>4 DEF BlueprintRows
<1>6. [status |-> status, plan |-> blueprint[r].plan] \in BlueprintRows
  BY <1>4 DEF BlueprintRows
<1>7. /\ blueprint' \in [Runs -> BlueprintRows]
      /\ blueprint'[r] = [status |-> status, plan |-> blueprint[r].plan]
      /\ \A q \in Runs : q # r => blueprint'[q] = blueprint[q]
  BY <1>0, <1>2, <1>5, <1>6 DEF TypeOK
<1>. DEFINE row == [decision |-> decision, reviewed |-> blueprint[r].plan,
                    refused |-> review[r].refused, course |-> review[r].course]
<1>8. row \in ReviewRows
  BY <1>4 DEF ReviewRows, BlueprintRows
<1>9. [[review[r] EXCEPT !.decision = decision] EXCEPT !.reviewed = blueprint[r].plan] = row
  BY <1>4, ReviewMade
<1>10. review' = [review EXCEPT ![r] =
                    [[review[r] EXCEPT !.decision = decision] EXCEPT !.reviewed = blueprint[r].plan]]
  BY <1>0, <1>2, <1>3 DEF TypeOK
<1>. HIDE DEF row
<1>11. /\ review' \in [Runs -> ReviewRows]
       /\ review'[r] = row
       /\ \A q \in Runs : q # r => review'[q] = review[q]
  <2>1. review' = [review EXCEPT ![r] = row]
    BY <1>9, <1>10
  <2>. QED BY <1>0, <1>2, <1>8, <2>1, ReviewSaved, ZenonT(60)
<1>12. RowsTyped /\ RowOnly(r)
  BY <1>0, <1>2, <1>7, <1>11 DEF RowsTyped, RowOnly, TypeOK
<1>. QED BY <1>2, <1>3, <1>7, <1>11, <1>12 DEF BlueprintDecided, DecisionSaved, row

LEMMA ApproveEffect ==
    ASSUME IndInv, NEW v \in Reviewers, ApproveBlueprint(v)
    PROVE  /\ BlueprintDecided(v, seen[v].run, "approve", "approved", "generation_queued")
           /\ RowsTyped
  BY BlueprintDecision DEF ApproveBlueprint

LEMMA RejectEffect ==
    ASSUME IndInv, NEW v \in Reviewers, RejectBlueprint(v)
    PROVE  /\ BlueprintDecided(v, seen[v].run, "reject", "rejected", "rejected")
           /\ RowsTyped
  BY BlueprintDecision DEF RejectBlueprint

\* The lessons are refused, or become a course draft.
RefuseSaved(v, r) ==
    /\ DecisionSaved(v, r, "review_ready", "rejected")
    /\ blueprint'[r] = blueprint[r]
    /\ review'[r] = [decision |-> review[r].decision, reviewed |-> review[r].reviewed,
                     refused |-> run[r].output, course |-> review[r].course]

AcceptSaved(v, r) ==
    /\ DecisionSaved(v, r, "review_ready", "canonicalized")
    /\ right = "active"
    /\ blueprint'[r] = blueprint[r]
    /\ review'[r] = [decision |-> review[r].decision, reviewed |-> review[r].reviewed,
                     refused |-> review[r].refused, course |-> run[r].output]

\* The lessons in review are the run's output, and there are some.
LEMMA InReview ==
    ASSUME IndInv, NEW r \in Runs, run[r].status = "review_ready"
    PROVE  /\ lessons[r] # None /\ run[r].output = lessons[r].content
           /\ run[r].output \in Outputs /\ run[r].output # None
<1>1. lessons[r] # None /\ run[r].output = lessons[r].content
  BY DEF IndInv, ReviewedExactly, RunReviewed
<1>2. lessons[r] \in LessonRows
  BY DEF IndInv, TypeOK
<1>3. run[r].output \in Outputs
  BY <1>1, <1>2 DEF LessonRows
<1>. QED BY <1>1, <1>3, NoneApart

LEMMA RefuseEffect ==
    ASSUME IndInv, NEW v \in Reviewers, RejectOutput(v)
    PROVE  RefuseSaved(v, seen[v].run) /\ RowsTyped
<1>. DEFINE r == seen[v].run
<1>0. TypeOK
  BY DEF IndInv
<1>1. /\ StillAsRead(v)
      /\ run[r].status = "review_ready" /\ seen[v].output = run[r].output
      /\ review' = [review EXCEPT ![r].refused = seen[v].output]
      /\ Becomes(r, [run[r] EXCEPT !.status = "rejected"])
      /\ UNCHANGED <<right, attempt, blueprint, lessons, call, seen>>
  BY DEF RejectOutput, OutputAsRead
<1>2. /\ r \in Runs
      /\ run' \in [Runs -> RunRows]
      /\ run'[r] \in RunRows
      /\ run'[r].status = "rejected"
      /\ run'[r].owner = run[r].owner
      /\ run'[r].live = run[r].live
      /\ run'[r].attempts = run[r].attempts
      /\ run'[r].version = run[r].version + 1
      /\ run'[r].blueprint = run[r].blueprint
      /\ run'[r].output = run[r].output
      /\ \A q \in Runs : q # r => run'[q] = run[q]
  <2>. DEFINE row == [run[r] EXCEPT !.status = "rejected"]
  <2>1. r \in Runs
    BY <1>1 DEF StillAsRead, IndInv, VersionsTell
  <2>2. Becomes(r, row)
    BY <1>1
  <2>3. "rejected" \in Open \cup Terminal
    BY DEF Terminal
  <2>4. row = [run[r] EXCEPT !.status = "rejected"]
    OBVIOUS
  <2>. HIDE DEF row
  <2>. QED BY <2>1, <2>2, <2>3, <2>4, DecidedRow
<1>. HIDE DEF r
<1>3. review[r] \in ReviewRows /\ run[r].output \in Outputs
  BY <1>0, <1>1, <1>2, InReview DEF TypeOK
<1>. DEFINE row == [decision |-> review[r].decision, reviewed |-> review[r].reviewed,
                    refused |-> run[r].output, course |-> review[r].course]
<1>4. row \in ReviewRows /\ [review[r] EXCEPT !.refused = run[r].output] = row
  BY <1>3 DEF ReviewRows
<1>. HIDE DEF row
<1>5. /\ review' \in [Runs -> ReviewRows]
      /\ review'[r] = row
      /\ \A q \in Runs : q # r => review'[q] = review[q]
  <2>1. review' = [review EXCEPT ![r] = row]
    BY <1>1, <1>4
  <2>. QED BY <1>0, <1>2, <1>4, <2>1, ReviewSaved
<1>6. RowsTyped /\ RowOnly(r)
  BY <1>0, <1>1, <1>2, <1>5 DEF RowsTyped, RowOnly, TypeOK
<1>. QED BY <1>1, <1>2, <1>5, <1>6 DEF RefuseSaved, DecisionSaved, row, r

LEMMA AcceptEffect ==
    ASSUME IndInv, NEW v \in Reviewers, Canonicalize(v)
    PROVE  AcceptSaved(v, seen[v].run) /\ RowsTyped
<1>. DEFINE r == seen[v].run
<1>0. TypeOK
  BY DEF IndInv
<1>1. /\ StillAsRead(v) /\ right = "active"
      /\ run[r].status = "review_ready"
      /\ review' = [review EXCEPT ![r].course = lessons[r].content]
      /\ Becomes(r, [run[r] EXCEPT !.status = "canonicalized"])
      /\ UNCHANGED <<right, attempt, blueprint, lessons, call, seen>>
  BY DEF Canonicalize, OutputAsRead, ScopeLocked, DraftOf
<1>2. /\ r \in Runs
      /\ run' \in [Runs -> RunRows]
      /\ run'[r] \in RunRows
      /\ run'[r].status = "canonicalized"
      /\ run'[r].owner = run[r].owner
      /\ run'[r].live = run[r].live
      /\ run'[r].attempts = run[r].attempts
      /\ run'[r].version = run[r].version + 1
      /\ run'[r].blueprint = run[r].blueprint
      /\ run'[r].output = run[r].output
      /\ \A q \in Runs : q # r => run'[q] = run[q]
  <2>. DEFINE row == [run[r] EXCEPT !.status = "canonicalized"]
  <2>1. r \in Runs
    BY <1>1 DEF StillAsRead, IndInv, VersionsTell
  <2>2. Becomes(r, row)
    BY <1>1
  <2>3. "canonicalized" \in Open \cup Terminal
    BY DEF Terminal
  <2>4. row = [run[r] EXCEPT !.status = "canonicalized"]
    OBVIOUS
  <2>. HIDE DEF row
  <2>. QED BY <2>1, <2>2, <2>3, <2>4, DecidedRow
<1>. HIDE DEF r
<1>3. review[r] \in ReviewRows /\ run[r].output \in Outputs /\ run[r].output = lessons[r].content
  BY <1>0, <1>1, <1>2, InReview DEF TypeOK
<1>. DEFINE row == [decision |-> review[r].decision, reviewed |-> review[r].reviewed,
                    refused |-> review[r].refused, course |-> run[r].output]
<1>4. row \in ReviewRows /\ [review[r] EXCEPT !.course = run[r].output] = row
  BY <1>3 DEF ReviewRows
<1>. HIDE DEF row
<1>5. /\ review' \in [Runs -> ReviewRows]
      /\ review'[r] = row
      /\ \A q \in Runs : q # r => review'[q] = review[q]
  <2>1. review' = [review EXCEPT ![r] = row]
    BY <1>1, <1>3, <1>4
  <2>. QED BY <1>0, <1>2, <1>4, <2>1, ReviewSaved
<1>6. RowsTyped /\ RowOnly(r)
  BY <1>0, <1>1, <1>2, <1>5 DEF RowsTyped, RowOnly, TypeOK
<1>. QED BY <1>1, <1>2, <1>5, <1>6 DEF AcceptSaved, DecisionSaved, row, r

-----------------------------------------------------------------------------
(* The cases of a step.                                                     *)

\* Steps that touch no row of a run, and the five kinds that do.
CallMoves ==
    \/ \E c \in Calls, r \in Runs : ClaimCheck(c, r)
    \/ \E c \in Calls :
          \/ SourceBlocked(c) \/ PlanWork(c) \/ WriteWork(c) \/ WorkFails(c)
          \/ PersistCheck(c) \/ PersistBlocked(c) \/ PersistConflict(c)
          \/ FinishConflict(c) \/ Crash(c)

Quiet == GrantRight \/ EndRight \/ CallMoves \/ \E v \in Reviewers : Reads(v)

WorkerStep(c) ==
    \/ ClaimCommit(c)
    \/ PersistBlueprint(c)
    \/ PersistLessons(c)
    \/ FinishFailure(c)

LEMMA NextCases ==
    ASSUME Next
    PROVE  \/ Quiet
           \/ \E r \in Runs : StartGeneration(r)
           \/ \E r \in Runs : LeaseLapse(r)
           \/ \E r \in Runs : \E status \in {"failed", "rights_blocked"} : ClaimEnds(r, status)
           \/ \E c \in Calls : WorkerStep(c)
           \/ \E v \in Reviewers : Decides(v)
<1>1. ASSUME NEW r \in Runs, Claim(r)
      PROVE  CallMoves \/ \E status \in {"failed", "rights_blocked"} : ClaimEnds(r, status)
  <2>1. CASE ClaimExhausted(r)
    <3>1. ClaimEnds(r, "failed")
      BY <2>1 DEF ClaimExhausted, ClaimEnds
    <3>. QED BY <3>1
  <2>2. CASE ClaimBlocked(r)
    <3>1. ClaimEnds(r, "rights_blocked")
      BY <2>2 DEF ClaimBlocked, ClaimEnds
    <3>. QED BY <3>1
  <2>. QED BY <1>1, <2>1, <2>2 DEF Claim, CallMoves
<1>2. ASSUME NEW c \in Calls, Continue(c) \/ Crash(c)
      PROVE  CallMoves \/ WorkerStep(c)
  BY <1>2 DEF Continue, CallMoves, WorkerStep
<1>. QED BY <1>1, <1>2 DEF Next, Quiet

LEMMA QuietKeeps ==
    ASSUME Quiet
    PROVE  UNCHANGED rows /\ UNCHANGED <<run, attempt, blueprint, lessons, review>>
<1>1. UNCHANGED rows
  BY DEF Quiet, CallMoves, GrantRight, EndRight, ClaimCheck, SourceBlocked, PlanWork, WriteWork,
         WorkFails, PersistCheck, PersistBlocked, PersistConflict, FinishConflict, Crash, Reads,
         ReadRun, ReadBlueprint
<1>. QED BY <1>1, SMTT(40) DEF rows

-----------------------------------------------------------------------------
(* The rows of one run.                                                     *)

\* A run a step does not touch is what it was.
LEMMA Untouched ==
    ASSUME NEW r \in Runs, run'[r] = run[r], attempt'[r] = attempt[r],
           blueprint'[r] = blueprint[r], lessons'[r] = lessons[r], review'[r] = review[r]
    PROVE  /\ RunLeased(r) => RunLeased(r)'
           /\ RunExplained(r) => RunExplained(r)'
           /\ RunReviewed(r) => RunReviewed(r)'
<1>1. RunLeased(r) => RunLeased(r)'
  BY DEF RunLeased
<1>2. RunExplained(r) => RunExplained(r)'
  BY DEF RunExplained, Completes
<1>3. RunReviewed(r) => RunReviewed(r)'
  BY DEF RunReviewed
<1>. QED BY <1>1, <1>2, <1>3

\* The types of one run's rows.
LEMMA RunTypes ==
    ASSUME TypeOK, NEW r \in Runs
    PROVE  /\ run[r].status \in {"none"} \cup Open \cup Terminal
           /\ run[r].attempts \in 0 .. MaxAttempts /\ MaxAttempts \in Nat
           /\ \A n \in Attempts :
                 n \in 1 .. MaxAttempts /\ attempt[r][n].stage \in Stages \cup {None}
           /\ blueprint[r].status \in {"none", "reviewable", "approved", "rejected"}
           /\ review[r].decision \in {"none", "approve", "reject"}
           /\ lessons[r] \in LessonRows
<1>1. /\ run[r] \in RunRows
      /\ attempt[r] \in [Attempts -> AttemptRows]
      /\ blueprint[r] \in BlueprintRows
      /\ review[r] \in ReviewRows
      /\ lessons[r] \in LessonRows
  BY DEF TypeOK
<1>2. run[r].status \in {"none"} \cup Open \cup Terminal
  BY <1>1 DEF RunRows
<1>3. \A n \in Attempts : attempt[r][n].stage \in Stages \cup {None}
  BY <1>1 DEF AttemptRows
<1>4. blueprint[r].status \in {"none", "reviewable", "approved", "rejected"}
  BY <1>1 DEF BlueprintRows
<1>5. review[r].decision \in {"none", "approve", "reject"}
  BY <1>1 DEF ReviewRows
<1>. QED BY <1>1, <1>2, <1>3, <1>4, <1>5, Numbers DEF Attempts

LEMMA Counts ==
    ASSUME IndInv
    PROVE  \A r \in Runs : run[r].attempts \in Nat /\ run[r].version \in Nat
<1>. SUFFICES ASSUME NEW r \in Runs
             PROVE  run[r].attempts \in Nat /\ run[r].version \in Nat
  OBVIOUS
<1>1. run[r].attempts \in 0 .. MaxAttempts /\ run[r].version \in Nat
  BY Numbers DEF IndInv
<1>. QED BY <1>1

LEMMA AttemptNumbers == \A n \in Attempts : n \in Nat /\ n > 0
  BY AttemptsAssumption DEF AttemptsAssumption, Attempts

LEMMA Leased ==
    ASSUME IndInv, NEW r \in Runs
    PROVE  RunLeased(r) /\ RunExplained(r) /\ RunReviewed(r)
  BY DEF IndInv, LeaseDiscipline, AttemptsExplainRun, ReviewedExactly

LEMMA StartSound ==
    ASSUME IndInv, NEW r \in Runs, StartSaved(r)
    PROVE  RunLeased(r)' /\ RunExplained(r)' /\ RunReviewed(r)'
<1>1. RunLeased(r)'
  BY Leased DEF StartSaved, RunLeased, Stages
<1>2. RunExplained(r)'
  BY Leased DEF StartSaved, RunExplained, Completes
<1>3. RunReviewed(r)'
  BY Leased DEF StartSaved, RunReviewed
<1>. QED BY <1>1, <1>2, <1>3

LEMMA LapseSound ==
    ASSUME IndInv, NEW r \in Runs, LapseSaved(r)
    PROVE  RunLeased(r)' /\ RunExplained(r)' /\ RunReviewed(r)'
<1>1. RunLeased(r)'
  BY Leased DEF LapseSaved, RunLeased, Stages
<1>2. RunExplained(r)'
  BY Leased DEF LapseSaved, RunExplained, Completes
<1>3. RunReviewed(r)'
  BY Leased DEF LapseSaved, RunReviewed
<1>. QED BY <1>1, <1>2, <1>3

\* A run a worker may take has not been reviewed for good, and has no lessons.
LEMMA TakenRun ==
    ASSUME IndInv, NEW r \in Runs, run[r].status \in Waiting \cup Stages
    PROVE  /\ lessons[r] = None /\ run[r].output = None
           /\ blueprint[r].status \in {"none", "approved"}
           /\ review[r].refused = None /\ review[r].course = None
           /\ review[r].decision # "reject"
           /\ \A n \in Attempts :
                /\ attempt[r][n].outcome \notin {"failed", "rights_blocked"}
                /\ ~Completes(r, n, "generating")
           /\ run[r].status = "generation_queued" => blueprint[r].status = "approved"
           /\ run[r].status = "generating" => blueprint[r].status = "approved"
           /\ run[r].status \in {"queued", "planning"} => blueprint[r].status = "none"
<1>1. RunReviewed(r) /\ RunExplained(r)
  BY Leased
<1>2. /\ lessons[r] = None /\ run[r].output = None
      /\ review[r].refused = None /\ review[r].course = None
      /\ review[r].decision # "reject"
  BY <1>1 DEF RunReviewed, Waiting, Stages
<1>3. blueprint[r].status \in {"none", "approved"}
  BY <1>1, <1>2, RunTypes DEF RunReviewed, Waiting, Stages, IndInv
<1>4. \A n \in Attempts :
        /\ attempt[r][n].outcome \notin {"failed", "rights_blocked"}
        /\ ~Completes(r, n, "generating")
  BY <1>1, <1>2 DEF RunExplained, Waiting, Stages
<1>. QED BY <1>1, <1>2, <1>3, <1>4 DEF RunReviewed

LEMMA EndSound ==
    ASSUME IndInv, NEW r \in Runs, NEW status \in {"failed", "rights_blocked"}, EndSaved(r, status)
    PROVE  RunLeased(r)' /\ RunExplained(r)' /\ RunReviewed(r)'
<1>0. RunLeased(r) /\ RunExplained(r) /\ RunReviewed(r)
  BY Leased
<1>1. RunLeased(r)'
  <2>1. ASSUME NEW n \in Attempts
        PROVE  /\ n > run'[r].attempts => attempt'[r][n] = NoAttempt
               /\ n <= run'[r].attempts => attempt'[r][n].outcome # "none"
               /\ attempt'[r][n].outcome # "running"
    BY <1>0, NoneApart DEF EndSaved, RunLeased, NoAttempt
  <2>. QED BY <1>0, <2>1 DEF EndSaved, RunLeased, Stages
<1>2. RunExplained(r)'
  <2>1. \A n \in Attempts :
          /\ attempt'[r][n].stage = attempt[r][n].stage
          /\ attempt'[r][n].outcome \notin {"failed", "rights_blocked"}
    BY TakenRun DEF EndSaved
  <2>2. \A n \in Attempts, stage \in Stages : Completes(r, n, stage)' = Completes(r, n, stage)
    BY DEF EndSaved, Completes
  <2>3. \A n \in Attempts : /\ Completes(r, n, "planning")' = Completes(r, n, "planning")
                            /\ Completes(r, n, "generating")' = Completes(r, n, "generating")
    BY <2>2 DEF Stages
  <2>. QED BY <1>0, <2>1, <2>3 DEF EndSaved, RunExplained
<1>3. RunReviewed(r)'
  BY <1>0, TakenRun DEF EndSaved, RunReviewed, Waiting, Stages
<1>. QED BY <1>1, <1>2, <1>3

\* The stage a claim opens fits what the run has.
LEMMA StageFits ==
    ASSUME IndInv, NEW r \in Runs, run[r].status \in Waiting \cup Stages
    PROVE  /\ NextStage(r) \in Stages
           /\ NextStage(r) = "planning" => blueprint[r].status = "none"
           /\ NextStage(r) = "generating" => blueprint[r].status = "approved"
  BY TakenRun DEF NextStage, Stages

LEMMA ClaimSound ==
    ASSUME IndInv, NEW c \in Calls, NEW r, ClaimSaved(c, r)
    PROVE  RunLeased(r)' /\ RunExplained(r)' /\ RunReviewed(r)'
<1>0. r \in Runs /\ RunLeased(r) /\ RunExplained(r) /\ RunReviewed(r)
  BY Leased, ZenonT(60) DEF ClaimSaved
<1>. DEFINE k == run[r].attempts + 1
            stage == NextStage(r)
<1>1. /\ stage \in Stages
      /\ stage = "planning" => blueprint[r].status = "none"
      /\ stage = "generating" => blueprint[r].status = "approved"
  BY <1>0, StageFits, ZenonT(60) DEF ClaimSaved
<1>2. /\ k \in Attempts /\ run[r].attempts \in Nat /\ run'[r].attempts = k
      /\ run'[r].status = stage /\ run'[r].owner = WorkerId[c]
      /\ \A n \in Attempts : n \in Nat
      /\ attempt'[r][k].stage = stage
      /\ attempt'[r][k].outcome = "running"
      /\ \A n \in Attempts : n # k => attempt'[r][n].stage = attempt[r][n].stage
      /\ \A n \in Attempts :
           n # k /\ attempt[r][n].outcome = "running" => attempt'[r][n].outcome = "retryable"
      /\ \A n \in Attempts :
           n # k /\ attempt[r][n].outcome # "running" => attempt'[r][n] = attempt[r][n]
  <2>1. run[r].attempts \in Nat /\ \A n \in Attempts : n \in Nat
    BY <1>0, RunTypes, SMTT(40) DEF IndInv
  <2>. HIDE DEF stage
  <2>2. run'[r].status = stage
    BY ZenonT(60) DEF ClaimSaved, stage
  <2>3. attempt'[r][k].stage = stage
    BY DEF ClaimSaved, stage
  <2>. QED BY <2>1, <2>2, <2>3 DEF ClaimSaved
<1>. HIDE DEF stage, k
<1>3. RunLeased(r)'
  <2>1. ASSUME NEW n \in Attempts
        PROVE  /\ n > k => attempt'[r][n] = NoAttempt
               /\ n <= k => attempt'[r][n].outcome # "none"
               /\ attempt'[r][n].outcome = "running" <=> n = k
    <3>1. CASE n = k
      BY <1>2, <3>1
    <3>2. CASE n # k
      <4>1. attempt[r][n].outcome = "running" => n = run[r].attempts
        BY <1>0 DEF RunLeased
      <4>2. n > k => n > run[r].attempts
        BY <1>2 DEF k
      <4>3. n <= k => n <= run[r].attempts
        BY <1>2, <3>2 DEF k
      <4>4. n > run[r].attempts => attempt[r][n] = NoAttempt
        BY <1>0 DEF RunLeased
      <4>5. n <= run[r].attempts => attempt[r][n].outcome # "none"
        BY <1>0 DEF RunLeased
      <4>6. n > k => attempt[r][n].outcome # "running"
        BY <4>2, <4>4 DEF NoAttempt
      <4>. QED BY <1>2, <3>2, <4>2, <4>3, <4>4, <4>5, <4>6
    <3>. QED BY <3>1, <3>2
  <2>2. run'[r].owner # None
    BY <1>2, WorkerIds
  <2>3. attempt'[r][k].stage = stage
    BY <1>2
  <2>4. k > 0
    BY <1>2 DEF k
  <2>. QED BY <1>1, <1>2, <2>1, <2>2, <2>3, <2>4 DEF RunLeased, Stages
<1>4. RunExplained(r)'
  <2>0. /\ \A n \in Attempts : ~Completes(r, n, "generating")
        /\ \A n \in Attempts : attempt[r][n].outcome \notin {"failed", "rights_blocked"}
        /\ lessons[r] = None
    BY <1>0, TakenRun DEF ClaimSaved
  <2>1. \A n \in Attempts :
          /\ n # k => attempt'[r][n].stage = attempt[r][n].stage
          /\ attempt'[r][n].outcome \notin {"failed", "rights_blocked"}
    BY <1>2, <2>0
  <2>2. \A n \in Attempts, s \in Stages : Completes(r, n, s)' => Completes(r, n, s) /\ n # k
    BY <1>2 DEF Completes
  <2>3. \A n \in Attempts, s \in Stages : Completes(r, n, s) /\ n # k => Completes(r, n, s)'
    BY <1>2 DEF Completes
  <2>4. attempt[r][k] = NoAttempt
    BY <1>0, <1>2 DEF RunLeased, k
  <2>5. \A s : ~Completes(r, k, s)
    BY <2>4 DEF Completes, NoAttempt
  <2>6. \A n \in Attempts : Completes(r, n, "planning")' <=> Completes(r, n, "planning")
    BY <2>2, <2>3, <2>5 DEF Stages
  <2>7. \A n \in Attempts : ~Completes(r, n, "generating")'
    BY <2>0, <2>2 DEF Stages
  <2>8. \A n \in Attempts : Completes(r, n, "planning") => n < k
    <3>1. \A n \in Attempts : n > run[r].attempts => ~Completes(r, n, "planning")
      BY <1>0, SMTT(40) DEF RunLeased, Completes, NoAttempt
    <3>. QED BY <1>2, <3>1 DEF k
  <2>9. blueprint'[r] = blueprint[r] /\ lessons'[r] = lessons[r]
    BY DEF ClaimSaved
  <2>10. blueprint[r].status # "none" <=> \E n \in Attempts : Completes(r, n, "planning")
    BY <1>0 DEF RunExplained
  <2>11. ASSUME NEW m \in Attempts, NEW n \in Attempts, Completes(r, n, "planning")', m > n
         PROVE  attempt'[r][m].stage # "planning"
    <3>1. Completes(r, n, "planning")
      BY <2>6, <2>11
    <3>2. CASE m = k
      BY <1>1, <1>2, <2>10, <3>1, <3>2
    <3>3. CASE m # k
      <4>1. attempt[r][m].stage # "planning"
        BY <1>0, <2>11, <3>1 DEF RunExplained
      <4>. QED BY <2>1, <3>3, <4>1
    <3>. QED BY <3>2, <3>3
  <2>12. ASSUME NEW n \in Attempts, attempt'[r][n].stage = "generating"
         PROVE  \E m \in Attempts : m < n /\ Completes(r, m, "planning")'
    <3>1. CASE n = k
      <4>1. stage = "generating"
        BY <1>2, <2>12, <3>1
      <4>2. PICK m \in Attempts : Completes(r, m, "planning")
        BY <1>1, <2>10, <4>1
      <4>. QED BY <2>6, <2>8, <3>1, <4>2
    <3>2. CASE n # k
      <4>1. attempt[r][n].stage = "generating"
        BY <2>1, <2>12, <3>2
      <4>2. PICK m \in Attempts : m < n /\ Completes(r, m, "planning")
        BY <1>0, <4>1 DEF RunExplained
      <4>. QED BY <2>6, <4>2
    <3>. QED BY <3>1, <3>2
  <2>13. run'[r].status # "retryable"
    BY <1>1, <1>2 DEF Stages
  <2>. QED BY <2>0, <2>1, <2>6, <2>7, <2>9, <2>10, <2>11, <2>12, <2>13, SMTT(40) DEF RunExplained
<1>5. RunReviewed(r)'
  <2>1. /\ run'[r].blueprint = run[r].blueprint /\ run'[r].output = run[r].output
        /\ blueprint'[r] = blueprint[r] /\ lessons'[r] = lessons[r] /\ review'[r] = review[r]
        /\ run[r].status \in Waiting \cup Stages
    BY DEF ClaimSaved
  <2>2. stage = "planning" \/ stage = "generating"
    BY <1>1 DEF Stages
  <2>3. /\ lessons[r] = None
        /\ blueprint[r].status \in {"none", "approved"}
        /\ review[r].refused = None /\ review[r].course = None
        /\ review[r].decision # "reject"
    BY <1>0, <2>1, TakenRun, SMTT(40)
  <2>. QED BY <1>0, <1>1, <1>2, <2>1, <2>2, <2>3, SMTT(40) DEF RunReviewed
<1>. QED BY <1>3, <1>4, <1>5, SMTT(40)

\* A closed attempt leaves the run without a lease.
LEMMA CloseLeased ==
    ASSUME IndInv, NEW c \in Calls, NEW r, NEW status, NEW outcome,
           CloseSaved(c, r, status, outcome),
           status \notin {"none", "queued", "planning", "generating"},
           outcome \notin {"none", "running"}
    PROVE  RunLeased(r)'
<1>0. r \in Runs /\ RunLeased(r)
  BY Leased DEF CloseSaved
<1>1. ASSUME NEW n \in Attempts
      PROVE  /\ n > run'[r].attempts => attempt'[r][n] = NoAttempt
             /\ n <= run'[r].attempts => attempt'[r][n].outcome # "none"
             /\ attempt'[r][n].outcome # "running"
  <2>1. CASE n = run[r].attempts
    <3>1. ~(n > run[r].attempts)
      BY <1>0, <2>1, RunTypes, SMTT(40) DEF IndInv
    <3>. QED BY <2>1, <3>1 DEF CloseSaved
  <2>2. CASE n # run[r].attempts
    BY <1>0, <2>2, ZenonT(60) DEF CloseSaved, RunLeased
  <2>. QED BY <2>1, <2>2, SMTT(40)
<1>. QED BY <1>0, <1>1 DEF CloseSaved, RunLeased, Stages

\* Whatever attempt was completed, but for the one that is being closed.
LEMMA CloseCompletes ==
    ASSUME IndInv, NEW c \in Calls, NEW r, NEW status, NEW outcome,
           CloseSaved(c, r, status, outcome)
    PROVE  /\ \A n \in Attempts : attempt'[r][n].stage = attempt[r][n].stage
           /\ \A n \in Attempts :
                n # run[r].attempts => attempt'[r][n].outcome = attempt[r][n].outcome
           /\ \A n \in Attempts : n > run[r].attempts => attempt[r][n].stage \notin Stages
           /\ \A n \in Attempts : \A s :
                Completes(r, n, s)' <=>
                    \/ n # run[r].attempts /\ Completes(r, n, s)
                    \/ n = run[r].attempts /\ outcome = "completed" /\ s = run[r].status
           /\ \A s : ~Completes(r, run[r].attempts, s)
<1>1. \A n \in Attempts : n > run[r].attempts => attempt[r][n].stage \notin Stages
  <2>1. r \in Runs /\ RunLeased(r)
    BY Leased DEF CloseSaved
  <2>. QED BY <2>1, NoneApart DEF RunLeased, NoAttempt
<1>2. \A n \in Attempts : attempt'[r][n].stage = attempt[r][n].stage
  BY DEF CloseSaved
<1>3. \A n \in Attempts :
        n # run[r].attempts => attempt'[r][n].outcome = attempt[r][n].outcome
  BY SMTT(40) DEF CloseSaved
<1>4. \A n \in Attempts : \A s :
        Completes(r, n, s)' <=>
            \/ n # run[r].attempts /\ Completes(r, n, s)
            \/ n = run[r].attempts /\ outcome = "completed" /\ s = run[r].status
  BY <1>2, <1>3, ZenonT(60) DEF CloseSaved, Completes
<1>5. \A s : ~Completes(r, run[r].attempts, s)
  BY DEF CloseSaved, Completes
<1>. QED BY <1>1, <1>2, <1>3, <1>4, <1>5

LEMMA PlanSound ==
    ASSUME IndInv, NEW c \in Calls, NEW r, PlanSaved(c, r)
    PROVE  RunLeased(r)' /\ RunExplained(r)' /\ RunReviewed(r)'
<1>0. /\ r \in Runs /\ RunLeased(r) /\ RunExplained(r) /\ RunReviewed(r)
      /\ CloseSaved(c, r, "blueprint_review", "completed")
      /\ run[r].status = "planning"
  BY Leased DEF PlanSaved, CloseSaved
<1>1. RunLeased(r)'
  BY <1>0, CloseLeased
<1>. DEFINE k == run[r].attempts
<1>2. /\ lessons[r] = None /\ run[r].output = None
      /\ blueprint[r].status = "none" /\ blueprint[r].plan = None
      /\ review[r].refused = None /\ review[r].course = None
      /\ review[r].decision = "none"
      /\ \A n \in Attempts :
           /\ attempt[r][n].outcome \notin {"failed", "rights_blocked"}
           /\ ~Completes(r, n, "generating")
           /\ ~Completes(r, n, "planning")
           /\ attempt[r][n].stage # "generating"
  <2>1. /\ lessons[r] = None /\ run[r].output = None /\ blueprint[r].status = "none"
        /\ review[r].refused = None /\ review[r].course = None
        /\ \A n \in Attempts :
             /\ attempt[r][n].outcome \notin {"failed", "rights_blocked"}
             /\ ~Completes(r, n, "generating")
    BY <1>0, TakenRun DEF Stages
  <2>2. \A n \in Attempts : ~Completes(r, n, "planning") /\ attempt[r][n].stage # "generating"
    BY <1>0, <2>1 DEF RunExplained
  <2>3. review[r].decision = "none" /\ blueprint[r].plan = None
    BY <1>0, <2>1, RunTypes, SMTT(40) DEF RunReviewed, IndInv
  <2>. QED BY <2>1, <2>2, <2>3
<1>3. /\ k \in Attempts /\ run'[r].attempts = k /\ run'[r].status = "blueprint_review"
      /\ blueprint'[r].status = "reviewable" /\ lessons'[r] = None
      /\ \A n \in Attempts : n \in Nat
  <2>1. blueprint'[r].status = "reviewable"
    BY DEF PlanSaved
  <2>. QED BY <1>0, <1>2, <2>1, AttemptNumbers DEF PlanSaved, CloseSaved
<1>4. /\ \A n \in Attempts : attempt'[r][n].stage = attempt[r][n].stage
      /\ \A n \in Attempts :
           Completes(r, n, "planning")' <=> n = k
      /\ \A n \in Attempts : ~Completes(r, n, "generating")'
      /\ \A n \in Attempts : n > k => attempt[r][n].stage \notin Stages
      /\ \A n \in Attempts : attempt'[r][n].outcome \notin {"failed", "rights_blocked"}
  <2>1. \A n \in Attempts : attempt'[r][n].outcome \notin {"failed", "rights_blocked"}
    BY <1>2 DEF PlanSaved, CloseSaved
  <2>. QED BY <1>0, <1>2, <2>1, CloseCompletes, SMTT(40)
<1>. HIDE DEF k
<1>5. RunExplained(r)'
  <2>1. blueprint'[r].status # "none" <=> \E n \in Attempts : Completes(r, n, "planning")'
    BY <1>3, <1>4
  <2>2. lessons'[r] # None <=> \E n \in Attempts : Completes(r, n, "generating")'
    BY <1>3, <1>4
  <2>3. ASSUME NEW m \in Attempts, NEW n \in Attempts, Completes(r, n, "planning")', m > n
        PROVE  attempt'[r][m].stage # "planning"
    BY <1>4, <2>3 DEF Stages
  <2>4. \A n \in Attempts : attempt'[r][n].stage # "generating"
    BY <1>2, <1>4, SMTT(40)
  <2>. QED BY <1>3, <1>4, <2>1, <2>2, <2>3, <2>4 DEF RunExplained
<1>6. RunReviewed(r)'
  <2>1. call[c].plan # None
    BY NoneApart, SMTT(40) DEF PlanSaved
  <2>. QED BY <1>0, <1>2, <1>3, <2>1 DEF PlanSaved, CloseSaved, RunReviewed
<1>. QED BY <1>1, <1>5, <1>6

LEMMA WriteSound ==
    ASSUME IndInv, NEW c \in Calls, NEW r, WriteSaved(c, r)
    PROVE  RunLeased(r)' /\ RunExplained(r)' /\ RunReviewed(r)'
<1>0. /\ r \in Runs /\ RunLeased(r) /\ RunExplained(r) /\ RunReviewed(r)
      /\ CloseSaved(c, r, "review_ready", "completed")
      /\ run[r].status = "generating"
  BY Leased DEF WriteSaved, CloseSaved
<1>1. RunLeased(r)'
  BY <1>0, CloseLeased
<1>. DEFINE k == run[r].attempts
<1>2. /\ lessons[r] = None
      /\ review[r].refused = None /\ review[r].course = None
      /\ review[r].decision # "reject"
      /\ \A n \in Attempts :
           /\ attempt[r][n].outcome \notin {"failed", "rights_blocked"}
           /\ ~Completes(r, n, "generating")
  BY <1>0, TakenRun, SMTT(40) DEF Stages
<1>3. /\ k \in Attempts /\ run'[r].attempts = k /\ run'[r].status = "review_ready"
      /\ blueprint'[r] = blueprint[r] /\ lessons'[r] # None
      /\ \A n \in Attempts : n \in Nat
  <2>1. lessons'[r] # None
    <3>1. lessons'[r] = [plan |-> call[c].plan, content |-> call[c].output]
      BY DEF WriteSaved
    <3>2. call[c].plan \in Plans /\ call[c].output \in Outputs
      BY DEF WriteSaved
    <3>. QED BY <3>1, <3>2, NoneApart
  <2>. QED BY <1>0, <2>1, AttemptNumbers DEF WriteSaved, CloseSaved
<1>4. /\ \A n \in Attempts : attempt'[r][n].stage = attempt[r][n].stage
      /\ \A n \in Attempts : Completes(r, n, "planning")' <=> Completes(r, n, "planning")
      /\ \A n \in Attempts : Completes(r, n, "generating")' <=> n = k
      /\ \A n \in Attempts : attempt'[r][n].outcome \notin {"failed", "rights_blocked"}
  <2>1. \A n \in Attempts : attempt'[r][n].outcome \notin {"failed", "rights_blocked"}
    BY <1>2 DEF WriteSaved, CloseSaved
  <2>2. /\ \A n \in Attempts : Completes(r, n, "planning")' <=> Completes(r, n, "planning")
        /\ \A n \in Attempts : Completes(r, n, "generating")' <=> n = k
    <3>1. /\ \A n \in Attempts : \A s :
                Completes(r, n, s)' <=>
                    \/ n # k /\ Completes(r, n, s)
                    \/ n = k /\ s = "generating"
          /\ \A s : ~Completes(r, k, s)
      BY <1>0, CloseCompletes
    <3>. QED BY <1>2, <3>1
  <2>. QED BY <1>0, <2>1, <2>2, CloseCompletes, SMTT(40)
<1>. HIDE DEF k
<1>5. RunExplained(r)'
  <2>1. blueprint'[r].status # "none" <=> \E n \in Attempts : Completes(r, n, "planning")'
    BY <1>0, <1>3, <1>4 DEF RunExplained
  <2>2. lessons'[r] # None <=> \E n \in Attempts : Completes(r, n, "generating")'
    BY <1>3, <1>4
  <2>3. ASSUME NEW m \in Attempts, NEW n \in Attempts, Completes(r, n, "planning")', m > n
        PROVE  attempt'[r][m].stage # "planning"
    BY <1>0, <1>4, <2>3 DEF RunExplained
  <2>4. ASSUME NEW n \in Attempts, attempt'[r][n].stage = "generating"
        PROVE  \E m \in Attempts : m < n /\ Completes(r, m, "planning")'
    <3>1. PICK m \in Attempts : m < n /\ Completes(r, m, "planning")
      BY <1>0, <1>4, <2>4 DEF RunExplained
    <3>. QED BY <1>4, <3>1
  <2>5. \A n \in Attempts : Completes(r, n, "generating")' => n = run'[r].attempts
    BY <1>3, <1>4, SMTT(40)
  <2>. QED BY <1>3, <1>4, <2>1, <2>2, <2>3, <2>4, <2>5 DEF RunExplained
<1>6. RunReviewed(r)'
  <2>1. lessons'[r].plan = call[c].plan /\ lessons'[r].content = call[c].output
    BY DEF WriteSaved
  <2>. QED BY <1>0, <1>2, <1>3, <2>1 DEF WriteSaved, CloseSaved, RunReviewed
<1>. QED BY <1>1, <1>5, <1>6

LEMMA FailSound ==
    ASSUME IndInv, NEW c \in Calls, NEW r, NEW status \in {"retryable", "failed", "rights_blocked"},
           FailSaved(c, r, status)
    PROVE  RunLeased(r)' /\ RunExplained(r)' /\ RunReviewed(r)'
<1>0. /\ r \in Runs /\ RunLeased(r) /\ RunExplained(r) /\ RunReviewed(r)
      /\ CloseSaved(c, r, status, status)
      /\ run[r].status \in Stages
  BY Leased DEF FailSaved, CloseSaved
<1>1. RunLeased(r)'
  BY <1>0, CloseLeased
<1>. DEFINE k == run[r].attempts
<1>2. /\ lessons[r] = None /\ run[r].output = None
      /\ blueprint[r].status \in {"none", "approved"}
      /\ review[r].refused = None /\ review[r].course = None
      /\ review[r].decision # "reject"
      /\ \A n \in Attempts :
           /\ attempt[r][n].outcome \notin {"failed", "rights_blocked"}
           /\ ~Completes(r, n, "generating")
  BY <1>0, TakenRun, SMTT(40)
<1>3. /\ k \in Attempts /\ run'[r].attempts = k /\ run'[r].status = status
      /\ blueprint'[r] = blueprint[r] /\ lessons'[r] = lessons[r]
      /\ status = "retryable" => k < MaxAttempts
      /\ k > 0 /\ k \in Nat /\ MaxAttempts \in Nat
      /\ attempt'[r][k].outcome = status
  <2>1. k \in Nat /\ k > 0 /\ MaxAttempts \in Nat
    BY <1>0, AttemptNumbers, AttemptsAssumption DEF AttemptsAssumption, CloseSaved
  <2>. QED BY <1>0, <2>1 DEF FailSaved, CloseSaved
<1>4. /\ \A n \in Attempts : attempt'[r][n].stage = attempt[r][n].stage
      /\ \A n \in Attempts : Completes(r, n, "planning")' <=> Completes(r, n, "planning")
      /\ \A n \in Attempts : ~Completes(r, n, "generating")'
      /\ \A n \in Attempts :
           attempt'[r][n].outcome \in {"failed", "rights_blocked"} => n = k
  <2>1. \A n \in Attempts :
          attempt'[r][n].outcome \in {"failed", "rights_blocked"} => n = k
    BY <1>2 DEF FailSaved, CloseSaved
  <2>2. /\ \A n \in Attempts : Completes(r, n, "planning")' <=> Completes(r, n, "planning")
        /\ \A n \in Attempts : ~Completes(r, n, "generating")'
    <3>1. /\ \A n \in Attempts : \A s :
                Completes(r, n, s)' <=>
                    \/ n # k /\ Completes(r, n, s)
                    \/ n = k /\ status = "completed" /\ s = run[r].status
          /\ \A s : ~Completes(r, k, s)
      BY <1>0, CloseCompletes
    <3>. QED BY <1>2, <3>1
  <2>. QED BY <1>0, <2>1, <2>2, CloseCompletes, SMTT(40)
<1>. HIDE DEF k
<1>5. RunExplained(r)'
  <2>1. blueprint'[r].status # "none" <=> \E n \in Attempts : Completes(r, n, "planning")'
    BY <1>0, <1>3, <1>4 DEF RunExplained
  <2>2. lessons'[r] # None <=> \E n \in Attempts : Completes(r, n, "generating")'
    BY <1>2, <1>3, <1>4
  <2>3. ASSUME NEW m \in Attempts, NEW n \in Attempts, Completes(r, n, "planning")', m > n
        PROVE  attempt'[r][m].stage # "planning"
    BY <1>0, <1>4, <2>3 DEF RunExplained
  <2>4. ASSUME NEW n \in Attempts, attempt'[r][n].stage = "generating"
        PROVE  \E m \in Attempts : m < n /\ Completes(r, m, "planning")'
    <3>1. PICK m \in Attempts : m < n /\ Completes(r, m, "planning")
      BY <1>0, <1>4, <2>4 DEF RunExplained
    <3>. QED BY <1>4, <3>1
  <2>5. run'[r].status = "retryable" =>
          /\ run'[r].attempts \in 1 .. MaxAttempts - 1
          /\ attempt'[r][run'[r].attempts].outcome = "retryable"
    BY <1>3
  <2>6. \A n \in Attempts : attempt'[r][n].outcome \in {"failed", "rights_blocked"} =>
          n = run'[r].attempts /\ run'[r].status = attempt'[r][n].outcome
    BY <1>3, <1>4, SMTT(40)
  <2>. QED BY <1>4, <2>1, <2>2, <2>3, <2>4, <2>5, <2>6 DEF RunExplained
<1>6. RunReviewed(r)'
  BY <1>0, <1>2, <1>3 DEF FailSaved, CloseSaved, RunReviewed, Stages
<1>. QED BY <1>1, <1>5, <1>6, SMTT(40)

\* A decision leaves the lease, the attempts and the lessons alone.
LEMMA DecisionKeeps ==
    ASSUME IndInv, NEW v \in Reviewers, NEW r, NEW from \in Review, NEW status,
           DecisionSaved(v, r, from, status),
           status \in {"generation_queued", "rejected", "canonicalized"},
           (blueprint'[r].status = "none") <=> (blueprint[r].status = "none")
    PROVE  RunLeased(r)' /\ RunExplained(r)'
<1>0. r \in Runs /\ RunLeased(r) /\ RunExplained(r)
  BY Leased, SMTT(40) DEF DecisionSaved
<1>1. RunLeased(r)'
  BY <1>0 DEF DecisionSaved, RunLeased, Stages, Review
<1>2. \A n \in Attempts : \A s : Completes(r, n, s)' = Completes(r, n, s)
  BY DEF DecisionSaved, Completes
<1>3. RunExplained(r)'
  <2>1. \A n \in Attempts : attempt[r][n].outcome \notin {"failed", "rights_blocked"}
    BY <1>0 DEF RunExplained, DecisionSaved, Review
  <2>2. /\ attempt'[r] = attempt[r] /\ lessons'[r] = lessons[r]
        /\ run'[r].attempts = run[r].attempts /\ run'[r].status # "retryable"
    BY DEF DecisionSaved
  <2>3. \A n \in Attempts : /\ Completes(r, n, "planning")' = Completes(r, n, "planning")
                            /\ Completes(r, n, "generating")' = Completes(r, n, "generating")
    BY <1>2
  <2>. QED BY <1>0, <2>1, <2>2, <2>3, SMTT(40) DEF RunExplained
<1>. QED BY <1>1, <1>3

LEMMA ApproveSound ==
    ASSUME IndInv, NEW v \in Reviewers, NEW r,
           BlueprintDecided(v, r, "approve", "approved", "generation_queued")
    PROVE  RunLeased(r)' /\ RunExplained(r)' /\ RunReviewed(r)'
<1>1. RunLeased(r)' /\ RunExplained(r)'
  BY DecisionKeeps DEF BlueprintDecided, Review
<1>2. r \in Runs /\ RunReviewed(r)
  BY Leased DEF BlueprintDecided, DecisionSaved
<1>. QED BY <1>1, <1>2 DEF BlueprintDecided, DecisionSaved, RunReviewed

LEMMA RejectSound ==
    ASSUME IndInv, NEW v \in Reviewers, NEW r,
           BlueprintDecided(v, r, "reject", "rejected", "rejected")
    PROVE  RunLeased(r)' /\ RunExplained(r)' /\ RunReviewed(r)'
<1>1. RunLeased(r)' /\ RunExplained(r)'
  BY DecisionKeeps DEF BlueprintDecided, Review
<1>2. r \in Runs /\ RunReviewed(r)
  BY Leased DEF BlueprintDecided, DecisionSaved
<1>. QED BY <1>1, <1>2 DEF BlueprintDecided, DecisionSaved, RunReviewed

LEMMA RefuseSound ==
    ASSUME IndInv, NEW v \in Reviewers, NEW r, RefuseSaved(v, r)
    PROVE  RunLeased(r)' /\ RunExplained(r)' /\ RunReviewed(r)'
<1>1. RunLeased(r)' /\ RunExplained(r)'
  BY DecisionKeeps DEF RefuseSaved, Review
<1>2. /\ r \in Runs /\ RunReviewed(r) /\ run[r].output # None
  BY Leased, InReview DEF RefuseSaved, DecisionSaved
<1>. QED BY <1>1, <1>2 DEF RefuseSaved, DecisionSaved, RunReviewed

LEMMA AcceptSound ==
    ASSUME IndInv, NEW v \in Reviewers, NEW r, AcceptSaved(v, r)
    PROVE  RunLeased(r)' /\ RunExplained(r)' /\ RunReviewed(r)'
<1>1. RunLeased(r)' /\ RunExplained(r)'
  BY DecisionKeeps DEF AcceptSaved, Review
<1>2. /\ r \in Runs /\ RunReviewed(r) /\ run[r].output # None
  BY Leased, InReview DEF AcceptSaved, DecisionSaved
<1>. QED BY <1>1, <1>2 DEF AcceptSaved, DecisionSaved, RunReviewed

-----------------------------------------------------------------------------
(* Every step.                                                              *)

\* What a step does to the rows, by the run it touches.
Moved(r) ==
    \/ StartGeneration(r) /\ StartSaved(r)
    \/ LeaseLapse(r) /\ LapseSaved(r)
    \/ \E status \in {"failed", "rights_blocked"} : ClaimEnds(r, status) /\ EndSaved(r, status)
    \/ \E c \in Calls :
          \/ ClaimCommit(c) /\ ClaimSaved(c, r)
          \/ PersistBlueprint(c) /\ PlanSaved(c, r)
          \/ PersistLessons(c) /\ WriteSaved(c, r)
          \/ FinishFailure(c) /\ \E status \in {"retryable", "failed", "rights_blocked"} :
                                    FailSaved(c, r, status)
    \/ \E v \in Reviewers :
          \/ ApproveBlueprint(v)
                /\ BlueprintDecided(v, r, "approve", "approved", "generation_queued")
          \/ RejectBlueprint(v) /\ BlueprintDecided(v, r, "reject", "rejected", "rejected")
          \/ RejectOutput(v) /\ RefuseSaved(v, r)
          \/ Canonicalize(v) /\ AcceptSaved(v, r)

LEMMA RowCases ==
    ASSUME IndInv, Next
    PROVE  Quiet \/ \E r \in Runs : Moved(r) /\ RowsTyped
<1>1. ASSUME NEW r \in Runs, StartGeneration(r)
      PROVE  Moved(r) /\ RowsTyped
  BY <1>1, StartEffect DEF Moved
<1>2. ASSUME NEW r \in Runs, LeaseLapse(r)
      PROVE  Moved(r) /\ RowsTyped
  BY <1>2, LapseEffect DEF Moved
<1>3. ASSUME NEW r \in Runs, NEW status \in {"failed", "rights_blocked"}, ClaimEnds(r, status)
      PROVE  Moved(r) /\ RowsTyped
  BY <1>3, ClaimEndsEffect DEF Moved
<1>4. ASSUME NEW c \in Calls, WorkerStep(c)
      PROVE  \E r \in Runs : Moved(r) /\ RowsTyped
  <2>. DEFINE r == call[c].run
  <2>1. CASE ClaimCommit(c)
    <3>1. ClaimSaved(c, r) /\ RowsTyped
      BY <2>1, ClaimEffect, ZenonT(60)
    <3>2. r \in Runs
      BY <3>1 DEF ClaimSaved
    <3>. QED BY <2>1, <3>1, <3>2 DEF Moved
  <2>2. CASE PersistBlueprint(c)
    <3>1. PlanSaved(c, r) /\ RowsTyped
      BY <2>2, PlanEffect, SMTT(40)
    <3>2. r \in Runs
      BY <3>1 DEF PlanSaved, CloseSaved
    <3>. QED BY <2>2, <3>1, <3>2 DEF Moved
  <2>3. CASE PersistLessons(c)
    <3>1. WriteSaved(c, r) /\ RowsTyped
      BY <2>3, WriteEffect
    <3>2. r \in Runs
      BY <3>1 DEF WriteSaved, CloseSaved
    <3>. QED BY <2>3, <3>1, <3>2, SMTT(40) DEF Moved
  <2>4. CASE FinishFailure(c)
    <3>1. /\ \E status \in {"retryable", "failed", "rights_blocked"} : FailSaved(c, r, status)
          /\ RowsTyped
      BY <2>4, FailEffect, SMTT(40)
    <3>2. r \in Runs
      BY <3>1 DEF FailSaved, CloseSaved
    <3>. QED BY <2>4, <3>1, <3>2 DEF Moved
  <2>. QED BY <1>4, <2>1, <2>2, <2>3, <2>4 DEF WorkerStep
<1>5. ASSUME NEW v \in Reviewers, Decides(v)
      PROVE  \E r \in Runs : Moved(r) /\ RowsTyped
  <2>. DEFINE r == seen[v].run
  <2>1. CASE ApproveBlueprint(v)
    <3>1. BlueprintDecided(v, r, "approve", "approved", "generation_queued") /\ RowsTyped
      BY <2>1, ApproveEffect
    <3>2. r \in Runs
      BY <3>1 DEF BlueprintDecided, DecisionSaved
    <3>. QED BY <2>1, <3>1, <3>2 DEF Moved
  <2>2. CASE RejectBlueprint(v)
    <3>1. BlueprintDecided(v, r, "reject", "rejected", "rejected") /\ RowsTyped
      BY <2>2, RejectEffect
    <3>2. r \in Runs
      BY <3>1 DEF BlueprintDecided, DecisionSaved
    <3>. QED BY <2>2, <3>1, <3>2 DEF Moved
  <2>3. CASE RejectOutput(v)
    <3>1. RefuseSaved(v, r) /\ RowsTyped
      BY <2>3, RefuseEffect
    <3>2. r \in Runs
      BY <3>1 DEF RefuseSaved, DecisionSaved
    <3>. QED BY <2>3, <3>1, <3>2 DEF Moved
  <2>4. CASE Canonicalize(v)
    <3>1. AcceptSaved(v, r) /\ RowsTyped
      BY <2>4, AcceptEffect
    <3>2. r \in Runs
      BY <3>1 DEF AcceptSaved, DecisionSaved
    <3>. QED BY <2>4, <3>1, <3>2 DEF Moved
  <2>. QED BY <1>5, <2>1, <2>2, <2>3, <2>4 DEF Decides
<1>. QED BY <1>1, <1>2, <1>3, <1>4, <1>5, NextCases

LEMMA RowsStep ==
    ASSUME IndInv, Next
    PROVE  RowsTyped /\ LeaseDiscipline' /\ AttemptsExplainRun' /\ ReviewedExactly'
<1>0. TypeOK /\ \A q \in Runs : RunLeased(q) /\ RunExplained(q) /\ RunReviewed(q)
  BY Leased DEF IndInv
<1>1. CASE Quiet
  <2>1. UNCHANGED <<run, attempt, blueprint, lessons, review>>
    BY <1>1, QuietKeeps
  <2>2. RowsTyped
    BY <1>0, <2>1 DEF RowsTyped, TypeOK
  <2>3. \A q \in Runs : RunLeased(q)' /\ RunExplained(q)' /\ RunReviewed(q)'
    BY <1>0, <2>1, Untouched
  <2>. QED BY <2>2, <2>3 DEF LeaseDiscipline, AttemptsExplainRun, ReviewedExactly
<1>2. ASSUME NEW r \in Runs, Moved(r), RowsTyped
      PROVE  RowsTyped /\ LeaseDiscipline' /\ AttemptsExplainRun' /\ ReviewedExactly'
  <2>1. RowOnly(r)
    BY <1>2
    DEF Moved, StartSaved, LapseSaved, EndSaved, ClaimSaved, PlanSaved, WriteSaved, FailSaved,
        CloseSaved, BlueprintDecided, RefuseSaved, AcceptSaved, DecisionSaved
  <2>2. RunLeased(r)' /\ RunExplained(r)' /\ RunReviewed(r)'
    BY <1>2, StartSound, LapseSound, EndSound, ClaimSound, PlanSound, WriteSound, FailSound,
       ApproveSound, RejectSound, RefuseSound, AcceptSound
    DEF Moved
  <2>3. \A q \in Runs : RunLeased(q)' /\ RunExplained(q)' /\ RunReviewed(q)'
    BY <1>0, <2>1, <2>2, Untouched DEF RowOnly
  <2>. QED BY <1>2, <2>3, SMTT(40) DEF LeaseDiscipline, AttemptsExplainRun, ReviewedExactly
<1>. QED BY <1>1, <1>2, RowCases

\* What no step undoes.
RunKept(r) ==
    /\ run[r].status # "none" => run'[r].status # "none"
    /\ run'[r].attempts >= run[r].attempts
    /\ \A n \in Attempts :
          attempt[r][n].outcome # "none" => attempt'[r][n].stage = attempt[r][n].stage
    /\ blueprint[r].status = "approved" => blueprint'[r] = blueprint[r]
    /\ run[r].status \notin Open => run'[r] = run[r] \/ StartGeneration(r)
    /\ run'[r].status = "rights_blocked" => run[r].status = "rights_blocked" \/ right = "ended"

LEMMA MovedKeeps ==
    ASSUME IndInv, NEW r \in Runs, Moved(r)
    PROVE  RunKept(r)
<1>. USE DEF RunKept
<1>0. /\ run[r].attempts \in Nat
      /\ run[r].status # "none" => right # "pending"
      /\ run[r].attempts + 1 \in Attempts =>
            attempt[r][run[r].attempts + 1] = NoAttempt
  <2>1. run[r].attempts \in Nat
    BY RunTypes DEF IndInv
  <2>. QED BY <2>1, Leased DEF RunLeased, IndInv, BlockedForGood
<1>1. ASSUME StartGeneration(r), StartSaved(r)
      PROVE  RunKept(r)
  BY <1>0, <1>1 DEF StartSaved
<1>2. ASSUME LapseSaved(r)
      PROVE  RunKept(r)
  BY <1>0, <1>2 DEF LapseSaved, Stages, Open
<1>3. ASSUME NEW status \in {"failed", "rights_blocked"}, ClaimEnds(r, status), EndSaved(r, status)
      PROVE  RunKept(r)
  <2>1. status = "rights_blocked" => right = "ended"
    BY <1>0, <1>3 DEF ClaimEnds, EndSaved, Waiting, Stages, IndInv, TypeOK
  <2>. QED BY <1>0, <1>3, <2>1 DEF EndSaved, Open
<1>4. ASSUME NEW c \in Calls, ClaimSaved(c, r)
      PROVE  RunKept(r)
  <2>1. run'[r].status \in Stages
    BY <1>4, StageFits, ZenonT(60) DEF ClaimSaved
  <2>2. \A n \in Attempts :
          attempt[r][n].outcome # "none" => attempt'[r][n].stage = attempt[r][n].stage
    <3>1. attempt[r][run[r].attempts + 1].outcome = "none"
      <4>1. run[r].attempts + 1 \in Attempts
        BY <1>4, Zenon DEF ClaimSaved
      <4>. QED BY <1>0, <4>1 DEF NoAttempt
    <3>2. \A n \in Attempts :
            n # run[r].attempts + 1 => attempt'[r][n].stage = attempt[r][n].stage
      BY <1>4, ZenonT(60) DEF ClaimSaved
    <3>. QED BY <3>1, <3>2
  <2>3. run[r].status \in Open /\ run'[r].status \notin {"none", "rights_blocked"}
    BY <1>4, <2>1 DEF ClaimSaved, Open, Stages
  <2>4. run'[r].attempts >= run[r].attempts /\ blueprint'[r] = blueprint[r]
    <3>1. run'[r].attempts = run[r].attempts + 1 /\ blueprint'[r] = blueprint[r]
      BY <1>4, Zenon DEF ClaimSaved
    <3>. QED BY <1>0, <3>1
  <2>. QED BY <2>2, <2>3, <2>4, SMTT(40)
<1>5. ASSUME NEW c \in Calls, PlanSaved(c, r)
      PROVE  RunKept(r)
  <2>1. blueprint[r].status = "none"
    BY <1>5, TakenRun DEF PlanSaved, Stages
  <2>. QED BY <1>0, <1>5, <2>1, SMTT(40) DEF PlanSaved, CloseSaved, Open
<1>6. ASSUME NEW c \in Calls, WriteSaved(c, r)
      PROVE  RunKept(r)
  BY <1>0, <1>6 DEF WriteSaved, CloseSaved, Open
<1>7. ASSUME NEW c \in Calls, NEW status \in {"retryable", "failed", "rights_blocked"},
             FailSaved(c, r, status)
      PROVE  RunKept(r)
  <2>1. \A n \in Attempts : attempt'[r][n].stage = attempt[r][n].stage
    BY <1>7, CloseCompletes DEF FailSaved
  <2>2. /\ run[r].status \in Stages /\ run'[r].status = status
        /\ run'[r].attempts = run[r].attempts /\ blueprint'[r] = blueprint[r]
        /\ status = "rights_blocked" => right = "ended"
    BY <1>7, Zenon DEF FailSaved, CloseSaved
  <2>. QED BY <1>0, <1>7, <2>1, <2>2 DEF Open
<1>8. ASSUME NEW v \in Reviewers, NEW decision, NEW status, NEW after \in {"generation_queued", "rejected"},
             BlueprintDecided(v, r, decision, status, after)
      PROVE  RunKept(r)
  BY <1>0, <1>8 DEF BlueprintDecided, DecisionSaved, Open, Review
<1>9. ASSUME NEW v \in Reviewers, RefuseSaved(v, r) \/ AcceptSaved(v, r)
      PROVE  RunKept(r)
  BY <1>0, <1>9 DEF RefuseSaved, AcceptSaved, DecisionSaved, Open, Review
<1>. QED BY <1>1, <1>2, <1>3, <1>4, <1>5, <1>6, <1>7, <1>8, <1>9 DEF Moved

LEMMA RunsKept ==
    ASSUME IndInv, Next
    PROVE  \A r \in Runs : RunKept(r)
<1>1. CASE Quiet
  <2>1. UNCHANGED <<run, attempt, blueprint, lessons, review>>
    BY <1>1, QuietKeeps
  <2>2. \A r \in Runs : run[r].attempts \in Nat
    BY Counts
  <2>. QED BY <2>1, <2>2 DEF RunKept
<1>2. ASSUME NEW r \in Runs, Moved(r), RowsTyped
      PROVE  \A q \in Runs : RunKept(q)
  <2>1. RowOnly(r)
    BY <1>2
    DEF Moved, StartSaved, LapseSaved, EndSaved, ClaimSaved, PlanSaved, WriteSaved, FailSaved,
        CloseSaved, BlueprintDecided, RefuseSaved, AcceptSaved, DecisionSaved
  <2>2. \A q \in Runs : run[q].attempts \in Nat
    BY Counts
  <2>3. \A q \in Runs : q # r => RunKept(q)
    BY <2>1, <2>2 DEF RowOnly, RunKept
  <2>. QED BY <1>2, <2>3, MovedKeeps
<1>. QED BY <1>1, <1>2, RowCases

\* The right to generate, once granted, can only end.
LEMMA RightStep ==
    ASSUME IndInv, Next
    PROVE  /\ right' \in {"pending", "active", "ended"}
           /\ right = "ended" => right' = "ended"
           /\ right # "pending" => right' # "pending"
           /\ right = "active" \/ right' = right \/ UNCHANGED rows
<1>0. right \in {"pending", "active", "ended"}
  BY DEF IndInv, TypeOK
<1>1. CASE GrantRight \/ EndRight
  BY <1>0, <1>1 DEF GrantRight, EndRight
<1>2. CASE ~(GrantRight \/ EndRight)
  <2>1. right' = right
    BY <1>2
    DEF Next, StartGeneration, Claim, ClaimExhausted, ClaimBlocked, ClaimCheck, LeaseLapse, Continue,
        ClaimCommit, SourceBlocked, PlanWork, WriteWork, WorkFails, PersistCheck, PersistBlocked,
        PersistConflict, PersistBlueprint, PersistLessons, FinishFailure, FinishConflict, Crash,
        Reads, ReadRun, ReadBlueprint, Decides, ApproveBlueprint, RejectBlueprint, RejectOutput,
        Canonicalize
  <2>. QED BY <1>0, <2>1, SMTT(40)
<1>. QED BY <1>1, <1>2

LEMMA OpenStep ==
    ASSUME IndInv, Next
    PROVE  OneOpenRun'
<1>0. \A r \in Runs : RunKept(r)
  BY RunsKept
<1>1. CASE \E r \in Runs : StartGeneration(r)
  <2>1. PICK r \in Runs : StartGeneration(r)
    BY <1>1
  <2>2. \A q \in Runs : q # r => run'[q].status \notin Open
    BY <2>1, StartEffect DEF StartSaved, RowOnly, StartGeneration
  <2>. QED BY <2>2 DEF OneOpenRun
<1>2. CASE ~\E r \in Runs : StartGeneration(r)
  <2>1. \A r \in Runs : run'[r].status \in Open => run[r].status \in Open
    BY <1>0, <1>2 DEF RunKept
  <2>. QED BY <2>1 DEF IndInv, OneOpenRun
<1>. QED BY <1>1, <1>2

LEMMA BlockedStep ==
    ASSUME IndInv, Next
    PROVE  BlockedForGood'
<1>0. BlockedForGood
  BY DEF IndInv
<1>1. ASSUME NEW r \in Runs, run'[r].status # "none"
      PROVE  right # "pending"
  <2>1. CASE run[r].status # "none"
    BY <1>0, <2>1 DEF BlockedForGood
  <2>2. CASE run[r].status = "none"
    <3>1. StartGeneration(r)
      <4>1. RunKept(r)
        BY RunsKept
      <4>. QED BY <1>1, <2>2, <4>1 DEF RunKept, Open, Stages, Waiting, Review
    <3>. QED BY <3>1 DEF StartGeneration
  <2>. QED BY <2>1, <2>2
<1>2. ASSUME NEW r \in Runs, run'[r].status = "rights_blocked"
      PROVE  right = "ended"
  BY <1>0, <1>2, RunsKept DEF BlockedForGood, RunKept
<1>. QED BY <1>1, <1>2, RightStep DEF BlockedForGood

-----------------------------------------------------------------------------
(* Reviewers.                                                               *)

\* A run that exists moves under a later version; its plan is made once.
VersionKept(r) ==
    run[r].status # "none" =>
        /\ run'[r].status # "none"
        /\ run'[r].version >= run[r].version
        /\ run'[r].version = run[r].version =>
              run'[r].status = run[r].status /\ run'[r].output = run[r].output
        /\ blueprint[r].plan \in {None, blueprint'[r].plan}

LEMMA MovedVersion ==
    ASSUME IndInv, NEW r \in Runs, Moved(r)
    PROVE  VersionKept(r)
<1>0. run[r].version \in Nat /\ RunKept(r)
  BY Counts, MovedKeeps
<1>1. run[r].status # "none" => run'[r].status # "none"
  BY <1>0 DEF RunKept
<1>2. ASSUME run'[r].version = run[r].version, run'[r].status = run[r].status,
             run'[r].output = run[r].output, blueprint'[r] = blueprint[r]
      PROVE  VersionKept(r)
  BY <1>0, <1>1, <1>2 DEF VersionKept
<1>3. ASSUME run'[r].version \in run[r].version + 1 .. run[r].version + 2,
             blueprint[r].plan \in {None, blueprint'[r].plan}
      PROVE  VersionKept(r)
  BY <1>0, <1>1, <1>3 DEF VersionKept
<1>4. run[r].version + 1 \in run[r].version + 1 .. run[r].version + 2
  BY <1>0
<1>5. ASSUME StartSaved(r)
      PROVE  VersionKept(r)
  BY <1>5 DEF StartSaved, VersionKept
<1>6. ASSUME LapseSaved(r)
      PROVE  VersionKept(r)
  BY <1>2, <1>6, Zenon DEF LapseSaved
<1>7. ASSUME NEW status, EndSaved(r, status)
      PROVE  VersionKept(r)
  <2>1. run'[r].version \in run[r].version + 1 .. run[r].version + 2 /\ blueprint'[r] = blueprint[r]
    BY <1>7, Zenon DEF EndSaved
  <2>. QED BY <1>3, <2>1
<1>8. ASSUME NEW c \in Calls, ClaimSaved(c, r)
      PROVE  VersionKept(r)
  <2>1. run'[r].version \in run[r].version + 1 .. run[r].version + 2 /\ blueprint'[r] = blueprint[r]
    BY <1>8, Zenon DEF ClaimSaved
  <2>. QED BY <1>3, <2>1
<1>9. ASSUME NEW c \in Calls, PlanSaved(c, r)
      PROVE  VersionKept(r)
  <2>1. run'[r].version = run[r].version + 1 /\ run[r].status = "planning"
    BY <1>9, Zenon DEF PlanSaved, CloseSaved
  <2>2. blueprint[r].plan = None
    <3>1. blueprint[r].status = "none"
      BY <2>1, TakenRun DEF Stages
    <3>. QED BY <3>1, Leased DEF RunReviewed
  <2>. QED BY <1>3, <1>4, <2>1, <2>2
<1>10. ASSUME NEW c \in Calls, WriteSaved(c, r)
       PROVE  VersionKept(r)
  <2>1. run'[r].version = run[r].version + 1 /\ blueprint'[r] = blueprint[r]
    BY <1>10, Zenon DEF WriteSaved, CloseSaved
  <2>. QED BY <1>3, <1>4, <2>1
<1>11. ASSUME NEW c \in Calls, NEW status, FailSaved(c, r, status)
       PROVE  VersionKept(r)
  <2>1. run'[r].version = run[r].version + 1 /\ blueprint'[r] = blueprint[r]
    BY <1>11, Zenon DEF FailSaved, CloseSaved
  <2>. QED BY <1>3, <1>4, <2>1
<1>12. ASSUME NEW v \in Reviewers, NEW decision, NEW status, NEW after,
              BlueprintDecided(v, r, decision, status, after)
       PROVE  VersionKept(r)
  <2>1. /\ run'[r].version = run[r].version + 1
        /\ blueprint'[r] = [status |-> status, plan |-> blueprint[r].plan]
    BY <1>12, Zenon DEF BlueprintDecided, DecisionSaved
  <2>. QED BY <1>3, <1>4, <2>1
<1>13. ASSUME NEW v \in Reviewers, RefuseSaved(v, r) \/ AcceptSaved(v, r)
       PROVE  VersionKept(r)
  <2>1. run'[r].version = run[r].version + 1 /\ blueprint'[r] = blueprint[r]
    BY <1>13, Zenon DEF RefuseSaved, AcceptSaved, DecisionSaved
  <2>. QED BY <1>3, <1>4, <2>1
<1>. QED BY <1>5, <1>6, <1>7, <1>8, <1>9, <1>10, <1>11, <1>12, <1>13 DEF Moved

LEMMA VersionsKept ==
    ASSUME IndInv, Next
    PROVE  \A r \in Runs : VersionKept(r)
<1>1. CASE Quiet
  <2>1. UNCHANGED <<run, attempt, blueprint, lessons, review>>
    BY <1>1, QuietKeeps
  <2>. QED BY <2>1, Counts DEF VersionKept
<1>2. ASSUME NEW r \in Runs, Moved(r), RowsTyped
      PROVE  \A q \in Runs : VersionKept(q)
  <2>1. RowOnly(r)
    BY <1>2
    DEF Moved, StartSaved, LapseSaved, EndSaved, ClaimSaved, PlanSaved, WriteSaved, FailSaved,
        CloseSaved, BlueprintDecided, RefuseSaved, AcceptSaved, DecisionSaved
  <2>2. \A q \in Runs : q # r => VersionKept(q)
    BY <2>1, Counts, SMTT(40) DEF RowOnly, VersionKept
  <2>. QED BY <1>2, <2>2, MovedVersion
<1>. QED BY <1>1, <1>2, RowCases

LEMMA SeenKept ==
    ASSUME Next, ~\E v \in Reviewers : Reads(v)
    PROVE  seen' = seen
  BY DEF Next, StartGeneration, Claim, ClaimExhausted, ClaimBlocked, ClaimCheck, LeaseLapse, Continue,
         ClaimCommit, SourceBlocked, PlanWork, WriteWork, WorkFails, PersistCheck, PersistBlocked,
         PersistConflict, PersistBlueprint, PersistLessons, FinishFailure, FinishConflict, Crash,
         Decides, ApproveBlueprint, RejectBlueprint, RejectOutput, Canonicalize, GrantRight, EndRight

\* One reviewer reads.
LEMMA ReadEffect ==
    ASSUME IndInv, NEW v \in Reviewers, Reads(v)
    PROVE  /\ seen' \in [Reviewers -> SeenStates]
           /\ \A w \in Reviewers : w # v => seen'[w] = seen[w]
           /\ seen'[v].run \in Runs /\ run[seen'[v].run].status # "none"
           /\ seen'[v].version <= run[seen'[v].run].version
           /\ seen'[v].plan \in {None, blueprint[seen'[v].run].plan}
           /\ seen'[v].version = run[seen'[v].run].version =>
                 /\ seen'[v].status = run[seen'[v].run].status
                 /\ seen'[v].output = run[seen'[v].run].output
<1>0. TypeOK /\ seen \in [Reviewers -> SeenStates] /\ seen[v] \in SeenStates
  BY DEF IndInv, TypeOK
<1>1. ASSUME NEW r \in Runs, ReadRun(v, r)
      PROVE  /\ seen' \in [Reviewers -> SeenStates]
             /\ \A w \in Reviewers : w # v => seen'[w] = seen[w]
             /\ seen'[v].run = r
             /\ run[r].status # "none"
             /\ seen'[v].version = run[r].version /\ run[r].version \in Nat
             /\ seen'[v].plan = None
             /\ seen'[v].status = run[r].status
             /\ seen'[v].output = run[r].output
  <2>. DEFINE state == [run |-> r, status |-> run[r].status, version |-> run[r].version,
                        plan |-> None, output |-> run[r].output]
  <2>1. run[r] \in RunRows
    BY <1>0 DEF TypeOK
  <2>2. state \in SeenStates
    BY <2>1 DEF RunRows, SeenStates
  <2>3. seen' = [seen EXCEPT ![v] = state] /\ run[r].status # "none"
    BY <1>1, Zenon DEF ReadRun
  <2>4. seen' \in [Reviewers -> SeenStates] /\ seen'[v] = state
        /\ \A w \in Reviewers : w # v => seen'[w] = seen[w]
    <3>. HIDE DEF state
    <3>. QED BY <1>0, <2>2, <2>3
  <2>. QED BY <2>3, <2>4, Counts
<1>2. ASSUME ReadBlueprint(v)
      PROVE  /\ seen' \in [Reviewers -> SeenStates]
             /\ \A w \in Reviewers : w # v => seen'[w] = seen[w]
             /\ seen'[v].run = seen[v].run /\ seen[v].run # None
             /\ seen'[v].version = seen[v].version
             /\ seen'[v].plan = blueprint[seen[v].run].plan
             /\ seen'[v].status = seen[v].status
             /\ seen'[v].output = seen[v].output
  <2>. DEFINE state == [seen[v] EXCEPT !.plan = blueprint[seen[v].run].plan]
  <2>1. seen[v].run \in Runs /\ seen[v].run # None
    BY <1>2 DEF ReadBlueprint, IndInv, VersionsTell
  <2>2. blueprint[seen[v].run].plan \in Plans \cup {None}
    BY <1>0, <2>1 DEF TypeOK, BlueprintRows
  <2>3. /\ state \in SeenStates
        /\ state.run = seen[v].run /\ state.version = seen[v].version
        /\ state.plan = blueprint[seen[v].run].plan
        /\ state.status = seen[v].status /\ state.output = seen[v].output
    BY <1>0, <2>2 DEF SeenStates
  <2>4. seen' = [seen EXCEPT ![v] = state]
    BY <1>2 DEF ReadBlueprint
  <2>. HIDE DEF state
  <2>. QED BY <1>0, <2>1, <2>3, <2>4
<1>3. CASE ReadBlueprint(v)
  BY <1>2, <1>3 DEF IndInv, VersionsTell
<1>4. ASSUME NEW r \in Runs, ReadRun(v, r)
      PROVE  /\ seen' \in [Reviewers -> SeenStates]
             /\ \A w \in Reviewers : w # v => seen'[w] = seen[w]
             /\ seen'[v].run \in Runs /\ run[seen'[v].run].status # "none"
             /\ seen'[v].version <= run[seen'[v].run].version
             /\ seen'[v].plan \in {None, blueprint[seen'[v].run].plan}
             /\ seen'[v].version = run[seen'[v].run].version =>
                   /\ seen'[v].status = run[seen'[v].run].status
                   /\ seen'[v].output = run[seen'[v].run].output
  BY <1>1, <1>4
<1>. QED BY <1>3, <1>4 DEF Reads

LEMMA VersionsStep ==
    ASSUME IndInv, Next
    PROVE  VersionsTell' /\ seen' \in [Reviewers -> SeenStates]
<1>1. CASE ~\E v \in Reviewers : Reads(v)
  <2>1. seen' = seen
    BY <1>1, SeenKept
  <2>2. ASSUME NEW v \in Reviewers, seen[v].run # None
        PROVE  LET r == seen[v].run IN
               /\ r \in Runs /\ run'[r].status # "none"
               /\ seen[v].version <= run'[r].version
               /\ seen[v].plan \in {None, blueprint'[r].plan}
               /\ seen[v].version = run'[r].version =>
                     seen[v].status = run'[r].status /\ seen[v].output = run'[r].output
    <3>. DEFINE r == seen[v].run
    <3>1. /\ r \in Runs /\ run[r].status # "none"
          /\ seen[v].version <= run[r].version
          /\ seen[v].plan \in {None, blueprint[r].plan}
          /\ seen[v].version = run[r].version =>
                seen[v].status = run[r].status /\ seen[v].output = run[r].output
      BY <2>2 DEF IndInv, VersionsTell
    <3>2. /\ run'[r].status # "none"
          /\ run'[r].version >= run[r].version
          /\ run'[r].version = run[r].version =>
                run'[r].status = run[r].status /\ run'[r].output = run[r].output
          /\ blueprint[r].plan \in {None, blueprint'[r].plan}
      BY <3>1, VersionsKept DEF VersionKept
    <3>3. run[r].version \in Nat /\ seen[v].version \in Nat /\ run'[r].version \in Nat
      <4>1. seen[v].version \in Nat
        BY DEF IndInv, TypeOK, SeenStates
      <4>2. run'[r].version \in Nat
        BY <3>1, RowsStep DEF RowsTyped, RunRows
      <4>. QED BY <3>1, <4>1, <4>2, Counts
    <3>. HIDE DEF r
    <3>4. /\ seen[v].version <= run'[r].version
          /\ seen[v].plan \in {None, blueprint'[r].plan}
          /\ seen[v].version = run'[r].version =>
                seen[v].status = run'[r].status /\ seen[v].output = run'[r].output
      BY <3>1, <3>2, <3>3
    <3>. QED BY <3>1, <3>2, <3>4 DEF r
  <2>. QED BY <2>1, <2>2 DEF VersionsTell, IndInv, TypeOK
<1>2. ASSUME NEW v \in Reviewers, Reads(v)
      PROVE  VersionsTell' /\ seen' \in [Reviewers -> SeenStates]
  <2>1. run' = run /\ blueprint' = blueprint
    BY <1>2, QuietKeeps DEF Quiet
  <2>2. \A w \in Reviewers : w # v => seen'[w] = seen[w]
    BY <1>2, ReadEffect
  <2>. QED BY <1>2, <2>1, <2>2, ReadEffect DEF VersionsTell, IndInv
<1>. QED BY <1>1, <1>2

-----------------------------------------------------------------------------
(* Calls.                                                                   *)

\* One call goes on, in a state of its own.
OneCall(c) ==
    /\ call' \in [Calls -> CallStates]
    /\ \A d \in Calls : d # c => call'[d] = call[d]

\* It works on the same run, attempt and stage, outside any transaction.
SameWork(c) ==
    /\ ~call[c].checked /\ ~call'[c].checked
    /\ call'[c].run = call[c].run
    /\ call'[c].attempt = call[c].attempt
    /\ call'[c].stage = call[c].stage

Claimed(c, r) ==
    /\ Takeable(r) /\ run[r].attempts < MaxAttempts
    /\ ~call[c].checked
    /\ call'[c].pc = "claim" /\ call'[c].checked /\ call'[c].run = r
    /\ call'[c].failure = call[c].failure

GivenUp(c) ==
    /\ SameWork(c)
    /\ call[c].pc \in {"work", "persist"} /\ call'[c].pc = "finish"
    /\ call'[c].failure \in {"retryable", "permanent", "rights"}
    /\ call'[c].failure = "rights" => right # "active"

Worked(c) ==
    /\ SameWork(c)
    /\ call[c].pc = "work" /\ call'[c].pc = "persist"
    /\ call'[c].failure = call[c].failure
    /\ \/ call[c].stage = "planning" /\ call'[c].plan \in Plans
       \/ /\ call[c].stage = "generating"
          /\ call'[c].plan = blueprint[call[c].run].plan /\ call'[c].output \in Outputs

Verified(c) ==
    /\ call[c].pc = "persist" /\ call'[c].pc = "persist"
    /\ ~call[c].checked /\ call'[c].checked
    /\ HoldsStage(c) /\ RowFree(call[c].run)
    /\ call'[c].run = call[c].run
    /\ call'[c].attempt = call[c].attempt
    /\ call'[c].stage = call[c].stage
    /\ call'[c].plan = call[c].plan
    /\ call'[c].output = call[c].output
    /\ call'[c].failure = call[c].failure

CallMoved(c) ==
    /\ OneCall(c)
    /\ \/ \E r \in Runs : Claimed(c, r)
       \/ GivenUp(c)
       \/ Worked(c)
       \/ Verified(c)
       \/ call'[c] = IdleCall

LEMMA Unchecked ==
    ASSUME IndInv, NEW c \in Calls, call[c].pc \in {"idle", "work", "finish"}
    PROVE  ~call[c].checked
  BY DEF IndInv, ChecksStand, Stands

LEMMA GiveUpEffect ==
    ASSUME IndInv, NEW c \in Calls, NEW failure \in {"retryable", "permanent", "rights"},
           GiveUp(c, failure), ~call[c].checked, call[c].pc \in {"work", "persist"},
           failure = "rights" => right # "active"
    PROVE  CallMoved(c)
<1>. DEFINE state == [call[c] EXCEPT !.pc = "finish", !.failure = failure]
<1>1. call[c] \in CallStates /\ TypeOK
  BY DEF IndInv, TypeOK
<1>2. /\ state \in CallStates
      /\ state.pc = "finish" /\ state.checked = call[c].checked /\ state.run = call[c].run
      /\ state.attempt = call[c].attempt /\ state.stage = call[c].stage
      /\ state.failure = failure
  BY <1>1 DEF CallStates
<1>3. Goes(c, state)
  BY DEF GiveUp
<1>. HIDE DEF state
<1>. QED BY <1>1, <1>2, <1>3, GoesType DEF CallMoved, OneCall, GivenUp, SameWork

LEMMA IdleEffect ==
    ASSUME IndInv, NEW c \in Calls, Goes(c, IdleCall)
    PROVE  CallMoved(c)
  BY GoesIdle DEF Idles, CallMoved, OneCall

LEMMA CallCases ==
    ASSUME IndInv, CallMoves
    PROVE  \E c \in Calls : CallMoved(c) /\ UNCHANGED <<right, seen>>
<1>0. TypeOK /\ \A c \in Calls : call[c] \in CallStates
  BY DEF IndInv, TypeOK
<1>1. ASSUME NEW c \in Calls, NEW r \in Runs, ClaimCheck(c, r)
      PROVE  CallMoved(c) /\ UNCHANGED <<right, seen>>
  <2>. DEFINE state == [call[c] EXCEPT !.pc = "claim", !.checked = TRUE, !.run = r]
  <2>1. /\ state \in CallStates
        /\ state.pc = "claim" /\ state.checked /\ state.run = r /\ state.failure = call[c].failure
    BY <1>0 DEF CallStates
  <2>2. Goes(c, state)
    BY <1>1 DEF ClaimCheck
  <2>3. ~call[c].checked /\ Takeable(r) /\ run[r].attempts < MaxAttempts /\ UNCHANGED <<right, seen>>
    BY <1>1, Unchecked DEF ClaimCheck
  <2>. HIDE DEF state
  <2>. QED BY <1>0, <2>1, <2>2, <2>3, GoesType DEF CallMoved, OneCall, Claimed
<1>2. ASSUME NEW c \in Calls, SourceBlocked(c) \/ WorkFails(c)
      PROVE  CallMoved(c) /\ UNCHANGED <<right, seen>>
  <2>1. CASE SourceBlocked(c)
    BY <2>1, Unchecked, GiveUpEffect DEF SourceBlocked
  <2>2. CASE WorkFails(c)
    <3>1. PICK failure \in {"permanent", "retryable"} : GiveUp(c, failure)
      BY <2>2 DEF WorkFails, SourceFailures, AdapterFailures, OutputFailures
    <3>. QED BY <2>2, <3>1, Unchecked, GiveUpEffect DEF WorkFails
  <2>. QED BY <1>2, <2>1, <2>2
<1>3. ASSUME NEW c \in Calls, PersistBlocked(c) \/ PersistConflict(c)
      PROVE  CallMoved(c) /\ UNCHANGED <<right, seen>>
  BY <1>3, GiveUpEffect DEF PersistBlocked, PersistConflict, Begins
<1>4. ASSUME NEW c \in Calls, PlanWork(c)
      PROVE  CallMoved(c) /\ UNCHANGED <<right, seen>>
  <2>1. PICK p \in Plans : Goes(c, [call[c] EXCEPT !.pc = "persist", !.plan = p])
    BY <1>4 DEF PlanWork
  <2>. DEFINE state == [call[c] EXCEPT !.pc = "persist", !.plan = p]
  <2>2. /\ state \in CallStates
        /\ state.pc = "persist" /\ state.checked = call[c].checked /\ state.run = call[c].run
        /\ state.attempt = call[c].attempt /\ state.stage = call[c].stage
        /\ state.plan = p /\ state.failure = call[c].failure
    BY <1>0 DEF CallStates
  <2>3. Goes(c, state)
    BY <2>1
  <2>4. /\ ~call[c].checked /\ call[c].pc = "work" /\ call[c].stage = "planning"
        /\ UNCHANGED <<right, seen>>
    BY <1>4, Unchecked DEF PlanWork
  <2>. HIDE DEF state
  <2>. QED BY <1>0, <2>2, <2>3, <2>4, GoesType DEF CallMoved, OneCall, Worked, SameWork
<1>5. ASSUME NEW c \in Calls, WriteWork(c)
      PROVE  CallMoved(c) /\ UNCHANGED <<right, seen>>
  <2>. DEFINE r == call[c].run
  <2>1. PICK o \in Outputs :
          Goes(c, [call[c] EXCEPT !.pc = "persist", !.plan = blueprint[r].plan, !.output = o])
    BY <1>5 DEF WriteWork
  <2>2. /\ ~call[c].checked /\ call[c].pc = "work" /\ call[c].stage = "generating"
        /\ UNCHANGED <<right, seen>>
    BY <1>5, Unchecked DEF WriteWork
  <2>3. r \in Runs
    BY <2>2, CallRun
  <2>4. blueprint[r].plan \in Plans \cup {None}
    BY <1>0, <2>3 DEF TypeOK, BlueprintRows
  <2>. DEFINE state == [call[c] EXCEPT !.pc = "persist", !.plan = blueprint[r].plan, !.output = o]
  <2>5. /\ state \in CallStates
        /\ state.pc = "persist" /\ state.checked = call[c].checked /\ state.run = call[c].run
        /\ state.attempt = call[c].attempt /\ state.stage = call[c].stage
        /\ state.plan = blueprint[r].plan /\ state.output = o /\ state.failure = call[c].failure
    BY <1>0, <2>4 DEF CallStates
  <2>6. Goes(c, state)
    BY <2>1
  <2>. HIDE DEF state
  <2>. QED BY <1>0, <2>2, <2>5, <2>6, GoesType DEF CallMoved, OneCall, Worked, SameWork
<1>6. ASSUME NEW c \in Calls, PersistCheck(c)
      PROVE  CallMoved(c) /\ UNCHANGED <<right, seen>>
  <2>. DEFINE state == [call[c] EXCEPT !.checked = TRUE]
  <2>1. /\ state \in CallStates
        /\ state.pc = call[c].pc /\ state.checked /\ state.run = call[c].run
        /\ state.attempt = call[c].attempt /\ state.stage = call[c].stage
        /\ state.plan = call[c].plan /\ state.output = call[c].output
        /\ state.failure = call[c].failure
    BY <1>0 DEF CallStates
  <2>2. Goes(c, state)
    BY <1>6 DEF PersistCheck
  <2>3. /\ ~call[c].checked /\ call[c].pc = "persist" /\ RowFree(call[c].run) /\ HoldsStage(c)
        /\ UNCHANGED <<right, seen>>
    BY <1>6 DEF PersistCheck, Begins
  <2>. HIDE DEF state
  <2>. QED BY <1>0, <2>1, <2>2, <2>3, GoesType DEF CallMoved, OneCall, Verified
<1>7. ASSUME NEW c \in Calls, FinishConflict(c) \/ Crash(c)
      PROVE  CallMoved(c) /\ UNCHANGED <<right, seen>>
  BY <1>7, IdleEffect DEF FinishConflict, Crash
<1>. QED BY <1>1, <1>2, <1>3, <1>4, <1>5, <1>6, <1>7 DEF CallMoves

\* A step that touches a row is of a call at its run, or of no call.
LEMMA MovedCalls ==
    ASSUME IndInv, NEW r \in Runs, Moved(r)
    PROVE  \/ call' = call
           \/ \E c \in Calls :
                 /\ call[c].run = r /\ OneCall(c)
                 /\ \/ ClaimCommit(c) \/ call'[c] = IdleCall
<1>1. ASSUME NEW c \in Calls, ClaimCommit(c), ClaimSaved(c, r)
      PROVE  call[c].run = r /\ OneCall(c)
  BY <1>1, ClaimEffect, ZenonT(60) DEF ClaimSaved, OneCall
<1>2. ASSUME NEW c \in Calls, PersistBlueprint(c), PlanSaved(c, r)
      PROVE  call[c].run = r /\ OneCall(c) /\ call'[c] = IdleCall
  BY <1>2, PlanEffect, ZenonT(60) DEF PlanSaved, CloseSaved, OneCall, Idles
<1>3. ASSUME NEW c \in Calls, PersistLessons(c), WriteSaved(c, r)
      PROVE  call[c].run = r /\ OneCall(c) /\ call'[c] = IdleCall
  BY <1>3, WriteEffect, ZenonT(60) DEF WriteSaved, CloseSaved, OneCall, Idles
<1>4. ASSUME NEW c \in Calls, FinishFailure(c), NEW status, FailSaved(c, r, status)
      PROVE  call[c].run = r /\ OneCall(c) /\ call'[c] = IdleCall
  BY <1>4, FailEffect, ZenonT(60) DEF FailSaved, CloseSaved, OneCall, Idles
<1>5. ASSUME \/ StartGeneration(r) \/ LeaseLapse(r)
             \/ \E status \in {"failed", "rights_blocked"} : ClaimEnds(r, status)
             \/ \E v \in Reviewers : Decides(v)
      PROVE  call' = call
  BY <1>5 DEF StartGeneration, LeaseLapse, ClaimEnds, Decides, ApproveBlueprint, RejectBlueprint,
              RejectOutput, Canonicalize
<1>. QED BY <1>1, <1>2, <1>3, <1>4, <1>5, SMTT(40) DEF Moved, Decides

LEMMA CallStep ==
    ASSUME IndInv, Next
    PROVE  call' \in [Calls -> CallStates]
<1>0. call \in [Calls -> CallStates]
  BY DEF IndInv, TypeOK
<1>1. CASE Quiet
  <2>1. CASE CallMoves
    BY <2>1, CallCases DEF CallMoved, OneCall
  <2>2. CASE GrantRight \/ EndRight \/ \E v \in Reviewers : Reads(v)
    BY <1>0, <2>2 DEF GrantRight, EndRight, Reads, ReadRun, ReadBlueprint
  <2>. QED BY <1>1, <2>1, <2>2 DEF Quiet
<1>2. ASSUME NEW r \in Runs, Moved(r)
      PROVE  call' \in [Calls -> CallStates]
  BY <1>0, <1>2, MovedCalls DEF OneCall
<1>. QED BY <1>1, <1>2, RowCases

LEMMA TypeStep ==
    ASSUME IndInv, Next
    PROVE  TypeOK'
  BY RowsStep, RightStep, VersionsStep, CallStep DEF TypeOK, RowsTyped

-----------------------------------------------------------------------------
(* Transactions in progress.                                               *)

\* A row as its checks saw it, but for a lease that ran out.
RowHeld(r) ==
    /\ run'[r].status = run[r].status
    /\ run'[r].owner = run[r].owner
    /\ run'[r].attempts = run[r].attempts
    /\ run'[r].live => run[r].live

\* A checked call holds a run that exists, alone.
LEMMA Holder ==
    ASSUME IndInv, NEW c \in Calls, call[c].checked
    PROVE  /\ call[c].run \in Runs /\ run[call[c].run].status # "none"
           /\ \A d \in Calls : call[d].checked /\ call[d].run = call[c].run => d = c
<1>1. Stands(c) /\ Carries(c)
  BY DEF IndInv, ChecksStand, CallsCarry
<1>2. call[c].pc # "idle"
  BY <1>1 DEF Stands
<1>. QED BY <1>1, <1>2 DEF Stands, Carries

\* A row that moves is held by no transaction but the one that moves it.
LEMMA HeldOrDone ==
    ASSUME IndInv, NEW r \in Runs, Moved(r)
    PROVE  \/ RowHeld(r)
           \/ \A d \in Calls : call[d].checked /\ call[d].run = r => ~call'[d].checked
<1>1. ASSUME StartSaved(r)
      PROVE  \A d \in Calls : call[d].checked => call[d].run # r
  BY <1>1, Holder DEF StartSaved
<1>2. ASSUME LapseSaved(r)
      PROVE  RowHeld(r)
  BY <1>2 DEF LapseSaved, RowHeld
<1>3. ASSUME NEW status, ClaimEnds(r, status)
      PROVE  \A d \in Calls : call[d].checked => call[d].run # r
  BY <1>3 DEF ClaimEnds, Takeable, RowFree
<1>4. ASSUME NEW c \in Calls, call[c].run = r, call[c].checked, ~call'[c].checked
      PROVE  \A d \in Calls : call[d].checked /\ call[d].run = r => ~call'[d].checked
  BY <1>4, Holder
<1>5. ASSUME NEW c \in Calls, ClaimCommit(c), ClaimSaved(c, r)
      PROVE  call[c].run = r /\ call[c].checked /\ ~call'[c].checked
  <2>1. call[c].run = r
    BY <1>5 DEF ClaimSaved
  <2>2. call[c].checked
    BY <1>5 DEF ClaimCommit, IndInv, ChecksStand, Stands
  <2>3. call'[c].checked = FALSE
    <3>1. call[c] \in CallStates
      BY DEF IndInv, TypeOK
    <3>. QED BY <1>5, <3>1, ClaimEffect, ZenonT(60) DEF CallStates
  <2>. QED BY <2>1, <2>2, <2>3, SMTT(40)
<1>6. ASSUME NEW c \in Calls, PersistBlueprint(c), PlanSaved(c, r)
      PROVE  call[c].run = r /\ call[c].checked /\ ~call'[c].checked
  <2>1. PlanSaved(c, r) /\ call'[c] = IdleCall
    BY <1>6, PlanEffect DEF Idles
  <2>2. call[c].run = r /\ call[c].checked
    BY <1>6, <2>1, Zenon DEF PlanSaved, CloseSaved, PersistBlueprint
  <2>3. IdleCall.checked = FALSE
    BY DEF IdleCall
  <2>. QED BY <2>1, <2>2, <2>3
<1>7. ASSUME NEW c \in Calls, PersistLessons(c), WriteSaved(c, r)
      PROVE  call[c].run = r /\ call[c].checked /\ ~call'[c].checked
  <2>1. WriteSaved(c, r) /\ call'[c] = IdleCall
    BY <1>7, WriteEffect DEF Idles
  <2>2. call[c].run = r /\ call[c].checked
    BY <1>7, <2>1, Zenon DEF WriteSaved, CloseSaved, PersistLessons
  <2>3. IdleCall.checked = FALSE
    BY DEF IdleCall
  <2>. QED BY <2>1, <2>2, <2>3
<1>8. ASSUME NEW c \in Calls, FinishFailure(c), NEW status, FailSaved(c, r, status)
      PROVE  \A d \in Calls : call[d].checked => call[d].run # r
  BY <1>8 DEF FailSaved, CloseSaved, FinishFailure, Begins, RowFree
<1>9. ASSUME NEW v \in Reviewers, StillAsRead(v), seen[v].run = r
      PROVE  \A d \in Calls : call[d].checked => call[d].run # r
  BY <1>9, SMTT(40) DEF StillAsRead, RowFree
<1>10. ASSUME NEW v \in Reviewers,
              \/ ApproveBlueprint(v)
                    /\ BlueprintDecided(v, r, "approve", "approved", "generation_queued")
              \/ RejectBlueprint(v) /\ BlueprintDecided(v, r, "reject", "rejected", "rejected")
              \/ RejectOutput(v) /\ RefuseSaved(v, r)
              \/ Canonicalize(v) /\ AcceptSaved(v, r)
       PROVE  StillAsRead(v) /\ seen[v].run = r
  BY <1>10 DEF ApproveBlueprint, RejectBlueprint, RejectOutput, Canonicalize, BlueprintDecided,
               RefuseSaved, AcceptSaved, DecisionSaved
<1>. QED BY <1>1, <1>2, <1>3, <1>4, <1>5, <1>6, <1>7, <1>8, <1>9, <1>10 DEF Moved

\* Every call that is still in a transaction goes on holding its row.
LEMMA OthersStand ==
    ASSUME ChecksStand,
           \A d \in Calls :
              call'[d] # call[d] => ~call'[d].checked /\ call'[d].pc # "claim",
           \A d \in Calls : call'[d].checked => RowHeld(call[d].run)
    PROVE  ChecksStand'
<1>1. ASSUME NEW d \in Calls, call'[d] = call[d]
      PROVE  Stands(d)'
  <2>1. Stands(d) /\ (call[d].checked => RowHeld(call[d].run))
    BY <1>1 DEF ChecksStand
  <2>2. \A e \in Calls : call'[e].checked => call'[e] = call[e]
    OBVIOUS
  <2>. QED BY <1>1, <2>1, <2>2 DEF Stands, RowHeld, Owns, LeaseExpired
<1>2. ASSUME NEW d \in Calls, call'[d] # call[d]
      PROVE  Stands(d)'
  BY <1>2 DEF Stands
<1>. QED BY <1>1, <1>2 DEF ChecksStand

\* A call that passed its checks holds its row alone.
LEMMA CheckStands ==
    ASSUME ChecksStand, NEW c \in Calls, UNCHANGED run, ~call[c].checked,
           call'[c].checked, RowFree(call'[c].run),
           \A d \in Calls : d # c => call'[d] = call[d],
           call'[c].pc \in {"claim", "persist"},
           IF call'[c].pc = "claim"
           THEN /\ run[call'[c].run].status \in Waiting \/ LeaseExpired(call'[c].run)
                /\ run[call'[c].run].attempts < MaxAttempts
           ELSE /\ run[call'[c].run].status = call'[c].stage
                /\ run[call'[c].run].owner = WorkerId[c]
    PROVE  ChecksStand'
<1>1. \A d \in Calls : call'[d].checked /\ call'[d].run = call'[c].run => d = c
  BY DEF RowFree
<1>2. Stands(c)'
  BY <1>1 DEF Stands, Owns, LeaseExpired
<1>3. ASSUME NEW d \in Calls, d # c
      PROVE  Stands(d)'
  <2>1. call'[d] = call[d] /\ Stands(d)
    BY <1>3 DEF ChecksStand
  <2>2. call[d].checked => call[d].run # call'[c].run
    BY <1>3 DEF RowFree
  <2>3. \A e \in Calls : call'[e].checked /\ call'[e].run = call'[d].run /\ call'[d].checked => e = d
    BY <2>1, <2>2 DEF Stands
  <2>. QED BY <2>1, <2>3 DEF Stands, Owns, LeaseExpired
<1>. QED BY <1>2, <1>3 DEF ChecksStand

LEMMA ChecksStep ==
    ASSUME IndInv, Next
    PROVE  ChecksStand'
<1>0. ChecksStand
  BY DEF IndInv
<1>1. CASE CallMoves
  <2>1. run' = run
    BY <1>1, QuietKeeps DEF Quiet
  <2>2. PICK c \in Calls : CallMoved(c)
    BY <1>1, CallCases
  <2>3. \A d \in Calls : d # c => call'[d] = call[d]
    BY <2>2 DEF CallMoved, OneCall
  <2>4. CASE \E r \in Runs : Claimed(c, r)
    BY <1>0, <2>1, <2>3, <2>4, CheckStands DEF Claimed, Takeable
  <2>5. CASE Verified(c)
    BY <1>0, <2>1, <2>3, <2>5, CheckStands DEF Verified, HoldsStage, Owns
  <2>6. CASE GivenUp(c) \/ Worked(c) \/ call'[c] = IdleCall
    <3>1. ~call'[c].checked /\ call'[c].pc # "claim"
      BY <2>6 DEF GivenUp, Worked, SameWork, IdleCall
    <3>2. \A r : RowHeld(r)
      BY <2>1 DEF RowHeld
    <3>. QED BY <1>0, <2>3, <3>1, <3>2, OthersStand
  <2>. QED BY <2>2, <2>4, <2>5, <2>6 DEF CallMoved
<1>2. CASE GrantRight \/ EndRight \/ \E v \in Reviewers : Reads(v)
  <2>1. call' = call /\ run' = run
    BY <1>2, QuietKeeps DEF Quiet, GrantRight, EndRight, Reads, ReadRun, ReadBlueprint
  <2>2. \A r : RowHeld(r)
    BY <2>1 DEF RowHeld
  <2>. QED BY <1>0, <2>1, <2>2, OthersStand
<1>3. ASSUME NEW r \in Runs, Moved(r)
      PROVE  ChecksStand'
  <2>1. RowOnly(r)
    BY <1>3
    DEF Moved, StartSaved, LapseSaved, EndSaved, ClaimSaved, PlanSaved, WriteSaved, FailSaved,
        CloseSaved, BlueprintDecided, RefuseSaved, AcceptSaved, DecisionSaved
  <2>2. \A d \in Calls : call'[d] # call[d] => ~call'[d].checked /\ call'[d].pc # "claim"
    <3>1. ASSUME NEW c \in Calls, ClaimCommit(c)
          PROVE  call'[c].checked = FALSE /\ call'[c].pc = "work"
      <4>1. call[c] \in CallStates
        BY DEF IndInv, TypeOK
      <4>. QED BY <3>1, <4>1, ClaimEffect DEF CallStates
    <3>2. IdleCall.checked = FALSE /\ IdleCall.pc = "idle"
      BY DEF IdleCall
    <3>. QED BY <1>3, <3>1, <3>2, MovedCalls DEF OneCall
  <2>3. \A d \in Calls : call'[d].checked => RowHeld(call[d].run)
    <3>1. ASSUME NEW d \in Calls, call'[d].checked
          PROVE  RowHeld(call[d].run)
      <4>1. call[d].checked
        BY <2>2, <3>1
      <4>2. call[d].run \in Runs
        BY <4>1, Holder
      <4>3. CASE call[d].run # r
        BY <2>1, <4>2, <4>3 DEF RowOnly, RowHeld
      <4>4. CASE call[d].run = r
        BY <1>3, <3>1, <4>1, <4>4, HeldOrDone
      <4>. QED BY <4>3, <4>4
    <3>. QED BY <3>1
  <2>. QED BY <1>0, <2>2, <2>3, OthersStand, SMTT(40)
<1>. QED BY <1>1, <1>2, <1>3, RowCases DEF Quiet

-----------------------------------------------------------------------------
(* What calls carry.                                                        *)

\* A call that goes on with the attempt it opened carries on what it carried.
LEMMA WorkKept ==
    ASSUME IndInv, Next, NEW c \in Calls, call[c].pc \notin {"idle", "claim"}
    PROVE  /\ run'[call[c].run].status # "none" /\ call[c].run \in Runs
           /\ call[c].attempt \in 1 .. run'[call[c].run].attempts
           /\ call[c].stage = attempt'[call[c].run][call[c].attempt].stage
           /\ call[c].stage = "generating" =>
                 blueprint[call[c].run].status = "approved"
                    /\ blueprint'[call[c].run] = blueprint[call[c].run]
<1>. DEFINE r == call[c].run
            a == call[c].attempt
<1>1. /\ r \in Runs /\ run[r].status # "none"
      /\ a \in 1 .. run[r].attempts
      /\ call[c].stage = attempt[r][a].stage
      /\ call[c].stage = "generating" => blueprint[r].status = "approved"
  BY DEF IndInv, CallsCarry, Carries
<1>2. RunKept(r)
  BY <1>1, RunsKept
<1>3. run'[r].attempts \in Nat /\ run[r].attempts \in Nat
  <2>1. run'[r] \in RunRows
    BY <1>1, RowsStep DEF RowsTyped
  <2>. QED BY <1>1, <2>1, Counts, AttemptsAssumption DEF RunRows, AttemptsAssumption
<1>4. a \in Attempts
  <2>1. run[r].attempts \in 0 .. MaxAttempts /\ MaxAttempts \in Nat
    BY <1>1, RunTypes DEF IndInv
  <2>. HIDE DEF r, a
  <2>. QED BY <1>1, <2>1 DEF Attempts
<1>5. attempt[r][a].outcome # "none"
  <2>1. a <= run[r].attempts
    <3>. HIDE DEF r, a
    <3>. QED BY <1>1, <1>3
  <2>. QED BY <1>1, <1>4, <2>1, Leased DEF RunLeased
<1>6. a \in 1 .. run'[r].attempts
  <2>1. run'[r].attempts >= run[r].attempts
    BY <1>2 DEF RunKept
  <2>. HIDE DEF r, a
  <2>. QED BY <1>1, <1>3, <2>1
<1>. QED BY <1>1, <1>2, <1>4, <1>5, <1>6 DEF RunKept

\* A call that did not move carries on what it carried.
LEMMA CarriedOn ==
    ASSUME IndInv, Next, NEW c \in Calls, call'[c] = call[c]
    PROVE  Carries(c)'
<1>0. Carries(c) /\ (right = "ended" => right' = "ended")
  BY RightStep DEF IndInv, CallsCarry
<1>1. call[c].pc # "idle" => call[c].run \in Runs /\ run'[call[c].run].status # "none"
  BY <1>0, RunsKept DEF Carries, RunKept
<1>2. CASE call[c].pc \in {"idle", "claim"}
  BY <1>0, <1>1, <1>2 DEF Carries
<1>3. CASE call[c].pc \notin {"idle", "claim"}
  BY <1>0, <1>3, WorkKept DEF Carries
<1>. QED BY <1>2, <1>3

LEMMA CarryStep ==
    ASSUME IndInv, Next
    PROVE  CallsCarry'
<1>0. /\ right = "ended" => right' = "ended"
      /\ \A c \in Calls : Carries(c)
  BY RightStep DEF IndInv, CallsCarry
<1>1. ASSUME NEW c \in Calls, call'[c] = IdleCall
      PROVE  Carries(c)'
  BY <1>1 DEF Carries, IdleCall
<1>2. CASE CallMoves
  <2>1. UNCHANGED <<run, attempt, blueprint>>
    BY <1>2, QuietKeeps DEF Quiet
  <2>2. PICK c \in Calls : CallMoved(c)
    BY <1>2, CallCases
  <2>3. \A d \in Calls : d # c => call'[d] = call[d]
    BY <2>2 DEF CallMoved, OneCall
  <2>4. CASE \E r \in Runs : Claimed(c, r)
    <3>1. PICK r \in Runs : Claimed(c, r)
      BY <2>4
    <3>2. run[r].status # "none"
      BY <3>1 DEF Claimed, Takeable, Waiting, Stages, LeaseExpired
    <3>3. Carries(c)'
      BY <1>0, <2>1, <3>1, <3>2 DEF Claimed, Carries
    <3>. QED BY <2>3, <3>3, CarriedOn DEF CallsCarry
  <2>5. CASE GivenUp(c)
    <3>1. call[c].pc \notin {"idle", "claim"}
      BY <2>5 DEF GivenUp
    <3>2. call'[c].failure = "rights" => right = "ended"
      <4>1. right \in {"pending", "active", "ended"}
        BY DEF IndInv, TypeOK
      <4>2. right # "pending"
        BY <1>0, <3>1 DEF Carries, IndInv, BlockedForGood
      <4>. QED BY <2>5, <4>1, <4>2 DEF GivenUp
    <3>3. Carries(c)'
      BY <1>0, <2>5, <3>1, <3>2, WorkKept DEF GivenUp, SameWork, Carries
    <3>. QED BY <2>3, <3>3, CarriedOn DEF CallsCarry
  <2>6. CASE Worked(c)
    <3>1. call[c].pc \notin {"idle", "claim"}
      BY <2>6 DEF Worked
    <3>2. Carries(c)'
      BY <1>0, <2>1, <2>6, <3>1, WorkKept DEF Worked, SameWork, Carries
    <3>. QED BY <2>3, <3>2, CarriedOn DEF CallsCarry
  <2>7. CASE Verified(c)
    <3>1. call[c].pc \notin {"idle", "claim"}
      BY <2>7 DEF Verified
    <3>2. Carries(c)'
      BY <1>0, <2>1, <2>7, <3>1, WorkKept DEF Verified, Carries
    <3>. QED BY <2>3, <3>2, CarriedOn DEF CallsCarry
  <2>8. CASE call'[c] = IdleCall
    BY <1>1, <2>3, <2>8, CarriedOn DEF CallsCarry
  <2>. QED BY <2>2, <2>4, <2>5, <2>6, <2>7, <2>8 DEF CallMoved
<1>3. CASE GrantRight \/ EndRight \/ \E v \in Reviewers : Reads(v)
  <2>1. call' = call
    BY <1>3 DEF GrantRight, EndRight, Reads, ReadRun, ReadBlueprint
  <2>. QED BY <2>1, CarriedOn DEF CallsCarry
<1>4. ASSUME NEW r \in Runs, Moved(r)
      PROVE  CallsCarry'
  <2>1. ASSUME NEW c \in Calls, ClaimCommit(c)
        PROVE  Carries(c)'
    <3>. DEFINE q == call[c].run
                n == run[q].attempts + 1
    <3>1. /\ call'[c] = [call[c] EXCEPT !.pc = "work", !.checked = FALSE,
                                        !.attempt = n, !.stage = NextStage(q)]
          /\ ClaimSaved(c, q)
      BY <2>1, ClaimEffect
    <3>2. call[c] \in CallStates
      BY DEF IndInv, TypeOK
    <3>3. /\ call'[c].pc = "work" /\ call'[c].run = q /\ call'[c].attempt = n
          /\ call'[c].stage = NextStage(q) /\ call'[c].failure = call[c].failure
      BY <3>1, <3>2 DEF CallStates
    <3>4. q \in Runs /\ run'[q].status # "none"
      <4>1. q \in Runs /\ run[q].status # "none"
        BY <1>0, <2>1 DEF ClaimCommit, Carries
      <4>. QED BY <4>1, RunsKept DEF RunKept
    <3>5. n \in 1 .. run'[q].attempts
      <4>1. run'[q].attempts = n
        BY <3>1, Zenon DEF ClaimSaved
      <4>2. run[q].attempts \in Nat
        BY <3>4, Counts
      <4>. HIDE DEF q
      <4>. QED BY <4>1, <4>2
    <3>6. /\ attempt'[q][n].stage = NextStage(q)
          /\ NextStage(q) = "generating" => blueprint'[q].status = "approved"
      <4>1. /\ attempt'[q][n].stage = NextStage(q)
            /\ blueprint'[q] = blueprint[q]
            /\ run[q].status \in Waiting \cup Stages
        BY <3>1, Zenon DEF ClaimSaved
      <4>. QED BY <3>4, <4>1, StageFits
    <3>. HIDE DEF q, n
    <3>. QED BY <1>0, <3>3, <3>4, <3>5, <3>6 DEF Carries
  <2>. QED BY <1>1, <1>4, <2>1, MovedCalls, CarriedOn DEF CallsCarry, OneCall
<1>. QED BY <1>2, <1>3, <1>4, RowCases DEF Quiet

-----------------------------------------------------------------------------
(* The invariant.                                                           *)

LEMMA InitHolds ==
    ASSUME Init
    PROVE  IndInv
<1>. USE DEF Init
<1>1. NoRun \in RunRows /\ NoAttempt \in AttemptRows /\ NoBlueprint \in BlueprintRows
      /\ NoReview \in ReviewRows /\ None \in LessonRows
  BY AttemptsAssumption
  DEF NoRun, RunRows, NoAttempt, AttemptRows, NoBlueprint, BlueprintRows, NoReview, ReviewRows,
      LessonRows, AttemptsAssumption
<1>2. NothingSeen \in SeenStates
  BY DEF NothingSeen, SeenStates
<1>3. TypeOK
  BY <1>1, <1>2, IdleType DEF TypeOK
<1>4. \A r \in Runs : /\ run[r].status = "none" /\ run[r].owner = None /\ ~run[r].live
                      /\ run[r].attempts = 0 /\ run[r].blueprint = None /\ run[r].output = None
                      /\ \A n \in Attempts : attempt[r][n] = NoAttempt
                      /\ blueprint[r].status = "none" /\ blueprint[r].plan = None
                      /\ lessons[r] = None
                      /\ review[r].decision = "none" /\ review[r].reviewed = None
                      /\ review[r].refused = None /\ review[r].course = None
  BY DEF NoRun, NoBlueprint, NoReview
<1>5. LeaseDiscipline
  <2>1. \A r \in Runs : \A n \in Attempts : attempt[r][n].outcome = "none" /\ n \in Nat /\ n > 0
    BY <1>4, AttemptNumbers DEF NoAttempt
  <2>2. \A r \in Runs : run[r].status \notin Stages
    BY <1>4 DEF Stages
  <2>3. ASSUME NEW r \in Runs
        PROVE  RunLeased(r)
    <3>1. /\ run[r].attempts = 0 /\ run[r].owner = None /\ ~run[r].live
          /\ run[r].status = "none" /\ run[r].status \notin Stages
      BY <1>4, <2>2
    <3>2. ASSUME NEW n \in Attempts
          PROVE  /\ n > 0 /\ ~(n <= 0) /\ n # 0 /\ attempt[r][n] = NoAttempt
                 /\ attempt[r][n].outcome # "running"
      BY <1>4, <2>1
    <3>. HIDE DEF Init
    <3>. QED BY <3>1, <3>2 DEF RunLeased
  <2>. QED BY <2>3 DEF LeaseDiscipline
<1>6. AttemptsExplainRun
  BY <1>4, NoneApart DEF AttemptsExplainRun, RunExplained, NoAttempt, Completes, Stages
<1>7. ReviewedExactly
  BY <1>4, ZenonT(60) DEF ReviewedExactly, RunReviewed
<1>8. VersionsTell
  BY DEF VersionsTell, NothingSeen
<1>9. OneOpenRun /\ BlockedForGood
  BY <1>4 DEF OneOpenRun, BlockedForGood, Open, Stages, Waiting, Review
<1>10. ChecksStand /\ CallsCarry
  BY DEF ChecksStand, Stands, CallsCarry, Carries, IdleCall
<1>. QED BY <1>3, <1>5, <1>6, <1>7, <1>8, <1>9, <1>10 DEF IndInv

LEMMA StutterHolds ==
    ASSUME IndInv, UNCHANGED vars
    PROVE  IndInv'
<1>. USE DEF vars, rows
<1>1. TypeOK'
  BY DEF IndInv, TypeOK
<1>2. \A r \in Runs : RunLeased(r)' /\ RunExplained(r)' /\ RunReviewed(r)'
  BY Leased, Untouched
<1>3. LeaseDiscipline' /\ AttemptsExplainRun' /\ ReviewedExactly'
  BY <1>2 DEF LeaseDiscipline, AttemptsExplainRun, ReviewedExactly
<1>4. VersionsTell' /\ OneOpenRun' /\ BlockedForGood'
  BY DEF IndInv, VersionsTell, OneOpenRun, BlockedForGood
<1>5. ChecksStand' /\ CallsCarry'
  BY DEF IndInv, ChecksStand, Stands, CallsCarry, Carries, LeaseExpired, Owns
<1>. QED BY <1>1, <1>3, <1>4, <1>5 DEF IndInv

LEMMA StepHolds ==
    ASSUME IndInv, [Next]_vars
    PROVE  IndInv'
<1>1. CASE Next
  BY <1>1, TypeStep, RowsStep, VersionsStep, OpenStep, BlockedStep, ChecksStep, CarryStep DEF IndInv
<1>. QED BY <1>1, StutterHolds

\* IndInv holds in every state generation reaches.
THEOREM InvariantHolds == Spec => []IndInv
<1>1. Init => IndInv
  BY InitHolds
<1>2. IndInv /\ [Next]_vars => IndInv'
  BY StepHolds
<1>. QED BY <1>1, <1>2, PTL DEF Spec

\* Every variable keeps its type.
THEOREM TypeCorrect == Spec => []TypeOK
<1>1. IndInv => TypeOK
  BY DEF IndInv
<1>. QED BY <1>1, InvariantHolds, PTL

\* A lease, a running attempt and a working stage come and go together, however
\* many calls share a worker id or come back late.
THEOREM LeasesAreKept == Spec => []LeaseDiscipline
<1>1. IndInv => LeaseDiscipline
  BY DEF IndInv
<1>. QED BY <1>1, InvariantHolds, PTL

\* The attempts of a run tell what it has and how it ended.
THEOREM AttemptsTell == Spec => []AttemptsExplainRun
<1>1. IndInv => AttemptsExplainRun
  BY DEF IndInv
<1>. QED BY <1>1, InvariantHolds, PTL

\* Lessons are written only for the plan that was approved, and a course draft is
\* made only of lessons that were reviewed.
THEOREM GatesAreKept == Spec => []ReviewedExactly
<1>1. IndInv => ReviewedExactly
  BY DEF IndInv
<1>. QED BY <1>1, InvariantHolds, PTL

\* A reviewer who names the version read decides on what was read.
THEOREM VersionsAreEnough == Spec => []VersionsTell
<1>1. IndInv => VersionsTell
  BY DEF IndInv
<1>. QED BY <1>1, InvariantHolds, PTL

\* A run is blocked only when the right to generate is gone for good.
THEOREM BlocksAreFinal == Spec => []BlockedForGood
<1>1. IndInv => BlockedForGood
  BY DEF IndInv
<1>. QED BY <1>1, InvariantHolds, PTL

\* At most one run is under way, and a call commits on the row it checked.
THEOREM CommitsAreSafe == Spec => [](OneOpenRun /\ ChecksStand /\ CallsCarry)
<1>1. IndInv => OneOpenRun /\ ChecksStand /\ CallsCarry
  BY DEF IndInv
<1>. QED BY <1>1, InvariantHolds, PTL

-----------------------------------------------------------------------------
(* The triggers accept every step.                                          *)

\* What TriggersAccept says of one run.
Accepted(r) ==
    /\ RunTrigger(r)
    /\ BlueprintTrigger(r)
    /\ EvidenceTrigger(r)
    /\ \A n \in Attempts : AttemptTrigger(r, n)

\* A worker's save: no evidence is asked for, and none is touched.
LEMMA WorkerAccepted ==
    ASSUME NEW r \in Runs, run[r].status \in Waiting \cup Stages,
           run'[r].status = run[r].status \/ MayMove(run[r].status, run'[r].status),
           run'[r].version \in run[r].version + 1 .. run[r].version + 2
    PROVE  RunTrigger(r)
<1>1. run[r].status \notin Terminal /\ run[r].status \notin {"none", "blueprint_review", "review_ready"}
  BY DEF Waiting, Stages, Terminal
<1>. QED BY <1>1 DEF RunTrigger, Evidenced

LEMMA NextVersion ==
    ASSUME IndInv, NEW r \in Runs, run'[r].version = run[r].version + 1
    PROVE  run'[r].version \in run[r].version + 1 .. run[r].version + 2
<1>1. run[r].version \in Nat
  BY Counts
<1>. QED BY <1>1

LEMMA StartAccepted ==
    ASSUME IndInv, NEW r \in Runs, StartGeneration(r), StartSaved(r)
    PROVE  Accepted(r)
<1>1. right = "active"
  BY DEF StartGeneration
<1>2. RunTrigger(r)
  BY <1>1 DEF StartSaved, RunTrigger, MayMove, Evidenced, Terminal
<1>. QED BY <1>2 DEF StartSaved, Accepted, BlueprintTrigger, EvidenceTrigger, AttemptTrigger

LEMMA LapseAccepted ==
    ASSUME NEW r \in Runs, LapseSaved(r)
    PROVE  Accepted(r)
<1>1. RunTrigger(r)
  BY DEF LapseSaved, RunTrigger, Terminal, Stages
<1>. QED BY <1>1 DEF LapseSaved, Accepted, BlueprintTrigger, EvidenceTrigger, AttemptTrigger

LEMMA EndAccepted ==
    ASSUME NEW r \in Runs, NEW status \in {"failed", "rights_blocked"}, EndSaved(r, status)
    PROVE  Accepted(r)
<1>1. MayMove(run[r].status, run'[r].status)
  BY DEF EndSaved, MayMove, Waiting, Stages
<1>2. RunTrigger(r)
  BY <1>1, WorkerAccepted DEF EndSaved
<1>3. blueprint'[r] = blueprint[r] /\ lessons'[r] = lessons[r] /\ review'[r] = review[r]
  BY DEF EndSaved
<1>4. \A n \in Attempts : AttemptTrigger(r, n)
  BY DEF EndSaved, AttemptTrigger
<1>. QED BY <1>2, <1>3, <1>4 DEF Accepted, BlueprintTrigger, EvidenceTrigger

LEMMA ClaimAccepted ==
    ASSUME IndInv, NEW c \in Calls, NEW r \in Runs, ClaimSaved(c, r)
    PROVE  Accepted(r)
<1>0. /\ run[r].status \in Waiting \cup Stages /\ run'[r].status = NextStage(r)
      /\ run'[r].version \in run[r].version + 1 .. run[r].version + 2
      /\ blueprint'[r] = blueprint[r] /\ lessons'[r] = lessons[r] /\ review'[r] = review[r]
      /\ run[r].attempts + 1 \in Attempts
      /\ \A n \in Attempts :
           n # run[r].attempts + 1 /\ attempt[r][n].outcome # "running" =>
              attempt'[r][n] = attempt[r][n]
  BY Zenon DEF ClaimSaved
<1>1. run'[r].status = run[r].status \/ MayMove(run[r].status, run'[r].status)
  <2>1. run[r].status \in {"queued", "planning"} => NextStage(r) = "planning"
    BY <1>0, TakenRun DEF NextStage
  <2>2. run[r].status \in {"generation_queued", "generating"} => NextStage(r) = "generating"
    BY <1>0, TakenRun DEF NextStage
  <2>3. NextStage(r) \in Stages
    BY <1>0, StageFits
  <2>. QED BY <1>0, <2>1, <2>2, <2>3 DEF MayMove, Waiting, Stages
<1>2. RunTrigger(r)
  BY <1>0, <1>1, WorkerAccepted
<1>3. attempt[r][run[r].attempts + 1].outcome = "none"
  <2>1. run[r].attempts + 1 > run[r].attempts
    <3>1. run[r].attempts \in Nat
      BY Counts
    <3>. QED BY <3>1
  <2>. QED BY <1>0, <2>1, Leased DEF RunLeased, NoAttempt
<1>4. \A n \in Attempts : AttemptTrigger(r, n)
  BY <1>0, <1>3 DEF AttemptTrigger
<1>. QED BY <1>0, <1>2, <1>4 DEF Accepted, BlueprintTrigger, EvidenceTrigger

\* A worker closes the attempt that runs.
LEMMA CloseAccepted ==
    ASSUME IndInv, NEW c \in Calls, NEW r \in Runs, NEW status, NEW outcome,
           CloseSaved(c, r, status, outcome), MayMove(run[r].status, status)
    PROVE  RunTrigger(r) /\ \A n \in Attempts : AttemptTrigger(r, n)
<1>1. /\ run[r].status \in Stages /\ run'[r].status = status
      /\ run'[r].version = run[r].version + 1
      /\ attempt[r][run[r].attempts].outcome = "running"
      /\ \A n \in Attempts : n # run[r].attempts => attempt'[r][n] = attempt[r][n]
  BY Zenon DEF CloseSaved
<1>2. RunTrigger(r)
  BY <1>1, NextVersion, WorkerAccepted
<1>. QED BY <1>1, <1>2 DEF AttemptTrigger

LEMMA WorkAccepted ==
    ASSUME IndInv, NEW c \in Calls, NEW r \in Runs,
           \/ PlanSaved(c, r)
           \/ WriteSaved(c, r)
           \/ \E status \in {"retryable", "failed", "rights_blocked"} : FailSaved(c, r, status)
    PROVE  Accepted(r)
<1>1. CASE PlanSaved(c, r)
  <2>1. /\ CloseSaved(c, r, "blueprint_review", "completed") /\ run[r].status = "planning"
        /\ lessons'[r] = lessons[r]
    BY <1>1, Zenon DEF PlanSaved
  <2>2. review'[r] = review[r]
    BY <2>1, Zenon DEF CloseSaved
  <2>3. blueprint[r].status = "none"
    BY <2>1, TakenRun DEF Stages
  <2>4. RunTrigger(r) /\ \A n \in Attempts : AttemptTrigger(r, n)
    BY <2>1, CloseAccepted DEF MayMove
  <2>. QED BY <2>1, <2>2, <2>3, <2>4 DEF Accepted, BlueprintTrigger, EvidenceTrigger
<1>2. CASE WriteSaved(c, r)
  <2>1. /\ CloseSaved(c, r, "review_ready", "completed") /\ run[r].status = "generating"
        /\ blueprint'[r] = blueprint[r]
    BY <1>2, Zenon DEF WriteSaved
  <2>2. review'[r] = review[r]
    BY <2>1, Zenon DEF CloseSaved
  <2>3. lessons[r] = None
    BY <2>1, TakenRun DEF Stages
  <2>4. RunTrigger(r) /\ \A n \in Attempts : AttemptTrigger(r, n)
    BY <2>1, CloseAccepted DEF MayMove
  <2>. QED BY <2>1, <2>2, <2>3, <2>4 DEF Accepted, BlueprintTrigger, EvidenceTrigger
<1>3. ASSUME NEW status \in {"retryable", "failed", "rights_blocked"}, FailSaved(c, r, status)
      PROVE  Accepted(r)
  <2>1. /\ CloseSaved(c, r, status, status)
        /\ blueprint'[r] = blueprint[r] /\ lessons'[r] = lessons[r]
    BY <1>3, Zenon DEF FailSaved
  <2>2. review'[r] = review[r] /\ run[r].status \in Stages
    BY <2>1, Zenon DEF CloseSaved
  <2>3. MayMove(run[r].status, status)
    BY <2>2 DEF MayMove, Stages
  <2>4. RunTrigger(r) /\ \A n \in Attempts : AttemptTrigger(r, n)
    BY <2>1, <2>3, CloseAccepted
  <2>. QED BY <2>1, <2>2, <2>4 DEF Accepted, BlueprintTrigger, EvidenceTrigger
<1>. QED BY <1>1, <1>2, <1>3

LEMMA DecisionAccepted ==
    ASSUME IndInv, NEW v \in Reviewers, NEW r \in Runs,
           \/ BlueprintDecided(v, r, "approve", "approved", "generation_queued")
           \/ BlueprintDecided(v, r, "reject", "rejected", "rejected")
           \/ RefuseSaved(v, r)
           \/ AcceptSaved(v, r)
    PROVE  Accepted(r)
<1>0. RunReviewed(r) /\ review[r].decision \in {"none", "approve", "reject"}
  BY Leased, RunTypes DEF IndInv
<1>1. ASSUME NEW from \in Review, NEW to, DecisionSaved(v, r, from, to), MayMove(from, to),
             Evidenced(r, from, to)
      PROVE  RunTrigger(r) /\ attempt'[r] = attempt[r] /\ lessons'[r] = lessons[r]
  <2>1. /\ run[r].status = from /\ run'[r].status = to
        /\ run'[r].version = run[r].version + 1
        /\ attempt'[r] = attempt[r] /\ lessons'[r] = lessons[r]
    BY <1>1, Zenon DEF DecisionSaved
  <2>2. from \notin Terminal /\ from # "none"
    BY DEF Review, Terminal
  <2>. QED BY <1>1, <2>1, <2>2, NextVersion DEF RunTrigger
<1>2. ASSUME NEW decision \in {"approve", "reject"}, NEW status \in {"approved", "rejected"},
             NEW to \in {"generation_queued", "rejected"},
             BlueprintDecided(v, r, decision, status, to),
             decision = "approve" <=> to = "generation_queued"
      PROVE  Accepted(r)
  <2>1. /\ DecisionSaved(v, r, "blueprint_review", to)
        /\ blueprint[r].status = "reviewable"
        /\ blueprint'[r] = [status |-> status, plan |-> blueprint[r].plan]
        /\ review'[r] = [decision |-> decision, reviewed |-> blueprint[r].plan,
                         refused |-> review[r].refused, course |-> review[r].course]
    BY <1>2, Zenon DEF BlueprintDecided
  <2>2. review[r].decision = "none" /\ run[r].blueprint = blueprint[r].plan
    BY <1>0, <2>1 DEF RunReviewed
  <2>3. MayMove("blueprint_review", to) /\ Evidenced(r, "blueprint_review", to)
    BY <1>2, <2>1, <2>2 DEF MayMove, Evidenced
  <2>4. RunTrigger(r) /\ attempt'[r] = attempt[r] /\ lessons'[r] = lessons[r]
    BY <1>1, <2>1, <2>3 DEF Review
  <2>5. BlueprintTrigger(r)
    BY <2>1 DEF BlueprintTrigger
  <2>6. EvidenceTrigger(r)
    BY <2>1, <2>2, <2>4 DEF EvidenceTrigger
  <2>. QED BY <2>4, <2>5, <2>6 DEF Accepted, AttemptTrigger
<1>3. ASSUME NEW to \in {"rejected", "canonicalized"}, DecisionSaved(v, r, "review_ready", to),
             blueprint'[r] = blueprint[r], NEW refused, NEW course,
             review'[r] = [decision |-> review[r].decision, reviewed |-> review[r].reviewed,
                           refused |-> refused, course |-> course],
             IF to = "rejected" THEN refused = run[r].output ELSE course = run[r].output
      PROVE  Accepted(r)
  <2>1. run[r].status = "review_ready"
    BY <1>3, Zenon DEF DecisionSaved
  <2>2. review[r].refused = None /\ review[r].course = None
    BY <1>0, <2>1 DEF RunReviewed
  <2>3. MayMove("review_ready", to) /\ Evidenced(r, "review_ready", to)
    BY <1>3 DEF MayMove, Evidenced
  <2>4. RunTrigger(r) /\ attempt'[r] = attempt[r] /\ lessons'[r] = lessons[r]
    BY <1>1, <1>3, <2>3 DEF Review
  <2>5. EvidenceTrigger(r)
    BY <1>3, <2>2, <2>4 DEF EvidenceTrigger
  <2>. QED BY <1>3, <2>4, <2>5 DEF Accepted, AttemptTrigger, BlueprintTrigger
<1>4. CASE RefuseSaved(v, r)
  BY <1>3, <1>4 DEF RefuseSaved
<1>5. CASE AcceptSaved(v, r)
  BY <1>3, <1>5 DEF AcceptSaved
<1>. QED BY <1>2, <1>4, <1>5

LEMMA AcceptStep ==
    ASSUME IndInv, Next
    PROVE  \A r \in Runs : Accepted(r)
<1>1. ASSUME NEW r \in Runs, run'[r] = run[r], attempt'[r] = attempt[r],
             blueprint'[r] = blueprint[r], lessons'[r] = lessons[r], review'[r] = review[r]
      PROVE  Accepted(r)
  BY <1>1 DEF Accepted, RunTrigger, BlueprintTrigger, EvidenceTrigger, AttemptTrigger
<1>2. CASE Quiet
  BY <1>1, <1>2, QuietKeeps
<1>3. ASSUME NEW r \in Runs, Moved(r)
      PROVE  \A q \in Runs : Accepted(q)
  <2>1. RowOnly(r)
    BY <1>3
    DEF Moved, StartSaved, LapseSaved, EndSaved, ClaimSaved, PlanSaved, WriteSaved, FailSaved,
        CloseSaved, BlueprintDecided, RefuseSaved, AcceptSaved, DecisionSaved
  <2>2. \A q \in Runs : q # r => Accepted(q)
    BY <1>1, <2>1 DEF RowOnly
  <2>3. Accepted(r)
    BY <1>3, StartAccepted, LapseAccepted, EndAccepted, ClaimAccepted, WorkAccepted,
       DecisionAccepted DEF Moved
  <2>. QED BY <2>2, <2>3
<1>. QED BY <1>2, <1>3, RowCases

\* No call and no reviewer, however late, makes the database refuse a write: a
\* run's transitions come one by one and with their evidence, and nothing that is
\* settled is written again.
THEOREM TriggersNeverRefuse == Spec => TriggersAccept
<1>1. IndInv /\ [Next]_vars =>
        [\A r \in Runs : /\ RunTrigger(r)
                         /\ BlueprintTrigger(r)
                         /\ EvidenceTrigger(r)
                         /\ \A n \in Attempts : AttemptTrigger(r, n)]_vars
  BY AcceptStep DEF Accepted
<1>. QED BY <1>1, InvariantHolds, PTL DEF Spec, TriggersAccept

-----------------------------------------------------------------------------
(* The work of a run runs out.                                              *)

\* How far a run is from its end within an attempt.
Rank(status) ==
    IF status = "none" THEN 7
    ELSE IF status = "queued" THEN 6
    ELSE IF status \in Stages THEN 5
    ELSE IF status = "blueprint_review" THEN 4
    ELSE IF status = "generation_queued" THEN 3
    ELSE IF status = "review_ready" THEN 2
    ELSE IF status = "retryable" THEN 1
    ELSE 0

\* What a run can still be written: its unspent attempts, each worth more than
\* everything within one, then its place on the way, then its lease.
WorkLeft(r) ==
    16 * (MaxAttempts - run[r].attempts) + 2 * Rank(run[r].status)
        + (IF run[r].live THEN 1 ELSE 0)

\* Whatever calls die, wake late or take over, and however reviewers decide, every
\* write of a run's row uses up some of a budget that MaxAttempts fixes: planning
\* and writing share it, and a run is written finitely often.
WorkRunsOut == [][\A r \in Runs : run'[r] # run[r] => WorkLeft(r)' < WorkLeft(r)]_vars

\* The budget is never overdrawn.
WorkIsBounded == \A r \in Runs : WorkLeft(r) \in 0 .. 16 * MaxAttempts + 14

\* What a row is worth, before and after a step that writes it.
LEMMA WorkOfRows ==
    ASSUME IndInv, Next, NEW r \in Runs
    PROVE  /\ run[r].attempts \in Nat /\ run'[r].attempts \in Nat /\ MaxAttempts \in Nat
           /\ WorkLeft(r) = 16 * (MaxAttempts - run[r].attempts) + 2 * Rank(run[r].status)
                                + (IF run[r].live THEN 1 ELSE 0)
           /\ WorkLeft(r)' = 16 * (MaxAttempts - run'[r].attempts) + 2 * Rank(run'[r].status)
                                + (IF run'[r].live THEN 1 ELSE 0)
<1>1. run[r].attempts \in 0 .. MaxAttempts /\ MaxAttempts \in Nat
  BY RunTypes DEF IndInv
<1>2. TypeOK'
  BY StepHolds DEF IndInv
<1>3. run'[r].attempts \in 0 .. MaxAttempts
  BY <1>2 DEF TypeOK, RunRows
<1>. QED BY <1>1, <1>3 DEF WorkLeft

LEMMA MovedWorks ==
    ASSUME IndInv, Next, NEW r \in Runs, Moved(r)
    PROVE  RowOnly(r) /\ WorkLeft(r)' < WorkLeft(r)
<1>1. ASSUME StartSaved(r)
      PROVE  RowOnly(r) /\ WorkLeft(r)' < WorkLeft(r)
  BY <1>1, WorkOfRows DEF StartSaved, Rank, Stages
<1>2. ASSUME LeaseLapse(r), LapseSaved(r)
      PROVE  RowOnly(r) /\ WorkLeft(r)' < WorkLeft(r)
  <2>1. run[r].live /\ Rank(run[r].status) = 5 /\ Rank(run'[r].status) = 5
    BY <1>2 DEF LeaseLapse, LapseSaved, Rank, Stages
  <2>. QED BY <1>2, <2>1, WorkOfRows DEF LapseSaved
<1>3. ASSUME NEW status \in {"failed", "rights_blocked"}, EndSaved(r, status)
      PROVE  RowOnly(r) /\ WorkLeft(r)' < WorkLeft(r)
  <2>1. Rank(run[r].status) \in 1 .. 6 /\ Rank(run'[r].status) = 0
    BY <1>3 DEF EndSaved, Rank, Waiting, Stages
  <2>. QED BY <1>3, <2>1, WorkOfRows DEF EndSaved
<1>4. ASSUME NEW c \in Calls, ClaimSaved(c, r)
      PROVE  RowOnly(r) /\ WorkLeft(r)' < WorkLeft(r)
  <2>1. run'[r].status \in Stages
    BY <1>4, StageFits, ZenonT(60) DEF ClaimSaved
  <2>2. run[r].status \in Waiting \cup Stages
    BY <1>4, Zenon DEF ClaimSaved
  <2>3. Rank(run[r].status) \in 1 .. 6 /\ Rank(run'[r].status) = 5
    BY <2>1, <2>2 DEF Rank, Waiting, Stages
  <2>4. RowOnly(r) /\ run'[r].attempts = run[r].attempts + 1 /\ run'[r].live
    BY <1>4, Zenon DEF ClaimSaved
  <2>. QED BY <2>3, <2>4, WorkOfRows
<1>5. ASSUME NEW c \in Calls, NEW status, NEW outcome, CloseSaved(c, r, status, outcome),
             status \in {"blueprint_review", "review_ready", "retryable", "failed", "rights_blocked"}
      PROVE  RowOnly(r) /\ WorkLeft(r)' < WorkLeft(r)
  <2>1. Rank(run[r].status) = 5 /\ Rank(run'[r].status) \in 0 .. 4
    BY <1>5 DEF CloseSaved, Rank, Stages
  <2>. QED BY <1>5, <2>1, WorkOfRows DEF CloseSaved
<1>6. ASSUME NEW v \in Reviewers, NEW from, NEW status, DecisionSaved(v, r, from, status),
             \/ from = "blueprint_review" /\ status \in {"generation_queued", "rejected"}
             \/ from = "review_ready" /\ status \in {"rejected", "canonicalized"}
      PROVE  RowOnly(r) /\ WorkLeft(r)' < WorkLeft(r)
  <2>1. /\ Rank(run[r].status) \in 2 .. 4 /\ Rank(run'[r].status) \in 0 .. 3
        /\ Rank(run'[r].status) < Rank(run[r].status)
    BY <1>6 DEF DecisionSaved, Rank, Stages
  <2>. QED BY <1>6, <2>1, WorkOfRows DEF DecisionSaved
<1>. QED BY <1>1, <1>2, <1>3, <1>4, <1>5, <1>6
     DEF Moved, PlanSaved, WriteSaved, FailSaved, BlueprintDecided, RefuseSaved, AcceptSaved

LEMMA WorkStep ==
    ASSUME IndInv, Next
    PROVE  \A r \in Runs : run'[r] # run[r] => WorkLeft(r)' < WorkLeft(r)
<1>1. CASE Quiet
  BY <1>1, QuietKeeps
<1>2. ASSUME NEW r \in Runs, Moved(r)
      PROVE  \A q \in Runs : run'[q] # run[q] => WorkLeft(q)' < WorkLeft(q)
  BY <1>2, MovedWorks DEF RowOnly
<1>. QED BY <1>1, <1>2, RowCases

\* Whatever calls die, hang or come back late, a run's row is written finitely
\* often: every write spends a budget MaxAttempts fixes.
THEOREM RunsRunOut == Spec => WorkRunsOut /\ []WorkIsBounded
<1>1. IndInv => WorkIsBounded
  <2>. HAVE IndInv
  <2>. SUFFICES ASSUME NEW r \in Runs
               PROVE  WorkLeft(r) \in 0 .. 16 * MaxAttempts + 14
    BY DEF WorkIsBounded
  <2>1. run[r].attempts \in 0 .. MaxAttempts /\ MaxAttempts \in Nat
    BY RunTypes DEF IndInv
  <2>2. Rank(run[r].status) \in 0 .. 7
    BY DEF Rank
  <2>3. run[r].live => Rank(run[r].status) = 5
    BY Leased DEF RunLeased, Rank, Stages
  <2>. QED BY <2>1, <2>2, <2>3 DEF WorkLeft
<1>. DEFINE A == \A r \in Runs : run'[r] # run[r] => WorkLeft(r)' < WorkLeft(r)
<1>2. IndInv /\ [Next]_vars => [A]_vars
  BY WorkStep
<1>. HIDE DEF A
<1>3. Spec => [][A]_vars
  BY <1>2, InvariantHolds, PTL DEF Spec
<1>4. Spec => []WorkIsBounded
  BY <1>1, InvariantHolds, PTL
<1>. QED BY <1>3, <1>4 DEF WorkRunsOut, A

-----------------------------------------------------------------------------
(* Generation implements GenerationContract.                                *)

\* The runs as the contract sees them.
StageMap == [r \in Runs |-> StageOf(r)]
PlanMap  == [r \in Runs |-> blueprint[r].plan]

LEMMA ContractInit == Init => Contract!Init
<1>. SUFFICES ASSUME Init PROVE Contract!Init
  OBVIOUS
<1>1. right = "pending" /\ lessons = [r \in Runs |-> None]
  BY DEF Init
<1>2. StageMap = [r \in Runs |-> "none"]
  BY DEF Init, StageMap, StageOf, NoRun
<1>3. PlanMap = [r \in Runs |-> None]
  BY DEF Init, PlanMap, NoBlueprint
<1>. QED BY <1>1, <1>2, <1>3, Zenon DEF Contract!Init, StageMap, PlanMap

\* The contract sees nothing of a step that leaves its variables alone.
LEMMA ContractStutter ==
    ASSUME right' = right, StageMap' = StageMap, PlanMap' = PlanMap, lessons' = lessons
    PROVE  UNCHANGED Contract!vars
  BY Zenon DEF Contract!vars, StageMap, PlanMap

\* One run is seen to change.
LEMMA StageChange ==
    ASSUME NEW r \in Runs, RowOnly(r), NEW to, StageOf(r)' = to
    PROVE  StageMap' = [StageMap EXCEPT ![r] = to]
<1>1. \A q \in Runs : q # r => StageOf(q)' = StageOf(q)
  BY DEF RowOnly, StageOf
<1>. QED BY <1>1 DEF StageMap

LEMMA StageSame ==
    ASSUME NEW r \in Runs, RowOnly(r), StageOf(r)' = StageOf(r)
    PROVE  StageMap' = StageMap
<1>1. \A q \in Runs : StageOf(q)' = StageOf(q)
  BY DEF RowOnly, StageOf
<1>. QED BY <1>1 DEF StageMap

LEMMA PlanSame ==
    ASSUME NEW r \in Runs, RowOnly(r), blueprint'[r].plan = blueprint[r].plan
    PROVE  PlanMap' = PlanMap
  BY DEF RowOnly, PlanMap

LEMMA TextSame ==
    ASSUME TypeOK, RowsTyped, NEW r \in Runs, RowOnly(r), lessons'[r] = lessons[r]
    PROVE  lessons' = lessons
<1>1. \A q \in Runs : lessons'[q] = lessons[q]
  BY DEF RowOnly
<1>. QED BY <1>1 DEF TypeOK, RowsTyped

\* How far a run is that a worker may take, or has in hand.
LEMMA TakenStage ==
    ASSUME IndInv, NEW r \in Runs, run[r].status \in Waiting \cup Stages
    PROVE  /\ NextStage(r) = "planning" => StageOf(r) = "requested"
           /\ NextStage(r) = "generating" => StageOf(r) = "approved"
           /\ NextStage(r) \in {"planning", "generating"}
           /\ run[r].status = "planning" => StageOf(r) = "requested"
           /\ run[r].status = "generating" => StageOf(r) = "approved"
<1>1. /\ blueprint[r].status \in {"none", "approved"}
      /\ run[r].status \in {"generation_queued", "generating"} => blueprint[r].status = "approved"
      /\ run[r].status \in {"queued", "planning"} => blueprint[r].status = "none"
  BY TakenRun
<1>. QED BY <1>1 DEF NextStage, StageOf, Waiting, Stages

\* A run that is under way is so for the contract.
LEMMA OpenStages ==
    ASSUME TypeOK, NEW r \in Runs, run[r].status \notin Open
    PROVE  StageOf(r) \notin {"requested", "planned", "approved", "written"}
<1>1. run[r].status \in {"none"} \cup Terminal
  BY RunTypes
<1>. QED BY <1>1 DEF StageOf, Terminal

\* A step that moves a row leaves the right alone.
LEMMA MovedRight ==
    ASSUME NEW r \in Runs, Moved(r)
    PROVE  right' = right
<1>1. ASSUME NEW c \in Calls,
             ClaimCommit(c) \/ PersistBlueprint(c) \/ PersistLessons(c) \/ FinishFailure(c)
      PROVE  right' = right
  BY <1>1 DEF ClaimCommit, PersistBlueprint, PersistLessons, FinishFailure
<1>2. ASSUME NEW v \in Reviewers,
             ApproveBlueprint(v) \/ RejectBlueprint(v) \/ RejectOutput(v) \/ Canonicalize(v)
      PROVE  right' = right
  BY <1>2 DEF ApproveBlueprint, RejectBlueprint, RejectOutput, Canonicalize
<1>3. CASE \/ StartGeneration(r) \/ LeaseLapse(r)
           \/ \E status \in {"failed", "rights_blocked"} : ClaimEnds(r, status)
  BY <1>3 DEF StartGeneration, LeaseLapse, ClaimEnds
<1>. QED BY <1>1, <1>2, <1>3, Zenon DEF Moved

LEMMA ContractQuiet ==
    ASSUME IndInv, Quiet
    PROVE  Contract!Next \/ UNCHANGED Contract!vars
<1>1. UNCHANGED <<run, blueprint, lessons>>
  BY QuietKeeps
<1>2. StageMap' = StageMap /\ PlanMap' = PlanMap
  BY <1>1 DEF StageMap, PlanMap, StageOf
<1>3. CASE right' = right
  BY <1>1, <1>2, <1>3, ContractStutter
<1>4. CASE GrantRight
  <2>1. right = "pending" /\ right' = "active"
    BY <1>4 DEF GrantRight
  <2>2. Contract!Grant
    BY <1>1, <1>2, <2>1, Zenon DEF Contract!Grant, StageMap, PlanMap
  <2>. QED BY <2>2 DEF Contract!Next
<1>5. CASE EndRight
  <2>1. right' = "ended"
    BY <1>5 DEF EndRight
  <2>2. Contract!End
    BY <1>1, <1>2, <2>1, Zenon DEF Contract!End, StageMap, PlanMap
  <2>. QED BY <2>2 DEF Contract!Next
<1>6. CASE CallMoves
  BY <1>3, <1>6, CallCases
<1>7. CASE \E v \in Reviewers : Reads(v)
  BY <1>3, <1>7 DEF Reads, ReadRun, ReadBlueprint
<1>. QED BY <1>4, <1>5, <1>6, <1>7 DEF Quiet

\* The stages of one run that move alone.
LEMMA ContractMoves ==
    ASSUME TypeOK, RowsTyped, NEW r \in Runs, RowOnly(r), right' = right,
           blueprint'[r].plan = blueprint[r].plan, lessons'[r] = lessons[r],
           \/ StageOf(r) \in {"requested", "approved"} /\ StageOf(r)' = "failed"
           \/ StageOf(r) \in {"requested", "approved"} /\ StageOf(r)' = "blocked" /\ right = "ended"
           \/ StageOf(r) = "planned" /\ StageOf(r)' = "approved"
           \/ StageOf(r) \in {"planned", "written"} /\ StageOf(r)' = "declined"
           \/ StageOf(r) = "written" /\ StageOf(r)' = "accepted" /\ right = "active"
    PROVE  Contract!Next
<1>0. PlanMap' = PlanMap /\ lessons' = lessons /\ StageMap[r] = StageOf(r)
  BY PlanSame, TextSame DEF StageMap
<1>1. CASE StageMap[r] \in {"requested", "approved"} /\ StageOf(r)' = "failed"
  <2>1. StageMap' = [StageMap EXCEPT ![r] = "failed"]
    BY <1>1, StageChange
  <2>2. Contract!Fail(r)
    BY <1>0, <1>1, <2>1, Zenon DEF Contract!Fail, Contract!Moves, StageMap, PlanMap
  <2>. QED BY <2>2 DEF Contract!Next
<1>2. CASE StageMap[r] \in {"requested", "approved"} /\ StageOf(r)' = "blocked" /\ right = "ended"
  <2>1. StageMap' = [StageMap EXCEPT ![r] = "blocked"]
    BY <1>2, StageChange
  <2>2. Contract!Block(r)
    BY <1>0, <1>2, <2>1, Zenon DEF Contract!Block, Contract!Moves, StageMap, PlanMap
  <2>. QED BY <2>2 DEF Contract!Next
<1>3. CASE StageMap[r] \in {"planned"} /\ StageOf(r)' = "approved"
  <2>1. StageMap' = [StageMap EXCEPT ![r] = "approved"]
    BY <1>3, StageChange
  <2>2. Contract!Approve(r)
    BY <1>0, <1>3, <2>1, Zenon DEF Contract!Approve, Contract!Moves, StageMap, PlanMap
  <2>. QED BY <2>2 DEF Contract!Next
<1>4. CASE StageMap[r] \in {"planned", "written"} /\ StageOf(r)' = "declined"
  <2>1. StageMap' = [StageMap EXCEPT ![r] = "declined"]
    BY <1>4, StageChange
  <2>2. Contract!Decline(r)
    BY <1>0, <1>4, <2>1, Zenon DEF Contract!Decline, Contract!Moves, StageMap, PlanMap
  <2>. QED BY <2>2 DEF Contract!Next
<1>5. CASE StageMap[r] \in {"written"} /\ StageOf(r)' = "accepted" /\ right = "active"
  <2>1. StageMap' = [StageMap EXCEPT ![r] = "accepted"]
    BY <1>5, StageChange
  <2>2. Contract!Accept(r)
    BY <1>0, <1>5, <2>1, Zenon DEF Contract!Accept, Contract!Moves, StageMap, PlanMap
  <2>. QED BY <2>2 DEF Contract!Next
<1>. QED BY <1>0, <1>1, <1>2, <1>3, <1>4, <1>5

\* A step the contract does not see.
LEMMA ContractSame ==
    ASSUME TypeOK, RowsTyped, NEW r \in Runs, RowOnly(r), right' = right,
           blueprint'[r].plan = blueprint[r].plan, lessons'[r] = lessons[r],
           StageOf(r)' = StageOf(r)
    PROVE  UNCHANGED Contract!vars
  BY PlanSame, TextSame, StageSame, ContractStutter

LEMMA ContractRequests ==
    ASSUME IndInv, RowsTyped, NEW r \in Runs, StartGeneration(r), StartSaved(r)
    PROVE  Contract!Next
<1>1. /\ RowOnly(r) /\ run[r].status = "none" /\ run'[r].status = "queued"
      /\ blueprint'[r] = blueprint[r] /\ lessons'[r] = lessons[r]
  BY Zenon DEF StartSaved
<1>2. right = "active" /\ right' = right
  BY DEF StartGeneration
<1>3. \A q \in Runs : StageMap[q] \notin {"requested", "planned", "approved", "written"}
  BY OpenStages DEF StartGeneration, StageMap, IndInv
<1>4. StageMap[r] \in {"none"} /\ StageOf(r)' = "requested"
  BY <1>1 DEF StageOf, StageMap
<1>5. /\ StageMap' = [StageMap EXCEPT ![r] = "requested"]
      /\ PlanMap' = PlanMap /\ lessons' = lessons
  BY <1>1, <1>4, StageChange, PlanSame, TextSame DEF IndInv
<1>6. Contract!Request(r)
  BY <1>2, <1>3, <1>4, <1>5, Zenon
  DEF Contract!Request, Contract!Moves, Contract!Underway, StageMap, PlanMap
<1>. QED BY <1>6 DEF Contract!Next

LEMMA ContractPlans ==
    ASSUME IndInv, RowsTyped, NEW c \in Calls, NEW r \in Runs, PlanSaved(c, r), right' = right
    PROVE  Contract!Next
<1>0. PICK p \in Plans : p = call[c].plan
  BY Zenon DEF PlanSaved
<1>1. /\ CloseSaved(c, r, "blueprint_review", "completed") /\ run[r].status = "planning"
      /\ lessons'[r] = lessons[r]
      /\ blueprint'[r] = [status |-> "reviewable", plan |-> p]
  BY <1>0, Zenon DEF PlanSaved
<1>2. RowOnly(r) /\ run'[r].status = "blueprint_review"
  BY <1>1, Zenon DEF CloseSaved
<1>3. StageMap[r] \in {"requested"} /\ StageOf(r)' = "planned"
  BY <1>1, <1>2, TakenStage DEF StageMap, StageOf, Stages
<1>4. StageMap' = [StageMap EXCEPT ![r] = "planned"] /\ lessons' = lessons
  BY <1>1, <1>2, <1>3, StageChange, TextSame DEF IndInv
<1>5. PlanMap' = [PlanMap EXCEPT ![r] = p]
  <2>1. blueprint'[r].plan = p /\ \A q \in Runs : q # r => blueprint'[q] = blueprint[q]
    BY <1>1, <1>2 DEF RowOnly
  <2>. QED BY <2>1 DEF PlanMap
<1>6. Contract!Plan(r, p)
  BY <1>3, <1>4, <1>5, Zenon DEF Contract!Plan, Contract!Moves, StageMap, PlanMap
<1>. QED BY <1>6 DEF Contract!Next

LEMMA ContractWrites ==
    ASSUME IndInv, RowsTyped, NEW c \in Calls, NEW r \in Runs, WriteSaved(c, r), right' = right
    PROVE  Contract!Next
<1>0. PICK t \in Outputs : t = call[c].output
  BY Zenon DEF WriteSaved
<1>1. /\ CloseSaved(c, r, "review_ready", "completed") /\ run[r].status = "generating"
      /\ blueprint'[r] = blueprint[r]
      /\ lessons'[r] = [plan |-> blueprint[r].plan, content |-> t]
  BY <1>0, Zenon DEF WriteSaved
<1>2. RowOnly(r) /\ run'[r].status = "review_ready"
  BY <1>1, Zenon DEF CloseSaved
<1>3. StageMap[r] \in {"approved"} /\ StageOf(r)' = "written"
  BY <1>1, <1>2, TakenStage DEF StageMap, StageOf, Stages
<1>4. StageMap' = [StageMap EXCEPT ![r] = "written"] /\ PlanMap' = PlanMap
  BY <1>1, <1>2, <1>3, StageChange, PlanSame
<1>5. lessons' = [lessons EXCEPT ![r] = [plan |-> PlanMap[r], content |-> t]]
  <2>. DEFINE row == [plan |-> PlanMap[r], content |-> t]
  <2>1. lessons'[r] = row
    BY <1>1 DEF PlanMap
  <2>. HIDE DEF row
  <2>2. \A q \in Runs : q # r => lessons'[q] = lessons[q]
    BY <1>2 DEF RowOnly
  <2>3. lessons \in [Runs -> LessonRows] /\ lessons' \in [Runs -> LessonRows]
    BY DEF IndInv, TypeOK, RowsTyped
  <2>4. lessons' = [lessons EXCEPT ![r] = row]
    BY <2>1, <2>2, <2>3
  <2>. QED BY <2>4 DEF row
<1>6. Contract!Write(r, t)
  BY <1>3, <1>4, <1>5, Zenon DEF Contract!Write, Contract!Moves, StageMap, PlanMap
<1>. QED BY <1>6 DEF Contract!Next

\* A worker's save that ends a run, or puts it back in the queue.
LEMMA ContractEnds ==
    ASSUME IndInv, RowsTyped, NEW r \in Runs, RowOnly(r), right' = right,
           run[r].status \in Waiting \cup Stages, blueprint'[r] = blueprint[r],
           lessons'[r] = lessons[r],
           \/ run'[r].status = "failed"
           \/ run'[r].status = "rights_blocked" /\ right = "ended"
    PROVE  Contract!Next
<1>1. StageOf(r) \in {"requested", "approved"}
  BY TakenStage
<1>2. \/ StageOf(r)' = "failed"
      \/ StageOf(r)' = "blocked" /\ right = "ended"
  BY DEF StageOf
<1>. QED BY <1>1, <1>2, ContractMoves DEF IndInv

LEMMA ContractWorker ==
    ASSUME IndInv, RowsTyped, NEW r \in Runs, right' = right,
           \/ LapseSaved(r)
           \/ \E status \in {"failed", "rights_blocked"} : ClaimEnds(r, status) /\ EndSaved(r, status)
           \/ \E c \in Calls :
                 \/ ClaimSaved(c, r)
                 \/ PlanSaved(c, r)
                 \/ WriteSaved(c, r)
                 \/ \E status \in {"retryable", "failed", "rights_blocked"} : FailSaved(c, r, status)
    PROVE  Contract!Next \/ UNCHANGED Contract!vars
<1>0. TypeOK
  BY DEF IndInv
<1>1. CASE LapseSaved(r)
  <2>1. /\ RowOnly(r) /\ run'[r].status = run[r].status
        /\ blueprint'[r] = blueprint[r] /\ lessons'[r] = lessons[r]
    BY <1>1, Zenon DEF LapseSaved
  <2>2. StageOf(r)' = StageOf(r)
    BY <2>1 DEF StageOf
  <2>. QED BY <1>0, <2>1, <2>2, ContractSame
<1>2. ASSUME NEW status \in {"failed", "rights_blocked"}, ClaimEnds(r, status), EndSaved(r, status)
      PROVE  Contract!Next
  <2>1. /\ RowOnly(r) /\ run[r].status \in Waiting \cup Stages /\ run'[r].status = status
        /\ blueprint'[r] = blueprint[r] /\ lessons'[r] = lessons[r]
    BY <1>2, Zenon DEF EndSaved
  <2>2. status = "rights_blocked" => right = "ended"
    <3>1. right # "pending" /\ right \in {"pending", "active", "ended"}
      BY <1>0, <2>1 DEF Waiting, Stages, IndInv, BlockedForGood, TypeOK
    <3>. QED BY <1>2, <3>1 DEF ClaimEnds
  <2>. QED BY <2>1, <2>2, ContractEnds
<1>3. ASSUME NEW c \in Calls, ClaimSaved(c, r)
      PROVE  UNCHANGED Contract!vars
  <2>1. /\ RowOnly(r) /\ run[r].status \in Waiting \cup Stages /\ run'[r].status = NextStage(r)
        /\ blueprint'[r] = blueprint[r] /\ lessons'[r] = lessons[r]
    BY <1>3, Zenon DEF ClaimSaved
  <2>2. StageOf(r)' = StageOf(r)
    BY <2>1, TakenStage DEF StageOf
  <2>. QED BY <1>0, <2>1, <2>2, ContractSame
<1>4. ASSUME NEW c \in Calls, NEW status \in {"retryable", "failed", "rights_blocked"},
             FailSaved(c, r, status)
      PROVE  Contract!Next \/ UNCHANGED Contract!vars
  <2>1. /\ CloseSaved(c, r, status, status) /\ (status = "rights_blocked" => right = "ended")
        /\ blueprint'[r] = blueprint[r] /\ lessons'[r] = lessons[r]
    BY <1>4, Zenon DEF FailSaved
  <2>2. RowOnly(r) /\ run[r].status \in Stages /\ run'[r].status = status
    BY <2>1, Zenon DEF CloseSaved
  <2>3. CASE status = "retryable"
    <3>1. StageOf(r)' = StageOf(r)
      BY <2>1, <2>2, <2>3, TakenRun DEF StageOf, Stages
    <3>. QED BY <1>0, <2>1, <2>2, <3>1, ContractSame
  <2>4. CASE status # "retryable"
    BY <2>1, <2>2, <2>4, ContractEnds
  <2>. QED BY <2>3, <2>4
<1>. QED BY <1>1, <1>2, <1>3, <1>4, ContractPlans, ContractWrites

LEMMA ContractDecides ==
    ASSUME IndInv, RowsTyped, NEW v \in Reviewers, NEW r \in Runs, right' = right,
           \/ BlueprintDecided(v, r, "approve", "approved", "generation_queued")
           \/ BlueprintDecided(v, r, "reject", "rejected", "rejected")
           \/ RefuseSaved(v, r)
           \/ AcceptSaved(v, r)
    PROVE  Contract!Next
<1>0. TypeOK
  BY DEF IndInv
<1>1. ASSUME NEW from, NEW to, DecisionSaved(v, r, from, to)
      PROVE  /\ RowOnly(r) /\ lessons'[r] = lessons[r]
             /\ run[r].status = from /\ run'[r].status = to
  BY <1>1, Zenon DEF DecisionSaved
<1>2. ASSUME NEW decision, NEW status, NEW to \in {"generation_queued", "rejected"},
             BlueprintDecided(v, r, decision, status, to)
      PROVE  Contract!Next
  <2>1. /\ DecisionSaved(v, r, "blueprint_review", to)
        /\ blueprint'[r] = [status |-> status, plan |-> blueprint[r].plan]
    BY <1>2, Zenon DEF BlueprintDecided
  <2>2. /\ StageOf(r) = "planned"
        /\ StageOf(r)' = IF to = "rejected" THEN "declined" ELSE "approved"
    BY <1>1, <2>1 DEF StageOf
  <2>3. blueprint'[r].plan = blueprint[r].plan
    BY <2>1
  <2>4. RowOnly(r) /\ lessons'[r] = lessons[r]
    BY <1>1, <2>1
  <2>. QED BY <1>0, <2>2, <2>3, <2>4, ContractMoves
<1>3. CASE RefuseSaved(v, r)
  <2>1. DecisionSaved(v, r, "review_ready", "rejected") /\ blueprint'[r] = blueprint[r]
    BY <1>3, Zenon DEF RefuseSaved
  <2>2. StageOf(r) = "written" /\ StageOf(r)' = "declined"
    BY <1>1, <2>1 DEF StageOf
  <2>. QED BY <1>0, <1>1, <2>1, <2>2, ContractMoves
<1>4. CASE AcceptSaved(v, r)
  <2>1. /\ DecisionSaved(v, r, "review_ready", "canonicalized") /\ blueprint'[r] = blueprint[r]
        /\ right = "active"
    BY <1>4, Zenon DEF AcceptSaved
  <2>2. StageOf(r) = "written" /\ StageOf(r)' = "accepted"
    BY <1>1, <2>1 DEF StageOf
  <2>. QED BY <1>0, <1>1, <2>1, <2>2, ContractMoves
<1>. QED BY <1>2, <1>3, <1>4

LEMMA ContractStep ==
    ASSUME IndInv, Next
    PROVE  Contract!Next \/ UNCHANGED Contract!vars
<1>1. ASSUME NEW r \in Runs, Moved(r), RowsTyped
      PROVE  Contract!Next \/ UNCHANGED Contract!vars
  <2>1. right' = right
    BY <1>1, MovedRight
  <2>. QED BY <1>1, <2>1, ContractRequests, ContractWorker, ContractDecides DEF Moved
<1>. QED BY <1>1, ContractQuiet, RowCases

\* Generation implements GenerationContract: a run is planned, approved, written
\* and accepted in this order, each once, what is accepted was written for the
\* plan that was approved, and both under rights in force.
THEOREM GenerationImplementsContract == Spec => ImplementsContract
<1>1. IndInv /\ [Next]_vars => [Contract!Next]_Contract!vars
  <2>1. ASSUME UNCHANGED vars PROVE UNCHANGED Contract!vars
    <3>1. right' = right /\ lessons' = lessons
      BY <2>1 DEF vars, rows
    <3>2. StageMap' = StageMap /\ PlanMap' = PlanMap
      BY <2>1 DEF vars, rows, StageMap, PlanMap, StageOf
    <3>. QED BY <3>1, <3>2, ContractStutter
  <2>. QED BY <2>1, ContractStep
<1>. QED BY <1>1, ContractInit, InvariantHolds, PTL DEF Spec, ImplementsContract, Contract!Spec

=============================================================================
