------------------------------ MODULE Learning ------------------------------
(***************************************************************************)
(* Enrollments in one published course and the progress learners make      *)
(* (learning/services.py, learning/repositories.py), composed with the     *)
(* memberships of the tenant and with the course, of which a learner sees  *)
(* what PublicationContract promises.                                      *)
(*                                                                         *)
(* An enrollment holds its membership's row while it waits for the         *)
(* course's; a progress command shares the membership's row and holds the  *)
(* enrollment's while it reads and writes progress.  Every other           *)
(* transaction is one step.  Requests that are refused leave nothing       *)
(* behind.                                                                 *)
(***************************************************************************)
EXTENDS Memberships

CONSTANTS
    Versions,       \* versions of the course
    Contents,       \* what a version may say
    Lessons,        \* lessons a content may have
    LessonsOf,      \* the lessons of each content
    RequiredOf,     \* the required ones among them
    Learner,        \* the role an enrollment asks for
    Enrollments,    \* enrollment ids
    Requests,       \* enrollment and progress requests in progress
    MaxProgress     \* bound: progress row_version up to which a learner goes on

ASSUME LearnerAssumption == Learner \in Roles
ASSUME LessonsAssumption ==
    /\ IsFiniteSet(Lessons)
    /\ None \notin Versions \cup Contents \cup Lessons
    /\ LessonsOf \in [Contents -> SUBSET Lessons]
    /\ RequiredOf \in [Contents -> (SUBSET Lessons) \ {{}}]
    /\ \A k \in Contents : RequiredOf[k] \subseteq LessonsOf[k]
ASSUME ProgressAssumption == MaxProgress \in Nat

VARIABLES
    says, public, shown,    \* the course, as PublicationContract has it
    enrollment,     \* the Enrollment rows
    progress,       \* the CourseProgress row of each enrollment
    lesson,         \* the LessonProgress rows of each enrollment
    told,           \* the course.completed.v1 and course.reopened.v1 facts of each
    request         \* the transactions in progress

Course == INSTANCE PublicationContract

course   == <<says, public, shown>>
learning == <<enrollment, progress, lesson, told>>
vars     == <<membershipVars, course, learning, request>>

-----------------------------------------------------------------------------
LessonStates == {"not_started", "in_progress", "completed"}
Commands     == {"open", "complete", "reopen"}

EnrollmentRows ==
    [status  : {"none", "active", "revoked"},
     member  : Members \cup {None},
     version : Versions \cup {None},            \* course_version_id
     row     : 0 .. 2]

\* No row: not_started.
ProgressRows ==
    [state    : {"not_started", "in_progress", "completed"},
     required : 0 .. Cardinality(Lessons),      \* required_lesson_count
     done     : 0 .. Cardinality(Lessons),      \* completed_required_lesson_count
     resume   : Lessons \cup {None},            \* resume_lesson_id
     row      : Nat]

\* enroll: the membership is held; asked: nothing is; write: membership and
\* enrollment are.
RequestStates ==
    [pc         : {"idle", "enroll", "asked", "write"},
     member     : Members \cup {None},
     enrollment : Enrollments \cup {None},
     row        : Nat]                          \* expected_progress_row_version

NoEnrollment == [status |-> "none", member |-> None, version |-> None, row |-> 0]
NoProgress   == [state |-> "not_started", required |-> 0, done |-> 0, resume |-> None, row |-> 0]
Idle         == [pc |-> "idle", member |-> None, enrollment |-> None, row |-> 0]

TypeOK ==
    /\ MembershipTypeOK
    /\ says \in [Versions -> Contents \cup {None}]
    /\ public \subseteq Versions
    /\ shown \in Versions \cup {None}
    /\ enrollment \in [Enrollments -> EnrollmentRows]
    /\ progress \in [Enrollments -> ProgressRows]
    /\ lesson \in [Enrollments -> [Lessons -> LessonStates]]
    /\ told \in [Enrollments -> {"nothing", "completed", "reopened"}]
    /\ request \in [Requests -> RequestStates]

Init ==
    /\ MembershipInit
    /\ Course!Init
    /\ enrollment = [e \in Enrollments |-> NoEnrollment]
    /\ progress = [e \in Enrollments |-> NoProgress]
    /\ lesson = [e \in Enrollments |-> [l \in Lessons |-> "not_started"]]
    /\ told = [e \in Enrollments |-> "nothing"]
    /\ request = [q \in Requests |-> Idle]

Goes(q, state) == request' = [request EXCEPT ![q] = state]
Ends(q) == Goes(q, Idle)

-----------------------------------------------------------------------------
(* Memberships and the course move on                                       *)

\* A request in progress holds the membership's row; an enrollment holds it alone.
Holds(q, m)       == request[q].pc \in {"enroll", "write"} /\ request[q].member = m
HoldsAlone(q, m)  == request[q].pc = "enroll" /\ request[q].member = m

MembershipStep ==
    /\ \E m \in Members :
          \/ Moves(m)
          \/ (\A q \in Requests : ~Holds(q, m)) /\ Locks(m)
    /\ UNCHANGED <<course, learning, request>>

CourseStep ==
    /\ \E v \in Versions :
          (\E k \in Contents : Course!Publish(v, k)) \/ Course!Withdraw(v)
    /\ UNCHANGED <<membershipVars, learning, request>>

-----------------------------------------------------------------------------
(* create_enrollment and revoke_enrollment                                  *)

\* The membership is active, has the learner role, and is locked.
LockLearner(q, m) ==
    /\ request[q].pc = "idle"
    /\ RowFree(m)
    /\ \A p \in Requests : ~Holds(p, m)
    /\ member[m].status = "active"
    /\ \E r \in roles[m] : r.role = Learner
    /\ Goes(q, [Idle EXCEPT !.pc = "enroll", !.member = m])
    /\ UNCHANGED <<membershipVars, course, learning>>

\* The member's active enrollment, of which uq_enrollments_active_learner_course
\* lets there be one.
Enrolled(m) == \E e \in Enrollments : enrollment[e].status = "active" /\ enrollment[e].member = m

\* lock_current_published: the course is locked to the commit.
Enroll(q) ==
    LET m == request[q].member IN
    /\ request[q].pc = "enroll"
    /\ shown # None
    /\ ~Enrolled(m)
    /\ \E e \in Enrollments :
          /\ enrollment[e].status = "none"
          /\ enrollment' = [enrollment EXCEPT ![e] =
                [status |-> "active", member |-> m, version |-> shown, row |-> 1]]
    /\ Ends(q)
    /\ UNCHANGED <<membershipVars, course, progress, lesson, told>>

EnrollmentRefused(q) ==
    /\ request[q].pc = "enroll"
    /\ shown = None \/ Enrolled(request[q].member)
    /\ Ends(q)
    /\ UNCHANGED <<membershipVars, course, learning>>

\* Mutant: a progress command does not lock its enrollment.
EnrollmentFreeAlways(e) == TRUE

\* No progress command holds the enrollment's row.
EnrollmentFree(e) ==
    \A q \in Requests : ~(request[q].pc = "write" /\ request[q].enrollment = e)

Revoked(row) == [row EXCEPT !.status = "revoked", !.row = @ + 1]

Revoke(e) ==
    /\ EnrollmentFree(e)
    /\ enrollment[e].status = "active"
    /\ enrollment' = [enrollment EXCEPT ![e] = Revoked(@)]
    /\ UNCHANGED <<membershipVars, course, progress, lesson, told, request>>

-----------------------------------------------------------------------------
(* progress                                                                 *)

LessonsIn(e)  == LessonsOf[says[enrollment[e].version]]
RequiredIn(e) == RequiredOf[says[enrollment[e].version]]

\* What a learner is shown: active members and enrollments, published versions.
Playable(e) ==
    /\ enrollment[e].status = "active"
    /\ member[enrollment[e].member].status = "active"
    /\ enrollment[e].version \in public

\* The learner sees the enrollment's playback, and its row_version, on one device, and
\* sends a command for one of its lessons.
AskProgress(q, e) ==
    /\ request[q].pc = "idle"
    /\ Playable(e)
    /\ progress[e].row < MaxProgress
    /\ Goes(q, [Idle EXCEPT !.pc = "asked", !.member = enrollment[e].member,
                            !.enrollment = e, !.row = progress[e].row])
    /\ UNCHANGED <<membershipVars, course, learning>>

\* The rows a progress command takes are free.
Grantable(q) ==
    /\ request[q].pc = "asked"
    /\ RowFree(request[q].member)
    /\ \A p \in Requests : ~HoldsAlone(p, request[q].member)
    /\ EnrollmentFree(request[q].enrollment)

\* _active_enrollment
LockEnrollment(q) ==
    /\ Grantable(q)
    /\ Playable(request[q].enrollment)
    /\ Goes(q, [request[q] EXCEPT !.pc = "write"])
    /\ UNCHANGED <<membershipVars, course, learning>>

EnrollmentUnavailable(q) ==
    /\ Grantable(q)
    /\ ~Playable(request[q].enrollment)
    /\ Ends(q)
    /\ UNCHANGED <<membershipVars, course, learning>>

\* _next_lesson_state
NextLesson(command, state) ==
    CASE command = "open"     -> IF state = "not_started" THEN "in_progress" ELSE state
      [] command = "complete" -> "completed"
      [] command = "reopen"   -> "in_progress"

\* The version has the lesson, the row is the one the learner saw, and only a completed
\* lesson is reopened.
Allowed(q, l, command) ==
    LET e == request[q].enrollment IN
    /\ l \in LessonsIn(e)
    /\ progress[e].row = request[q].row
    /\ command = "reopen" => lesson[e][l] = "completed"

\* Mutant: optional lessons are counted too.
CompletedAll(e, states) == {l \in LessonsIn(e) : states[l] = "completed"}

CompletedRequired(e, states) == {l \in RequiredIn(e) : states[l] = "completed"}

\* _progress_facts: the last of the facts that are appended as the course's state turns
\* to or from completed.
Fact(last, before, after) ==
    IF after = "completed" /\ before # "completed" THEN "completed"
    ELSE IF after # "completed" /\ before = "completed" THEN "reopened"
    ELSE last

SaveProgress(q, l, command) ==
    LET e      == request[q].enrollment
        states == [lesson[e] EXCEPT ![l] = NextLesson(command, @)]
        done   == Cardinality(CompletedRequired(e, states))
        state  == IF done = Cardinality(RequiredIn(e)) THEN "completed" ELSE "in_progress"
    IN
    /\ request[q].pc = "write"
    /\ Allowed(q, l, command)
    /\ lesson' = [lesson EXCEPT ![e] = states]
    /\ progress' = [progress EXCEPT ![e] =
          [state |-> state, required |-> Cardinality(RequiredIn(e)), done |-> done,
           resume |-> l, row |-> @.row + 1]]
    /\ told' = [told EXCEPT ![e] = Fact(@, progress[e].state, state)]
    /\ Ends(q)
    /\ UNCHANGED <<membershipVars, course, enrollment>>

\* Another device was faster, or the lesson is not one to reopen.
ProgressRefused(q, l, command) ==
    /\ request[q].pc = "write"
    /\ ~Allowed(q, l, command)
    /\ Ends(q)
    /\ UNCHANGED <<membershipVars, course, learning>>

\* The transaction is rolled back: its process dies, or the version it writes for was
\* withdrawn (has_active_learning_enrollment).
Rollback(q) ==
    /\ request[q].pc # "idle"
    /\ Ends(q)
    /\ UNCHANGED <<membershipVars, course, learning>>

-----------------------------------------------------------------------------
RequestStep(q) ==
    \/ \E m \in Members : LockLearner(q, m)
    \/ Enroll(q)
    \/ EnrollmentRefused(q)
    \/ \E e \in Enrollments : AskProgress(q, e)
    \/ LockEnrollment(q)
    \/ EnrollmentUnavailable(q)
    \/ \E l \in Lessons, command \in Commands :
          SaveProgress(q, l, command) \/ ProgressRefused(q, l, command)
    \/ Rollback(q)

Next ==
    \/ MembershipStep
    \/ CourseStep
    \/ \E e \in Enrollments : Revoke(e)
    \/ \E q \in Requests : RequestStep(q)

Spec == Init /\ [][Next]_vars

-----------------------------------------------------------------------------
(* What must always hold                                                    *)

\* ProgressTells: the aggregate of an enrollment is what its lesson rows add up to,
\* against the required lessons of the version it is pinned to, whatever the course
\* shows by now; it is completed exactly when all of them are, and the last completed
\* or reopened fact says so; learners' devices do not lose each other's lessons.
ProgressTells ==
    \A e \in Enrollments :
        LET row == progress[e]
            done == {l \in RequiredIn(e) : lesson[e][l] = "completed"}
        IN
        IF row.row = 0
        THEN row = NoProgress /\ told[e] = "nothing"
                /\ \A l \in Lessons : lesson[e][l] = "not_started"
        ELSE /\ row.required = Cardinality(RequiredIn(e))
             /\ row.done = Cardinality(done)
             /\ row.state = IF done = RequiredIn(e) THEN "completed" ELSE "in_progress"
             /\ row.state = "completed" <=> told[e] = "completed"
             /\ lesson[e][row.resume] # "not_started"

\* An enrollment is made for an active member, in the version the course shows.
MadeInForce(e) ==
    enrollment[e].status = "none" /\ enrollment'[e].status # "none" =>
        /\ member[enrollment'[e].member].status = "active"
        /\ enrollment'[e].version = shown
        /\ shown \in public
        /\ ~Enrolled(enrollment'[e].member)

\* The row triggers: an enrollment is only ever revoked, once, and stays pinned; the
\* aggregate keeps the number of required lessons it was first given; nothing returns
\* to not_started; and every save counts.  (row 0: there is no row yet.)
EnrollmentTrigger(e) ==
    LET old == enrollment[e]
        new == enrollment'[e]
    IN  old.status # "none" /\ new # old =>
            /\ old.status = "active" /\ new.status = "revoked"
            /\ new.member = old.member /\ new.version = old.version
            /\ new.row = old.row + 1

CourseProgressTrigger(e) ==
    LET old == progress[e]
        new == progress'[e]
    IN  old.row # 0 /\ new # old =>
            /\ new.required = old.required
            /\ new.state = "not_started" => old.state = "not_started"
            /\ new.row = old.row + 1

LessonProgressTrigger(e, l) == lesson'[e][l] = "not_started" => lesson[e][l] = "not_started"

\* ActsInForce: an enrollment is made for a member still active, in the version the
\* course still shows as it commits; progress is made by an active member in an active
\* enrollment, although both may end, and the course may change, after they were read;
\* and no write is one the row triggers refuse.
ActsInForce ==
    [][\A e \in Enrollments :
          /\ MadeInForce(e)
          /\ EnrollmentTrigger(e)
          /\ CourseProgressTrigger(e)
          /\ \A l \in Lessons : LessonProgressTrigger(e, l)
          /\ <<progress[e], lesson[e], told[e]>>' # <<progress[e], lesson[e], told[e]>> =>
                /\ enrollment[e].status = "active"
                /\ member[enrollment[e].member].status = "active"]_vars

=============================================================================
