--------------------------- MODULE LearningProofs ---------------------------
(***************************************************************************)
(* Proofs about Learning, and the memberships it is composed with, for any *)
(* sets of members, invitations, updates, roles, versions, contents,       *)
(* lessons, enrollments and requests: what the lesson rows add up to is    *)
(* what the learner is told, learners act only while they may, and an      *)
(* invitation gives its roles once.                                        *)
(***************************************************************************)
EXTENDS Learning, MembershipProofs, FiniteSetTheorems

-----------------------------------------------------------------------------
(* The inductive invariant.                                                 *)

\* A request that holds a membership found it active, and no change writes it; one
\* that holds an enrollment found it active.
RequestHolds(q) ==
    LET e == request[q].enrollment
        m == request[q].member
    IN
    /\ request[q].pc \in {"enroll", "write"} =>
          m \in Members /\ member[m].status = "active" /\ RowFree(m)
    /\ request[q].pc \in {"asked", "write"} =>
          e \in Enrollments /\ enrollment[e].status # "none" /\ m = enrollment[e].member
    /\ request[q].pc = "write" => enrollment[e].status = "active"

\* An enrollment is pinned to a version that says something; without one there is no
\* progress.
Pinned(e) ==
    /\ enrollment[e].status # "none" =>
          /\ enrollment[e].member \in Members
          /\ enrollment[e].version \in Versions
          /\ says[enrollment[e].version] # None
    /\ enrollment[e].status = "active" => enrollment[e].row = 1
    /\ enrollment[e].status = "none" => progress[e].row = 0

\* Published versions say something, and the course shows one of them.
Published ==
    /\ \A v \in public : says[v] # None
    /\ shown # None => shown \in public

\* What ProgressTells says of one enrollment.
Tells(e) ==
    LET row == progress[e]
        done == {l \in RequiredIn(e) : lesson[e][l] = "completed"}
    IN
    IF row.row = 0
    THEN row = NoProgress /\ told[e] = "nothing"
            /\ \A l \in Lessons : lesson[e][l] = "not_started"
    ELSE /\ row.required = Cardinality(RequiredIn(e))
         /\ row.done = Cardinality(done)
         /\ row.state = IF done = RequiredIn(e) THEN "completed" ELSE "in_progress"
         /\ row.state = "completed" <=> told[e] = "completed"
         /\ lesson[e][row.resume] # "not_started"

IndInv ==
    /\ TypeOK
    /\ MembershipInv
    /\ \A q \in Requests : RequestHolds(q)
    /\ \A e \in Enrollments : Pinned(e) /\ Tells(e)
    /\ Published

-----------------------------------------------------------------------------
(* Memberships.                                                             *)

\* What a membership's step leaves standing: a membership that a request holds stays
\* active, and no change gets to write it.
MembershipKept ==
    /\ MembershipTypeOK' /\ MembershipInv'
    /\ \A m \in Members :
          (\E q \in Requests : Holds(q, m)) => member'[m].status = "active" /\ RowFree(m)'

\* A held membership: who it is, and that no change in progress writes it.
LEMMA HeldMember ==
    ASSUME IndInv, NEW m, NEW q \in Requests, Holds(q, m)
    PROVE  m \in Members /\ member[m].status = "active" /\ RowFree(m)
  BY DEF IndInv, RequestHolds, Holds

\* A step of the memberships; a change that takes a row's lock finds it held by no
\* request.
LEMMA MembershipStepCases ==
    ASSUME IndInv, MembershipStep
    PROVE  Moving \/ \E m \in Members : Taking(m) /\ \A q \in Requests : ~Holds(q, m)
<1>1. MembershipInv
  BY DEF IndInv
<1>. QED BY <1>1, LocksCases, MovesCases DEF MembershipStep

LEMMA MembershipKeeps ==
    ASSUME IndInv, MembershipStep
    PROVE  MembershipKept
<1>0. MembershipInv
  BY DEF IndInv
<1>1. MembershipInv'
  BY <1>0, MembershipStepCases, MovingKeeps
<1>2. ASSUME NEW m \in Members, NEW q \in Requests, Holds(q, m)
      PROVE  member'[m].status = "active" /\ RowFree(m)'
  <2>0. member[m].status = "active" /\ RowFree(m)
    BY <1>2, HeldMember
  <2>1. ASSUME NEW n \in Members, Taking(n), \A p \in Requests : ~Holds(p, n)
        PROVE  member'[m].status = "active" /\ RowFree(m)'
    <3>1. PICK x \in Changes : Clearing(x) /\ change[x].member = n
      BY <2>1 DEF Taking
    <3>2. Changed(x) /\ change'[x].member = n /\ n # m /\ member' = member
      BY <1>2, <2>1, <3>1 DEF Clearing, membership
    <3>. QED BY <2>0, <3>2, RowStaysFree
  <2>2. ASSUME NEW i \in Invitations, Asking(i)
        PROVE  member'[m].status = "active" /\ RowFree(m)'
    BY <2>0, <2>2 DEF Asking, RowFree, WritesMember
  <2>3. ASSUME NEW x \in Changes, Reading(x) \/ (Clearing(x) /\ ~WritesMember(x)') \/ Leaving(x)
        PROVE  member'[m].status = "active" /\ RowFree(m)'
    <3>1. Changed(x) /\ member' = member /\ (change'[x].pc # "write" \/ ~WritesMember(x)')
      BY <2>3 DEF Reading, Clearing, Leaving, Still, membership
    <3>. QED BY <2>0, <3>1, RowStaysFree
  <2>4. ASSUME NEW x \in Changes, Committing(x, change[x].member)
        PROVE  member'[m].status = "active" /\ RowFree(m)'
    <3>1. Changed(x) /\ change'[x].pc = "idle" /\ change[x].pc = "write"
      BY <2>4 DEF Committing, Still
    <3>2. change[x].member = m => ~WritesMember(x)
      BY <2>0, <3>1 DEF RowFree
    <3>3. member'[m] = member[m]
      BY <2>4, <3>2 DEF Committing
    <3>. QED BY <2>0, <3>1, <3>3, RowStaysFree
  <2>5. CASE Moving
    BY <2>2, <2>3, <2>4, <2>5, Zenon DEF Moving
  <2>. QED BY <2>1, <2>5, MembershipStepCases
<1>. QED BY <1>1, <1>2 DEF MembershipKept, MembershipInv

-----------------------------------------------------------------------------
(* Enrollments and progress.                                                *)

LEMMA ContentsApart ==
    /\ IsFiniteSet(Lessons)
    /\ None \notin Versions /\ None \notin Contents /\ None \notin Lessons
    /\ \A k \in Contents : RequiredOf[k] \in SUBSET Lessons /\ RequiredOf[k] # {}
    /\ MaxProgress \in Nat
  BY LessonsAssumption, ProgressAssumption DEF LessonsAssumption, ProgressAssumption

LEMMA IdleType == Idle \in RequestStates
  BY DEF Idle, RequestStates

\* What the lessons of an enrollment add up to stays, if its rows and the lessons its
\* version requires do.
LEMMA TellsKept ==
    ASSUME NEW e, Tells(e), progress'[e] = progress[e], lesson'[e] = lesson[e],
           told'[e] = told[e], progress[e].row = 0 \/ RequiredIn(e)' = RequiredIn(e)
    PROVE  Tells(e)'
<1>1. CASE progress[e].row = 0
  BY <1>1 DEF Tells
<1>2. CASE progress[e].row # 0 /\ RequiredIn(e)' = RequiredIn(e)
  BY <1>2 DEF Tells
<1>. QED BY <1>1, <1>2

\* What ActsInForce asks of one step.
InForce(e) ==
    /\ MadeInForce(e)
    /\ EnrollmentTrigger(e)
    /\ CourseProgressTrigger(e)
    /\ \A l \in Lessons : LessonProgressTrigger(e, l)
    /\ <<progress[e], lesson[e], told[e]>>' # <<progress[e], lesson[e], told[e]>> =>
          /\ enrollment[e].status = "active"
          /\ member[enrollment[e].member].status = "active"

LEMMA RowsInForce ==
    ASSUME NEW e, enrollment'[e] = enrollment[e], progress'[e] = progress[e],
           lesson'[e] = lesson[e], told'[e] = told[e]
    PROVE  InForce(e)
  BY DEF InForce, MadeInForce, EnrollmentTrigger, CourseProgressTrigger, LessonProgressTrigger

\* A step of the memberships.
LEMMA MembershipHolds ==
    ASSUME IndInv, MembershipStep
    PROVE  IndInv' /\ \A e \in Enrollments : InForce(e)
<1>0. MembershipKept /\ UNCHANGED <<says, public, shown, enrollment, progress, lesson, told, request>>
  BY MembershipKeeps DEF MembershipStep, course, learning
<1>1. TypeOK'
  BY <1>0 DEF IndInv, TypeOK, MembershipKept
<1>2. \A q \in Requests : RequestHolds(q)'
  <2>. SUFFICES ASSUME NEW q \in Requests PROVE RequestHolds(q)'
    OBVIOUS
  <2>1. RequestHolds(q)
    BY DEF IndInv
  <2>2. ASSUME request[q].pc \in {"enroll", "write"}
        PROVE  \E m \in Members :
                  m = request[q].member /\ member'[m].status = "active" /\ RowFree(m)'
    BY <1>0, <2>1, <2>2 DEF RequestHolds, MembershipKept, Holds
  <2>3. ASSUME NEW m, m = request[q].member, RowFree(m)'
        PROVE  RowFree(request[q].member)'
    BY <1>0, <2>3
  <2>. QED BY <1>0, <2>1, <2>2, <2>3 DEF RequestHolds
<1>3. \A e \in Enrollments : Pinned(e)' /\ Tells(e)'
  BY <1>0, TellsKept DEF IndInv, Pinned, RequiredIn
<1>4. Published'
  BY <1>0 DEF IndInv, Published
<1>5. \A e \in Enrollments : InForce(e)
  BY <1>0, RowsInForce
<1>. QED BY <1>0, <1>1, <1>2, <1>3, <1>4, <1>5 DEF IndInv, MembershipKept

\* The memberships stay as they are.
LEMMA MembershipSame ==
    ASSUME IndInv, UNCHANGED membershipVars
    PROVE  /\ MembershipTypeOK' /\ MembershipInv'
           /\ \A m : RowFree(m)' <=> RowFree(m)
           /\ UNCHANGED <<member, roles, invitation, change>>
<1>1. UNCHANGED <<member, roles, invitation, change>>
  BY DEF membershipVars
<1>. QED BY <1>1, MembershipsSame DEF IndInv, MembershipInv, RowFree, WritesMember

\* Requests that stay as they are, while their memberships and enrollments do.
LEMMA RequestSame ==
    ASSUME IndInv, UNCHANGED membershipVars, NEW q \in Requests, request'[q] = request[q],
           LET e == request[q].enrollment IN
           request[q].pc \in {"asked", "write"} =>
               /\ enrollment'[e].status # "none" /\ enrollment'[e].member = enrollment[e].member
               /\ request[q].pc = "write" => enrollment'[e].status = "active"
    PROVE  RequestHolds(q)'
<1>1. RequestHolds(q) /\ member' = member
  BY MembershipSame DEF IndInv
<1>2. RowFree(request[q].member)' <=> RowFree(request[q].member)
  BY MembershipSame DEF RowFree, WritesMember
<1>. QED BY <1>1, <1>2 DEF RequestHolds

LEMMA CourseHolds ==
    ASSUME IndInv, CourseStep
    PROVE  IndInv' /\ \A e \in Enrollments : InForce(e)
<1>0. /\ UNCHANGED membershipVars
      /\ UNCHANGED <<enrollment, progress, lesson, told, request>>
      /\ says \in [Versions -> Contents \cup {None}] /\ public \subseteq Versions
      /\ shown \in Versions \cup {None} /\ Published
  BY DEF CourseStep, learning, IndInv, TypeOK
<1>1. /\ says' \in [Versions -> Contents \cup {None}]
      /\ public' \subseteq Versions
      /\ shown' \in Versions \cup {None}
      /\ Published'
      /\ \A v \in Versions : says[v] # None => says'[v] = says[v]
  <2>1. ASSUME NEW v \in Versions, NEW k \in Contents, Course!Publish(v, k)
        PROVE  /\ says' \in [Versions -> Contents \cup {None}]
               /\ public' \subseteq Versions
               /\ shown' \in Versions \cup {None}
               /\ Published'
               /\ \A w \in Versions : says[w] # None => says'[w] = says[w]
    <3>1. says[v] = None /\ says' = [says EXCEPT ![v] = k] /\ public' = public \cup {v} /\ shown' = v
      BY <2>1, Zenon DEF Course!Publish
    <3>. QED BY <1>0, <3>1, ContentsApart DEF Published
  <2>2. ASSUME NEW v \in Versions, Course!Withdraw(v)
        PROVE  /\ says' \in [Versions -> Contents \cup {None}]
               /\ public' \subseteq Versions
               /\ shown' \in Versions \cup {None}
               /\ Published'
               /\ \A w \in Versions : says[w] # None => says'[w] = says[w]
    <3>1. says' = says /\ public' = public \ {v} /\ shown' = None
      BY <2>2, Zenon DEF Course!Withdraw
    <3>. QED BY <1>0, <3>1 DEF Published
  <2>. QED BY <2>1, <2>2 DEF CourseStep
<1>2. TypeOK'
  BY <1>0, <1>1, MembershipSame DEF IndInv, TypeOK
<1>3. \A q \in Requests : RequestHolds(q)'
  BY <1>0, RequestSame DEF IndInv, RequestHolds
<1>4. ASSUME NEW e \in Enrollments
      PROVE  Pinned(e)' /\ Tells(e)'
  <2>1. Pinned(e) /\ Tells(e)
    BY DEF IndInv
  <2>2. Pinned(e)'
    BY <1>0, <1>1, <2>1 DEF Pinned
  <2>3. progress[e].row = 0 \/ RequiredIn(e)' = RequiredIn(e)
    BY <1>0, <1>1, <2>1 DEF Pinned, RequiredIn, IndInv, TypeOK, EnrollmentRows
  <2>. QED BY <1>0, <2>1, <2>2, <2>3, TellsKept
<1>5. \A e \in Enrollments : InForce(e)
  BY <1>0, RowsInForce
<1>. QED BY <1>0, <1>1, <1>2, <1>3, <1>4, <1>5, MembershipSame DEF IndInv

\* Only one request goes on.
RequestMoved(q, state) ==
    /\ request' \in [Requests -> RequestStates]
    /\ \A p \in Requests : p # q => request'[p] = request[p]
    /\ request'[q] = state

LEMMA GoesMoves ==
    ASSUME TypeOK, NEW q \in Requests, NEW state \in RequestStates, Goes(q, state)
    PROVE  RequestMoved(q, state)
  BY DEF TypeOK, Goes, RequestMoved

LEMMA EndsMoves ==
    ASSUME TypeOK, NEW q \in Requests, Ends(q)
    PROVE  RequestMoved(q, Idle)
  BY IdleType, GoesMoves DEF Ends

\* A step that only moves a request, to a state in which it holds what it should.
LEMMA OnlyRequest ==
    ASSUME IndInv, NEW q \in Requests, NEW state, RequestMoved(q, state),
           UNCHANGED <<membershipVars, course, learning>>,
           RequestHolds(q)'
    PROVE  IndInv' /\ \A e \in Enrollments : InForce(e)
<1>0. UNCHANGED <<says, public, shown, enrollment, progress, lesson, told>>
      /\ UNCHANGED membershipVars
  BY DEF course, learning
<1>1. TypeOK'
  BY <1>0, MembershipSame DEF IndInv, TypeOK, RequestMoved
<1>2. ASSUME NEW p \in Requests
      PROVE  RequestHolds(p)'
  <2>1. CASE p # q
    <3>1. request'[p] = request[p] /\ RequestHolds(p)
      BY <2>1 DEF RequestMoved, IndInv
    <3>2. RequestHolds(p)'
      BY <1>0, <3>1, RequestSame DEF RequestHolds
    <3>. QED BY <3>2
  <2>. QED BY <2>1
<1>3. \A e \in Enrollments : Pinned(e)' /\ Tells(e)'
  BY <1>0, TellsKept DEF IndInv, Pinned, RequiredIn
<1>4. Published'
  BY <1>0 DEF IndInv, Published
<1>5. \A e \in Enrollments : InForce(e)
  BY <1>0, RowsInForce
<1>. QED BY <1>0, <1>1, <1>2, <1>3, <1>4, <1>5, MembershipSame DEF IndInv

LEMMA EndHolds ==
    ASSUME IndInv, NEW q \in Requests, Ends(q), UNCHANGED <<membershipVars, course, learning>>
    PROVE  IndInv' /\ \A e \in Enrollments : InForce(e)
<1>1. RequestMoved(q, Idle)
  BY EndsMoves DEF IndInv
<1>2. RequestHolds(q)'
  BY <1>1 DEF RequestMoved, RequestHolds, Idle
<1>. QED BY <1>1, <1>2, OnlyRequest

LEMMA LockLearnerHolds ==
    ASSUME IndInv, NEW q \in Requests, NEW m \in Members, LockLearner(q, m)
    PROVE  IndInv' /\ \A e \in Enrollments : InForce(e)
<1>. DEFINE state == [Idle EXCEPT !.pc = "enroll", !.member = m]
<1>1. state \in RequestStates /\ state.pc = "enroll" /\ state.member = m
  BY DEF Idle, RequestStates
<1>2. Goes(q, state) /\ UNCHANGED <<membershipVars, course, learning>>
      /\ RowFree(m) /\ member[m].status = "active"
  BY DEF LockLearner
<1>. HIDE DEF state
<1>3. RequestMoved(q, state)
  BY <1>1, <1>2, GoesMoves DEF IndInv
<1>4. RowFree(m)' /\ member' = member
  BY <1>2, MembershipSame DEF RowFree, WritesMember
<1>5. request'[q].pc = "enroll" /\ request'[q].member = m
  BY <1>1, <1>3 DEF RequestMoved
<1>6. RequestHolds(q)'
  BY <1>2, <1>4, <1>5 DEF RequestHolds, RowFree
<1>. QED BY <1>2, <1>3, <1>6, OnlyRequest

LEMMA AskProgressHolds ==
    ASSUME IndInv, NEW q \in Requests, NEW e \in Enrollments, AskProgress(q, e)
    PROVE  IndInv' /\ \A f \in Enrollments : InForce(f)
<1>. DEFINE state == [Idle EXCEPT !.pc = "asked", !.member = enrollment[e].member,
                                  !.enrollment = e, !.row = progress[e].row]
<1>1. enrollment[e] \in EnrollmentRows /\ progress[e] \in ProgressRows
  BY DEF IndInv, TypeOK
<1>2. /\ state \in RequestStates
      /\ state.pc = "asked" /\ state.member = enrollment[e].member /\ state.enrollment = e
  BY <1>1 DEF Idle, RequestStates, EnrollmentRows, ProgressRows
<1>3. Goes(q, state) /\ UNCHANGED <<membershipVars, course, learning>>
      /\ enrollment[e].status = "active"
  BY DEF AskProgress, Playable
<1>. HIDE DEF state
<1>4. RequestMoved(q, state)
  BY <1>2, <1>3, GoesMoves DEF IndInv
<1>5. enrollment' = enrollment
  BY <1>3 DEF learning
<1>6. RequestHolds(q)'
  BY <1>2, <1>3, <1>4, <1>5 DEF RequestHolds, RequestMoved
<1>. QED BY <1>3, <1>4, <1>6, OnlyRequest

LEMMA LockEnrollmentHolds ==
    ASSUME IndInv, NEW q \in Requests, LockEnrollment(q)
    PROVE  IndInv' /\ \A f \in Enrollments : InForce(f)
<1>. DEFINE state == [request[q] EXCEPT !.pc = "write"]
<1>1. request[q] \in RequestStates
  BY DEF IndInv, TypeOK
<1>2. /\ state \in RequestStates
      /\ state.pc = "write" /\ state.member = request[q].member
      /\ state.enrollment = request[q].enrollment
  BY <1>1 DEF RequestStates
<1>3. /\ Goes(q, state) /\ UNCHANGED <<membershipVars, course, learning>>
      /\ request[q].pc = "asked" /\ RowFree(request[q].member)
      /\ Playable(request[q].enrollment)
  BY DEF LockEnrollment, Grantable
<1>. HIDE DEF state
<1>4. RequestMoved(q, state)
  BY <1>2, <1>3, GoesMoves DEF IndInv
<1>5. /\ request[q].enrollment \in Enrollments
      /\ request[q].member = enrollment[request[q].enrollment].member
      /\ Pinned(request[q].enrollment)
  BY <1>3 DEF IndInv, RequestHolds
<1>6. PICK m \in Members : m = request[q].member
  BY <1>3, <1>5 DEF Playable, Pinned
<1>7. RowFree(m)' /\ member' = member /\ enrollment' = enrollment
  BY <1>3, <1>6, MembershipSame DEF RowFree, WritesMember, learning
<1>8. request'[q].pc = "write" /\ request'[q].member = m
      /\ request'[q].enrollment = request[q].enrollment
  BY <1>2, <1>4, <1>6 DEF RequestMoved
<1>9. RequestHolds(q)'
  BY <1>3, <1>5, <1>6, <1>7, <1>8 DEF RequestHolds, Playable, RowFree
<1>. QED BY <1>3, <1>4, <1>9, OnlyRequest

\* One enrollment moves: it is made, or changed while no progress command holds it.
EnrollmentMoved(e) ==
    LET old == enrollment[e]
        new == enrollment'[e]
    IN
    /\ enrollment' \in [Enrollments -> EnrollmentRows]
    /\ \A f \in Enrollments : f # e => enrollment'[f] = enrollment[f]
    /\ \/ old.status = "none"
       \/ /\ EnrollmentFree(e)
          /\ new.status # "none" /\ new.version = old.version /\ new.member = old.member

\* A step that moves one enrollment, and at most ends requests.
LEMMA OnlyEnrollment ==
    ASSUME IndInv, NEW e \in Enrollments, EnrollmentMoved(e),
           UNCHANGED <<membershipVars, course, progress, lesson, told>>,
           request' \in [Requests -> RequestStates],
           \A q \in Requests : request'[q] = request[q] \/ request'[q] = Idle,
           Pinned(e)', MadeInForce(e), EnrollmentTrigger(e)
    PROVE  IndInv' /\ \A f \in Enrollments : InForce(f)
<1>0. UNCHANGED <<says, public, shown>> /\ UNCHANGED membershipVars
  BY DEF course
<1>1. TypeOK'
  BY <1>0, MembershipSame DEF IndInv, TypeOK, EnrollmentMoved
<1>2. ASSUME NEW q \in Requests
      PROVE  RequestHolds(q)'
  <2>1. CASE request'[q] = Idle
    BY <2>1 DEF RequestHolds, Idle
  <2>2. CASE request'[q] = request[q]
    <3>1. RequestHolds(q)
      BY DEF IndInv
    <3>2. request[q].pc \in {"asked", "write"} =>
            LET f == request[q].enrollment IN
            /\ enrollment'[f].status # "none" /\ enrollment'[f].member = enrollment[f].member
            /\ request[q].pc = "write" => enrollment'[f].status = "active"
      BY <3>1 DEF RequestHolds, EnrollmentMoved, EnrollmentFree
    <3>. QED BY <1>0, <2>2, <3>2, RequestSame
  <2>. QED BY <2>1, <2>2
<1>3. ASSUME NEW f \in Enrollments
      PROVE  Pinned(f)' /\ Tells(f)'
  <2>1. Pinned(f) /\ Tells(f)
    BY DEF IndInv
  <2>2. Pinned(f)'
    BY <1>0, <2>1 DEF EnrollmentMoved, Pinned
  <2>3. progress[f].row = 0 \/ RequiredIn(f)' = RequiredIn(f)
    BY <1>0, <2>1 DEF Pinned, RequiredIn, EnrollmentMoved
  <2>. QED BY <2>1, <2>2, <2>3, TellsKept
<1>4. Published'
  BY <1>0 DEF IndInv, Published
<1>5. ASSUME NEW f \in Enrollments
      PROVE  InForce(f)
  <2>1. CASE f # e
    BY <2>1, RowsInForce DEF EnrollmentMoved
  <2>2. CASE f = e
    BY <2>2 DEF InForce, CourseProgressTrigger, LessonProgressTrigger
  <2>. QED BY <2>1, <2>2
<1>. QED BY <1>0, <1>1, <1>2, <1>3, <1>4, <1>5, MembershipSame DEF IndInv

LEMMA EnrollHolds ==
    ASSUME IndInv, NEW q \in Requests, Enroll(q)
    PROVE  IndInv' /\ \A f \in Enrollments : InForce(f)
<1>1. PICK m \in Members : m = request[q].member /\ member[m].status = "active"
  BY DEF IndInv, RequestHolds, Enroll
<1>. DEFINE row == [status |-> "active", member |-> m, version |-> shown, row |-> 1]
<1>2. /\ shown \in Versions /\ shown \in public /\ says[shown] # None
      /\ enrollment \in [Enrollments -> EnrollmentRows]
      /\ ~Enrolled(m)
  BY <1>1 DEF Enroll, IndInv, TypeOK, Published
<1>3. PICK e \in Enrollments :
        enrollment[e].status = "none" /\ enrollment' = [enrollment EXCEPT ![e] = row]
  BY <1>1 DEF Enroll
<1>4. row \in EnrollmentRows /\ row.status = "active" /\ row.member = m
      /\ row.version = shown /\ row.row = 1
  BY <1>1, <1>2 DEF EnrollmentRows
<1>5. /\ RequestMoved(q, Idle)
      /\ UNCHANGED <<membershipVars, course, progress, lesson, told>>
  BY EndsMoves DEF IndInv, Enroll
<1>. HIDE DEF row
<1>6. EnrollmentMoved(e) /\ enrollment'[e] = row
  BY <1>2, <1>3, <1>4 DEF EnrollmentMoved
<1>7. Pinned(e)'
  BY <1>1, <1>2, <1>4, <1>5, <1>6 DEF Pinned, course
<1>8. MadeInForce(e)
  BY <1>1, <1>2, <1>4, <1>6 DEF MadeInForce, Enrolled
<1>9. EnrollmentTrigger(e)
  BY <1>3 DEF EnrollmentTrigger
<1>. QED BY <1>5, <1>6, <1>7, <1>8, <1>9, OnlyEnrollment DEF RequestMoved

LEMMA RevokeHolds ==
    ASSUME IndInv, NEW e \in Enrollments, Revoke(e)
    PROVE  IndInv' /\ \A f \in Enrollments : InForce(f)
<1>. DEFINE row == Revoked(enrollment[e])
<1>1. /\ enrollment \in [Enrollments -> EnrollmentRows] /\ enrollment[e] \in EnrollmentRows
      /\ request \in [Requests -> RequestStates] /\ Pinned(e)
      /\ enrollment[e].status = "active" /\ enrollment[e].row = 1
      /\ EnrollmentFree(e) /\ enrollment' = [enrollment EXCEPT ![e] = row]
      /\ UNCHANGED <<membershipVars, course, progress, lesson, told, request>>
  BY DEF Revoke, IndInv, TypeOK, Pinned
<1>2. /\ row.status = "revoked" /\ row.member = enrollment[e].member
      /\ row.version = enrollment[e].version /\ row.row = enrollment[e].row + 1
  BY <1>1 DEF Revoked, EnrollmentRows
<1>3. row \in EnrollmentRows
  <2>1. enrollment[e].row + 1 \in 0 .. 2
    BY <1>1
  <2>2. /\ enrollment[e] \in EnrollmentRows
        /\ row = [enrollment[e] EXCEPT !.status = "revoked", !.row = enrollment[e].row + 1]
    BY <1>1, Zenon DEF Revoked
  <2>. HIDE DEF row
  <2>. QED BY ONLY <2>1, <2>2 DEF EnrollmentRows
<1>. HIDE DEF row
<1>4. EnrollmentMoved(e) /\ enrollment'[e] = row
  BY <1>1, <1>2, <1>3 DEF EnrollmentMoved
<1>5. Pinned(e)'
  BY <1>1, <1>2, <1>4 DEF Pinned, course
<1>6. MadeInForce(e) /\ EnrollmentTrigger(e)
  BY <1>1, <1>2, <1>4 DEF MadeInForce, EnrollmentTrigger
<1>. QED BY <1>1, <1>4, <1>5, <1>6, OnlyEnrollment

LEMMA NextLessonType ==
    ASSUME NEW command \in Commands, NEW state \in LessonStates
    PROVE  NextLesson(command, state) \in LessonStates \ {"not_started"}
  BY DEF Commands, LessonStates, NextLesson

\* A part of some required lessons is all of them when it is as large.
LEMMA Counted ==
    ASSUME NEW R \in SUBSET Lessons, NEW D \in SUBSET R
    PROVE  /\ Cardinality(R) \in 0 .. Cardinality(Lessons)
           /\ Cardinality(D) \in 0 .. Cardinality(Lessons)
           /\ Cardinality(D) = Cardinality(R) <=> D = R
<1>1. IsFiniteSet(Lessons) /\ IsFiniteSet(R)
  BY ContentsApart, FS_Subset
<1>2. /\ Cardinality(R) <= Cardinality(Lessons)
      /\ Cardinality(D) <= Cardinality(R)
      /\ Cardinality(D) = Cardinality(R) => D = R
  BY <1>1, FS_Subset
<1>3. IsFiniteSet(D)
  BY <1>1, FS_Subset
<1>4. Cardinality(Lessons) \in Nat /\ Cardinality(R) \in Nat /\ Cardinality(D) \in Nat
  BY <1>1, <1>3, FS_CardinalityType
<1>. QED BY <1>2, <1>4

\* What a save of progress writes for its enrollment, whose version requires R.
Saved(e, l, R) ==
    LET old == progress[e]
        new == progress'[e]
        done == {k \in R : lesson'[e][k] = "completed"}
    IN
    /\ R \in SUBSET Lessons /\ RequiredIn(e) = R
    /\ progress' \in [Enrollments -> ProgressRows]
    /\ lesson' \in [Enrollments -> [Lessons -> LessonStates]]
    /\ told' \in [Enrollments -> {"nothing", "completed", "reopened"}]
    /\ \A f \in Enrollments : f # e =>
          progress'[f] = progress[f] /\ lesson'[f] = lesson[f] /\ told'[f] = told[f]
    /\ new.required = Cardinality(R) /\ new.done = Cardinality(done)
    /\ new.state = IF done = R THEN "completed" ELSE "in_progress"
    /\ new.resume = l /\ new.row = old.row + 1
    /\ lesson'[e][l] # "not_started"
    /\ \A k \in Lessons : k # l => lesson'[e][k] = lesson[e][k]
    /\ told'[e] = Fact(told[e], old.state, new.state)

LEMMA SaveEffect ==
    ASSUME IndInv, NEW q \in Requests, NEW l \in Lessons, NEW command \in Commands,
           SaveProgress(q, l, command), NEW e \in Enrollments, e = request[q].enrollment,
           Pinned(e), enrollment[e].status = "active"
    PROVE  \E R \in SUBSET Lessons : Saved(e, l, R)
<1>. DEFINE states == [lesson[e] EXCEPT ![l] = NextLesson(command, @)]
            R == RequiredIn(e)
            D == CompletedRequired(e, states)
            state == IF Cardinality(D) = Cardinality(R) THEN "completed" ELSE "in_progress"
            row == [state |-> state, required |-> Cardinality(R), done |-> Cardinality(D),
                    resume |-> l, row |-> progress[e].row + 1]
            fact == Fact(told[e], progress[e].state, state)
<1>0. /\ progress \in [Enrollments -> ProgressRows]
      /\ lesson \in [Enrollments -> [Lessons -> LessonStates]]
      /\ told \in [Enrollments -> {"nothing", "completed", "reopened"}]
      /\ progress[e] \in ProgressRows /\ lesson[e] \in [Lessons -> LessonStates]
      /\ told[e] \in {"nothing", "completed", "reopened"}
  BY DEF IndInv, TypeOK
<1>1. /\ lesson' = [lesson EXCEPT ![e] = states]
      /\ progress' = [progress EXCEPT ![e] = row]
      /\ told' = [told EXCEPT ![e] = fact]
  BY DEF SaveProgress
<1>2. R \in SUBSET Lessons
  <2>1. says[enrollment[e].version] \in Contents
    BY DEF Pinned, IndInv, TypeOK
  <2>. QED BY <2>1, ContentsApart DEF RequiredIn
<1>3. /\ states \in [Lessons -> LessonStates]
      /\ states[l] # "not_started"
      /\ \A k \in Lessons : k # l => states[k] = lesson[e][k]
  <2>. DEFINE next == NextLesson(command, lesson[e][l])
  <2>1. next \in LessonStates /\ next # "not_started"
    BY <1>0, NextLessonType
  <2>2. states = [lesson[e] EXCEPT ![l] = next]
    OBVIOUS
  <2>. HIDE DEF next, states
  <2>. QED BY <1>0, <2>1, <2>2
<1>4. D = {k \in R : states[k] = "completed"}
  BY Zenon DEF CompletedRequired
<1>. HIDE DEF states
<1>5. /\ Cardinality(R) \in 0 .. Cardinality(Lessons)
      /\ Cardinality(D) \in 0 .. Cardinality(Lessons)
      /\ Cardinality(D) = Cardinality(R) <=> D = R
  <2>1. D \in SUBSET R
    BY <1>4
  <2>. HIDE DEF D, R
  <2>. QED BY <1>2, <2>1, Counted
<1>6. state = IF D = R THEN "completed" ELSE "in_progress"
  <2>. HIDE DEF D, R
  <2>. QED BY <1>5
<1>. HIDE DEF D, R
<1>7. /\ row \in ProgressRows
      /\ row.state = state /\ row.required = Cardinality(R) /\ row.done = Cardinality(D)
      /\ row.resume = l /\ row.row = progress[e].row + 1
  BY <1>0, <1>5 DEF ProgressRows
<1>8. fact \in {"nothing", "completed", "reopened"}
  BY <1>0 DEF Fact
<1>. HIDE DEF state, row, fact
<1>9. /\ progress' \in [Enrollments -> ProgressRows] /\ progress'[e] = row
      /\ lesson' \in [Enrollments -> [Lessons -> LessonStates]] /\ lesson'[e] = states
      /\ told' \in [Enrollments -> {"nothing", "completed", "reopened"}] /\ told'[e] = fact
      /\ \A f \in Enrollments : f # e =>
            progress'[f] = progress[f] /\ lesson'[f] = lesson[f] /\ told'[f] = told[f]
  BY <1>0, <1>1, <1>3, <1>7, <1>8
<1>10. D = {k \in R : lesson'[e][k] = "completed"}
  BY <1>4, <1>9
<1>11. told'[e] = Fact(told[e], progress[e].state, progress'[e].state)
  BY <1>7, <1>9, Zenon DEF fact
<1>12. RequiredIn(e) = R
  BY DEF R
<1>. QED BY <1>2, <1>3, <1>6, <1>7, <1>9, <1>10, <1>11, <1>12, ZenonT(60) DEF Saved

LEMMA SaveTells ==
    ASSUME NEW e \in Enrollments, NEW l \in Lessons, NEW R \in SUBSET Lessons,
           progress[e] \in ProgressRows, Saved(e, l, R), Tells(e), RequiredIn(e)' = R
    PROVE  Tells(e)' /\ CourseProgressTrigger(e) /\ \A k \in Lessons : LessonProgressTrigger(e, k)
<1>. DEFINE D == {k \in R : lesson'[e][k] = "completed"}
<1>1. progress[e].row \in Nat
  BY DEF ProgressRows
<1>2. /\ progress'[e].row = progress[e].row + 1 /\ progress'[e].row # 0
      /\ progress'[e].required = Cardinality(R) /\ progress'[e].done = Cardinality(D)
      /\ progress'[e].state = IF D = R THEN "completed" ELSE "in_progress"
      /\ lesson'[e][progress'[e].resume] # "not_started"
  BY <1>1 DEF Saved
<1>3. progress[e].state = "completed" <=> told[e] = "completed"
  BY DEF Tells, NoProgress
<1>4. progress'[e].state = "completed" <=> told'[e] = "completed"
  <2>1. told'[e] = Fact(told[e], progress[e].state, progress'[e].state)
    BY DEF Saved
  <2>. QED BY <1>3, <2>1 DEF Fact
<1>5. Tells(e)'
  BY <1>2, <1>4 DEF Tells
<1>6. progress[e].row # 0 => progress[e].required = Cardinality(R)
  BY DEF Tells, Saved
<1>7. CourseProgressTrigger(e)
  BY <1>2, <1>6 DEF CourseProgressTrigger
<1>8. \A k \in Lessons : LessonProgressTrigger(e, k)
  BY DEF LessonProgressTrigger, Saved
<1>. QED BY <1>5, <1>7, <1>8

LEMMA SaveProgressHolds ==
    ASSUME IndInv, NEW q \in Requests, NEW l \in Lessons, NEW command \in Commands,
           SaveProgress(q, l, command)
    PROVE  IndInv' /\ \A f \in Enrollments : InForce(f)
<1>0. /\ request[q].pc = "write" /\ Ends(q)
      /\ UNCHANGED membershipVars /\ UNCHANGED <<says, public, shown, enrollment>>
  BY DEF SaveProgress, course
<1>1. PICK e \in Enrollments : e = request[q].enrollment
  BY <1>0 DEF IndInv, RequestHolds
<1>2. /\ enrollment[e].status = "active"
      /\ member[enrollment[e].member].status = "active"
      /\ Pinned(e) /\ Tells(e) /\ progress[e] \in ProgressRows
  BY <1>0, <1>1 DEF IndInv, TypeOK, RequestHolds
<1>3. PICK R \in SUBSET Lessons : Saved(e, l, R)
  BY <1>1, <1>2, SaveEffect
<1>4. RequiredIn(e)' = R
  <2>1. RequiredIn(e)' = RequiredIn(e)
    BY <1>0 DEF RequiredIn
  <2>. QED BY <1>3, <2>1 DEF Saved
<1>5. Tells(e)' /\ CourseProgressTrigger(e) /\ \A k \in Lessons : LessonProgressTrigger(e, k)
  BY <1>2, <1>3, <1>4, SaveTells
<1>6. RequestMoved(q, Idle)
  BY <1>0, EndsMoves DEF IndInv
<1>7. TypeOK'
  BY <1>0, <1>3, <1>6, MembershipSame DEF IndInv, TypeOK, Saved, RequestMoved
<1>8. ASSUME NEW p \in Requests
      PROVE  RequestHolds(p)'
  <2>1. CASE p = q
    BY <1>6, <2>1 DEF RequestMoved, RequestHolds, Idle
  <2>2. CASE p # q
    <3>1. request'[p] = request[p] /\ RequestHolds(p)
      BY <1>6, <2>2 DEF RequestMoved, IndInv
    <3>. QED BY <1>0, <3>1, RequestSame DEF RequestHolds
  <2>. QED BY <2>1, <2>2
<1>9. ASSUME NEW f \in Enrollments
      PROVE  Pinned(f)' /\ Tells(f)'
  <2>1. Pinned(f) /\ Tells(f)
    BY DEF IndInv
  <2>2. CASE f # e
    <3>1. progress'[f] = progress[f] /\ lesson'[f] = lesson[f] /\ told'[f] = told[f]
      BY <1>3, <2>2 DEF Saved
    <3>2. RequiredIn(f)' = RequiredIn(f)
      BY <1>0 DEF RequiredIn
    <3>. QED BY <1>0, <2>1, <3>1, <3>2, TellsKept DEF Pinned
  <2>3. CASE f = e
    BY <1>0, <1>2, <1>5, <2>3 DEF Pinned
  <2>. QED BY <2>2, <2>3
<1>10. Published'
  BY <1>0 DEF IndInv, Published
<1>11. ASSUME NEW f \in Enrollments
       PROVE  InForce(f)
  <2>1. CASE f # e
    BY <1>0, <1>3, <2>1, RowsInForce DEF Saved
  <2>2. CASE f = e
    BY <1>0, <1>2, <1>5, <2>2 DEF InForce, MadeInForce, EnrollmentTrigger
  <2>. QED BY <2>1, <2>2
<1>. QED BY <1>0, <1>7, <1>8, <1>9, <1>10, <1>11, MembershipSame DEF IndInv

-----------------------------------------------------------------------------
(* The steps together.                                                      *)

LEMMA RequestStepHolds ==
    ASSUME IndInv, NEW q \in Requests, RequestStep(q)
    PROVE  IndInv' /\ \A e \in Enrollments : InForce(e)
<1>1. CASE \E m \in Members : LockLearner(q, m)
  BY <1>1, LockLearnerHolds
<1>2. CASE Enroll(q)
  BY <1>2, EnrollHolds
<1>3. CASE \E e \in Enrollments : AskProgress(q, e)
  BY <1>3, AskProgressHolds
<1>4. CASE LockEnrollment(q)
  BY <1>4, LockEnrollmentHolds
<1>5. CASE EnrollmentRefused(q) \/ EnrollmentUnavailable(q) \/ Rollback(q)
  BY <1>5, EndHolds DEF EnrollmentRefused, EnrollmentUnavailable, Rollback
<1>6. ASSUME NEW l \in Lessons, NEW command \in Commands,
             SaveProgress(q, l, command) \/ ProgressRefused(q, l, command)
      PROVE  IndInv' /\ \A e \in Enrollments : InForce(e)
  BY <1>6, SaveProgressHolds, EndHolds DEF ProgressRefused
<1>. QED BY <1>1, <1>2, <1>3, <1>4, <1>5, <1>6 DEF RequestStep

LEMMA InitHolds == Init => IndInv
<1>. SUFFICES ASSUME Init PROVE IndInv
  OBVIOUS
<1>1. MembershipInv /\ MembershipTypeOK
  BY MembershipsStart DEF Init, MembershipInv
<1>2. /\ says = [v \in Versions |-> None] /\ public = {} /\ shown = None
  <2>1. Course!Init
    BY DEF Init
  <2>. QED BY <2>1, Zenon DEF Course!Init
<1>3. /\ enrollment = [e \in Enrollments |-> NoEnrollment]
      /\ progress = [e \in Enrollments |-> NoProgress]
      /\ lesson = [e \in Enrollments |-> [l \in Lessons |-> "not_started"]]
      /\ told = [e \in Enrollments |-> "nothing"]
      /\ request = [q \in Requests |-> Idle]
  BY DEF Init
<1>5. TypeOK
  <2>1. NoEnrollment \in EnrollmentRows
    BY DEF NoEnrollment, EnrollmentRows
  <2>2. NoProgress \in ProgressRows
    <3>1. 0 \in 0 .. Cardinality(Lessons)
      BY ContentsApart, FS_CardinalityType
    <3>. QED BY <3>1 DEF NoProgress, ProgressRows
  <2>3. [l \in Lessons |-> "not_started"] \in [Lessons -> LessonStates]
    BY DEF LessonStates
  <2>. QED BY <1>1, <1>2, <1>3, <2>1, <2>2, <2>3, IdleType DEF TypeOK
<1>7. \A q \in Requests : RequestHolds(q)
  BY <1>3 DEF RequestHolds, Idle
<1>8. \A e \in Enrollments : Pinned(e) /\ Tells(e)
  BY <1>3 DEF Pinned, Tells, NoEnrollment, NoProgress
<1>9. Published
  BY <1>2 DEF Published
<1>. QED BY <1>1, <1>5, <1>7, <1>8, <1>9 DEF IndInv

LEMMA StutterHolds ==
    ASSUME IndInv, UNCHANGED vars
    PROVE  IndInv' /\ \A e \in Enrollments : InForce(e)
<1>1. /\ UNCHANGED membershipVars
      /\ UNCHANGED <<says, public, shown, enrollment, progress, lesson, told, request>>
  BY DEF vars, course, learning
<1>2. TypeOK'
  BY <1>1, MembershipSame DEF IndInv, TypeOK
<1>3. \A q \in Requests : RequestHolds(q)'
  BY <1>1, RequestSame DEF IndInv, RequestHolds
<1>4. \A e \in Enrollments : Pinned(e)' /\ Tells(e)'
  BY <1>1, TellsKept DEF IndInv, Pinned, RequiredIn
<1>5. Published'
  BY <1>1 DEF IndInv, Published
<1>6. \A e \in Enrollments : InForce(e)
  BY <1>1, RowsInForce
<1>. QED BY <1>1, <1>2, <1>3, <1>4, <1>5, <1>6, MembershipSame DEF IndInv

LEMMA StepHolds ==
    ASSUME IndInv, [Next]_vars
    PROVE  IndInv' /\ \A e \in Enrollments : InForce(e)
  BY MembershipHolds, CourseHolds, RevokeHolds, RequestStepHolds, StutterHolds DEF Next

\* A step of the memberships is one of those Memberships takes alone; no other step moves
\* them.
LEMMA MembershipsFollow ==
    ASSUME [Next]_vars
    PROVE  [MembershipNext]_membershipVars
<1>1. CASE MembershipStep
  BY <1>1 DEF MembershipStep, MembershipNext
<1>2. CASE CourseStep
  BY <1>2 DEF CourseStep
<1>3. CASE \E e \in Enrollments : Revoke(e)
  BY <1>3, SMTT(40) DEF Revoke
<1>4. ASSUME NEW q \in Requests, RequestStep(q)
      PROVE  UNCHANGED membershipVars
  BY <1>4 DEF RequestStep, LockLearner, Enroll, EnrollmentRefused, AskProgress, LockEnrollment,
              EnrollmentUnavailable, SaveProgress, ProgressRefused, Rollback
<1>5. CASE UNCHANGED vars
  BY <1>5 DEF vars
<1>. QED BY <1>1, <1>2, <1>3, <1>4, <1>5 DEF Next

\* A step of the course is one its contract lets it take; no other step moves it.
LEMMA CourseFollows ==
    ASSUME IndInv, [Next]_vars
    PROVE  [Course!Next]_(Course!vars)
<1>1. CASE CourseStep
  <2>1. ASSUME NEW v \in Versions, NEW k \in Contents, Course!Publish(v, k)
        PROVE  Course!Next
    <3>1. says'[v] = k /\ k # None
      BY <2>1, ContentsApart DEF Course!Publish, IndInv, TypeOK
    <3>. QED BY <2>1, <3>1 DEF Course!Next
  <2>2. ASSUME NEW v \in Versions, Course!Withdraw(v)
        PROVE  Course!Next
    BY <2>2, Zenon DEF Course!Next
  <2>. QED BY <1>1, <2>1, <2>2 DEF CourseStep
<1>2. CASE MembershipStep
  BY <1>2 DEF MembershipStep, course, Course!vars
<1>3. CASE \E e \in Enrollments : Revoke(e)
  BY <1>3, SMTT(40) DEF Revoke, course, Course!vars
<1>4. ASSUME NEW q \in Requests, RequestStep(q)
      PROVE  UNCHANGED Course!vars
  <2>1. UNCHANGED course
    BY <1>4 DEF RequestStep, LockLearner, Enroll, EnrollmentRefused, AskProgress, LockEnrollment,
                EnrollmentUnavailable, SaveProgress, ProgressRefused, Rollback
  <2>. QED BY <2>1 DEF course, Course!vars
<1>5. CASE UNCHANGED vars
  BY <1>5 DEF vars, course, Course!vars
<1>. QED BY <1>1, <1>2, <1>3, <1>4, <1>5 DEF Next

\* What PinnedContentStands asks of one step: whatever an enrollment is pinned to, and
\* what that says, stays.
PinStands(e) ==
    enrollment[e].status # "none" =>
        /\ enrollment'[e].version = enrollment[e].version
        /\ says'[enrollment'[e].version] = says[enrollment[e].version]
        /\ LessonsIn(e)' = LessonsIn(e)
        /\ RequiredIn(e)' = RequiredIn(e)

\* PinnedContentStands: the learner of an enrollment is given the same lessons, and the
\* same of them are required, from its start to its end and beyond, however the course
\* goes on: published anew, or withdrawn.
PinnedContentStands == [][\A e \in Enrollments : PinStands(e)]_vars

LEMMA StepPins ==
    ASSUME IndInv, [Next]_vars, NEW e \in Enrollments
    PROVE  PinStands(e)
<1>. SUFFICES ASSUME enrollment[e].status # "none"
              PROVE  PinStands(e)
  BY DEF PinStands
<1>1. says \in [Versions -> Contents \cup {None}]
      /\ enrollment[e].version \in Versions /\ says[enrollment[e].version] # None
  BY DEF IndInv, TypeOK, Pinned
<1>2. enrollment'[e].version = enrollment[e].version
  BY StepHolds DEF InForce, EnrollmentTrigger
<1>3. \A w \in Versions : says[w] # None => says'[w] = says[w]
  <2>1. [Course!Next]_(Course!vars)
    BY CourseFollows
  <2>2. ASSUME NEW v \in Versions, NEW k, Course!Publish(v, k)
        PROVE  \A w \in Versions : says[w] # None => says'[w] = says[w]
    BY <1>1, <2>2 DEF Course!Publish
  <2>3. ASSUME NEW v \in Versions, Course!Withdraw(v)
        PROVE  says' = says
    BY <2>3, Zenon DEF Course!Withdraw
  <2>4. ASSUME UNCHANGED Course!vars
        PROVE  says' = says
    BY <2>4 DEF Course!vars
  <2>. QED BY <2>1, <2>2, <2>3, <2>4 DEF Course!Next
<1>. QED BY <1>1, <1>2, <1>3 DEF PinStands, LessonsIn, RequiredIn

-----------------------------------------------------------------------------
(* The theorems.                                                            *)

\* The inductive invariant: locks held by requests and acceptances, what an enrollment is
\* pinned to, and what its lessons add up to.
THEOREM InvariantHolds == Spec => []IndInv
<1>1. IndInv /\ [Next]_vars => IndInv'
  BY StepHolds
<1>. QED BY InitHolds, <1>1, PTL DEF Spec

\* Every row, and every transaction in progress, has the shape the schema gives it.
THEOREM TypeCorrect == Spec => []TypeOK
<1>1. IndInv => TypeOK
  BY DEF IndInv
<1>. QED BY InvariantHolds, <1>1, PTL

\* What a learner is told of an enrollment is what its lessons add up to, against the
\* version it is pinned to, however many devices save progress at once.
THEOREM ProgressIsTold == Spec => []ProgressTells
<1>1. IndInv => ProgressTells
  BY DEF IndInv, ProgressTells, Tells
<1>. QED BY InvariantHolds, <1>1, PTL

\* Learners are enrolled, and make progress, only while they may, and no row trigger
\* refuses what is written.
THEOREM LearnersActInForce == Spec => ActsInForce
<1>. DEFINE A == \A e \in Enrollments : InForce(e)
<1>1. IndInv /\ [Next]_vars => [A]_vars
  BY StepHolds
<1>2. [A]_vars <=> [\A e \in Enrollments :
          /\ MadeInForce(e)
          /\ EnrollmentTrigger(e)
          /\ CourseProgressTrigger(e)
          /\ \A l \in Lessons : LessonProgressTrigger(e, l)
          /\ <<progress[e], lesson[e], told[e]>>' # <<progress[e], lesson[e], told[e]>> =>
                /\ enrollment[e].status = "active"
                /\ member[enrollment[e].member].status = "active"]_vars
  BY Zenon DEF InForce
<1>. HIDE DEF A
<1>. QED BY InvariantHolds, <1>1, <1>2, PTL DEF Spec, ActsInForce

\* Whatever learners do and hold, the memberships take no step they would not take alone:
\* what is proved of Memberships holds here.
THEOREM LearningHasMemberships == Spec => MembershipSpec
<1>1. Init => MembershipInit
  BY DEF Init
<1>. QED BY <1>1, MembershipsFollow, PTL DEF Spec, MembershipSpec

\* An invitation gives its roles once, in the step that accepts it.
THEOREM InvitationsGiveOnce == Spec => GivenOnce
  BY LearningHasMemberships, AcceptancesGiveOnce, PTL

\* An enrollment's lessons, and the required ones among them, never change under its
\* learner.
THEOREM LearnersKeepTheirLessons == Spec => PinnedContentStands
<1>. DEFINE A == \A e \in Enrollments : PinStands(e)
<1>1. IndInv /\ [Next]_vars => [A]_vars
  BY StepPins
<1>. HIDE DEF A
<1>2. Spec => [][A]_vars
  BY <1>1, InvariantHolds, PTL DEF Spec
<1>. QED BY <1>2 DEF PinnedContentStands, A

=============================================================================
